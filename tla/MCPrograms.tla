----------------------------- MODULE MCPrograms -----------------------------
EXTENDS Programs

\* One round of the kernfs control, and the four that graph mode asks for.
SomeRounds == {1, 4}

\* PAGE = 2 in a word of 16: ranges of one, two and three pages and one that
\* is not whole pages; products on both sides of the limits.
SomeOps    == {1, 2, 3, 5}
SomeRanges == {2, 3, 4, 6}

\* One batch of messages, and three, after which the patterns have come round;
\* 0 is refused.
SomeMessages   == {0, 2, 6}
SomeWarmups    == {0, 1}
SomeUnixRounds == {0, 1, 2}

\* fsnotify: a good environment per scenario and size, and the ways a setting
\* can be wrong: workers, CPU_LIST, TEST_DIR, KEEP_FILES and the two sysctls.
Good(s, n) ==
    [test_dir |-> "directory", scenario |-> s, workers |-> 1, items |-> n,
     keep_files |-> FALSE, list_set |-> TRUE, cpu_list |-> <<TRUE>>,
     max_watches |-> n + MARGIN, max_queue |-> n + 1]

GoodConfigs == {Good(s, n) : s \in {"bulk", "mask", "lookup"}, n \in 1..MAX_ITEMS+1}

Variants(c) ==
    {c, [c EXCEPT !.workers = 2], [c EXCEPT !.keep_files = TRUE],
     [c EXCEPT !.list_set = FALSE, !.cpu_list = <<>>],
     [c EXCEPT !.cpu_list = <<FALSE>>], [c EXCEPT !.cpu_list = <<TRUE, TRUE>>],
     [c EXCEPT !.cpu_list = <<>>],
     [c EXCEPT !.max_watches = @ - 1], [c EXCEPT !.max_queue = @ - 1],
     [c EXCEPT !.max_queue = 1]}
    \cup {[c EXCEPT !.test_dir = d] : d \in {"file", "missing", "relative"}}

EnvConfigs == UNION {Variants(c) : c \in GoodConfigs}
=============================================================================
