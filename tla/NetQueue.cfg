\* Two sessions, two workers and two socket threads: four messages that share
\* three addresses.
SPECIFICATION FairSpec
CONSTANTS
    Null = Null
    Sessions = {s1, s2}
    Nodes = {n1, n2, n3}
    Posters = {p1, p2}
    Workers = {w1, w2}
    MaxPosts = 4
INVARIANTS QueuesTrue
PROPERTIES SessionsServed EveryMessageTaken
