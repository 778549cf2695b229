--------------------------- MODULE ConsoleReader ---------------------------
(***************************************************************************)
(* console_reader (source/console_reader.hpp): a thread that reads lines,  *)
(* takes them apart and queues them as commands, and pop_front(), by which *)
(* each tick of the event loop takes at most one (server/engine.cpp:162-   *)
(* 188, client/main.cpp:74-102).  pop_front() looks at the queue once      *)
(* without the lock and once with it.  The loop has one thread for the     *)
(* ticks and for all of net_worker and Lua: any of these may hold it for   *)
(* ever or end the process, which is what LoopStops says.                  *)
(*                                                                         *)
(* A character is any value other than Blank, so that an instance may let  *)
(* one stand for a whole word.                                             *)
(***************************************************************************)
EXTENDS Naturals, Sequences, FiniteSets

CONSTANTS
    Chars,      \* characters
    Blank,      \* the delimiter
    Lines,      \* what a user may type before a newline or the end of input
    LineMax,    \* characters getline() stores: sizeof(cmd_str) - 1
    MaxEntered  \* bound: calls of getline() that return

ASSUME ConsoleAssumption ==
    /\ Blank \in Chars
    /\ Lines \subseteq Seq(Chars)
    /\ LineMax \in Nat /\ MaxEntered \in Nat

VARIABLES
    reader,     \* the thread: "sleep", "push" (has a command), "pushing" (has the lock)
    held,       \* the command it has parsed, if any
    input,      \* std::cin: "good", or "failed" from an error bit on
    lock,       \* who holds m_mutex
    commands,   \* m_commands
    tick,       \* the event loop: "idle", "wait" for the lock, "popping", "run",
                \* or "stopped"
    hand,       \* the command popped and not yet run, if any
    entered,    \* history: what was typed, <<>> for a getline() that only failed
    handled     \* history: the commands run

readerVars == <<reader, held, input, entered>>
tickVars == <<tick, hand, handled>>
consoleVars == <<readerVars, tickVars, lock, commands>>

-----------------------------------------------------------------------------
\* getline() stores this much of a line; one that is longer sets failbit.
Stored(l) == SubSeq(l, 1, IF Len(l) > LineMax THEN LineMax ELSE Len(l))

\* The first position from pos on where the line is blank or not; behind its
\* end if there is none (get_begin_pos and find).
NextWhere(l, pos, blank) ==
    LET at == {i \in pos..Len(l) : (l[i] = Blank) = blank}
    IN  IF at = {} THEN Len(l) + 1 ELSE CHOOSE i \in at : \A j \in at : i <= j

\* Faulty variants, M_..., each the mistake its name tells; they are not part of
\* the specification and stand before the definition they replace.
M_WordsOfDropsLast(l) ==
    LET from[pos \in 1..(Len(l) + 1)] ==
          LET b == NextWhere(l, pos, FALSE)
              e == NextWhere(l, b, TRUE)
          IN  IF e > Len(l) THEN <<>> ELSE <<SubSeq(l, b, e - 1)>> \o from[e]
    IN  from[1]

\* parse()'s loop.
WordsOf(l) ==
    LET from[pos \in 1..(Len(l) + 1)] ==
          LET b == NextWhere(l, pos, FALSE)
              e == NextWhere(l, b, TRUE)
          IN  IF b > Len(l) THEN <<>> ELSE <<SubSeq(l, b, e - 1)>> \o from[e]
    IN  from[1]

\* The first word is the name, the others are the parameters.
Parse(l) ==
    LET w == WordsOf(l)
    IN  IF w = <<>> THEN [name |-> <<>>, params |-> <<>>]
        ELSE [name |-> Head(w), params |-> Tail(w)]

ConsoleInit ==
    /\ reader = "sleep" /\ held = <<>> /\ input = "good"
    /\ lock = "none" /\ commands = <<>>
    /\ tick = "idle" /\ hand = <<>>
    /\ entered = <<>> /\ handled = <<>>

-----------------------------------------------------------------------------
(* The reader thread.                                                      *)

\* A line ended by a newline, or by the end of the input; with an error bit
\* set, getline() stores an empty string and returns at once.
Typed(l, ended) ==
    IF input = "failed" THEN l = <<>> /\ ended
    ELSE l \in Lines \cup {<<>>}

GetLine(l, ended) ==
    /\ reader = "sleep" /\ Len(entered) < MaxEntered
    /\ Typed(l, ended)
    /\ input' = IF ended \/ Len(l) > LineMax THEN "failed" ELSE input
    /\ held' = <<Parse(Stored(l))>>
    /\ entered' = Append(entered, l)
    /\ reader' = "push"
    /\ UNCHANGED <<tickVars, lock, commands>>

M_PushLockTakes ==
    /\ reader = "push"
    /\ reader' = "pushing" /\ lock' = "reader"
    /\ UNCHANGED <<held, input, entered, tickVars, commands>>

PushLock ==
    /\ reader = "push" /\ lock = "none"
    /\ reader' = "pushing" /\ lock' = "reader"
    /\ UNCHANGED <<held, input, entered, tickVars, commands>>

Push ==
    /\ reader = "pushing"
    /\ commands' = commands \o held
    /\ held' = <<>> /\ lock' = "none" /\ reader' = "sleep"
    /\ UNCHANGED <<input, entered, tickVars>>

-----------------------------------------------------------------------------
(* pop_front(), and what the tick does with the command.                   *)

\* empty() without the lock: while the thread is pushing it may see the queue
\* as it was or as it will be.
SeenEmpty(seen) ==
    seen = (commands = <<>>) \/ reader = "pushing"

M_PeekInverted ==
    /\ tick = "idle"
    /\ \E seen \in BOOLEAN :
          /\ SeenEmpty(seen)
          /\ tick' = IF seen THEN "wait" ELSE "idle"
    /\ UNCHANGED <<readerVars, hand, handled, lock, commands>>

Peek ==
    /\ tick = "idle"
    /\ \E seen \in BOOLEAN :
          /\ SeenEmpty(seen)
          /\ tick' = IF seen THEN "idle" ELSE "wait"
    /\ UNCHANGED <<readerVars, hand, handled, lock, commands>>

PopLock ==
    /\ tick = "wait" /\ lock = "none"
    /\ tick' = "popping" /\ lock' = "tick"
    /\ UNCHANGED <<readerVars, hand, handled, commands>>

Pop ==
    /\ tick = "popping"
    /\ IF commands = <<>> THEN tick' = "idle" /\ UNCHANGED <<hand, commands>>
       ELSE /\ hand' = <<Head(commands)>> /\ commands' = Tail(commands)
            /\ tick' = "run"
    /\ lock' = "none"
    /\ UNCHANGED <<readerVars, handled>>

Run ==
    /\ tick = "run"
    /\ handled' = handled \o hand
    /\ hand' = <<>> /\ tick' = "idle"
    /\ UNCHANGED <<readerVars, lock, commands>>

\* The only thread of the loop is held for ever, by a handshake or a write to a
\* client that does not answer or read, or by a script; or an exception or
\* lua_call() ends the process.  It may be another handler that does so, or the
\* command the tick runs (net_worker.hpp:64, 118-125; engine.cpp:198-201, 256).
LoopStops ==
    /\ tick \in {"idle", "run"}
    /\ tick' = "stopped"
    /\ UNCHANGED <<readerVars, hand, handled, lock, commands>>

\* What the reader thread still does then is ReaderNext.
Rest == tick = "stopped" /\ UNCHANGED consoleVars

ReaderNext ==
    \/ \E l \in Lines \cup {<<>>}, ended \in BOOLEAN : GetLine(l, ended)
    \/ PushLock \/ Push

ConsoleNext == ReaderNext \/ Peek \/ PopLock \/ Pop \/ Run \/ LoopStops \/ Rest

\* Both threads are scheduled and, until the loop stops, the timer is set again
\* after each tick: no action of the tick is enabled once it has.  The mutex may
\* be free only now and then, so taking it needs strong fairness.  Nobody has to
\* type.
ConsoleFairness ==
    /\ SF_consoleVars(PushLock) /\ WF_consoleVars(Push)
    /\ SF_consoleVars(Peek /\ tick' = "wait") /\ SF_consoleVars(PopLock)
    /\ WF_consoleVars(Pop) /\ WF_consoleVars(Run)

ConsoleSpec == ConsoleInit /\ [][ConsoleNext]_consoleVars
ConsoleFairSpec == ConsoleSpec /\ ConsoleFairness
-----------------------------------------------------------------------------
\* The queue is only changed, and only read for its front, by who holds its
\* lock; the look without it is the one access outside
\* (console_reader.hpp:29, 33-40, 60-61).
QueueExclusive ==
    /\ reader = "pushing" <=> lock = "reader"
    /\ tick = "popping" <=> lock = "tick"

\* The words of a line, said without a loop: its longest stretches without a
\* blank, from left to right.
Stretches(l) ==
    {s \in (DOMAIN l) \X (DOMAIN l) :
        /\ s[1] <= s[2] /\ \A i \in s[1]..s[2] : l[i] # Blank
        /\ s[1] = 1 \/ l[s[1] - 1] = Blank
        /\ s[2] = Len(l) \/ l[s[2] + 1] = Blank}

Says(c, l) ==
    LET all == IF c.name = <<>> THEN c.params ELSE <<c.name>> \o c.params
    IN  /\ Len(all) = Cardinality(Stretches(l))
        /\ \A s \in Stretches(l) :
              all[Cardinality({t \in Stretches(l) : t[1] <= s[1]})] = SubSeq(l, s[1], s[2])

Ledger == handled \o hand \o commands \o held

\* Each line becomes one command, with the words of its first LineMax
\* characters, and the commands are run once each in the order of the lines,
\* whatever the unlocked look sees (console_reader.hpp:27-103).
OncePerLine ==
    /\ Len(Ledger) = Len(entered)
    /\ \A i \in DOMAIN entered : Says(Ledger[i], Stored(entered[i]))

\* Each line is run in the end, unless the loop stops: a look that misses it is
\* repeated by the next tick (console_reader.hpp:29-32, engine.cpp:179-188).
EveryLineRuns ==
    \A n \in 1..MaxEntered :
        (Len(entered) >= n) ~> (Len(handled) >= n \/ tick = "stopped")
=============================================================================
