------------------------- MODULE ConsoleReader_proofs -------------------------
(***************************************************************************)
(* What holds of console_reader (ConsoleReader) for any lines, of any      *)
(* length and any number, however the thread and the ticks interleave.     *)
(***************************************************************************)
EXTENDS ConsoleReader, TLAPS, SequenceTheorems, FiniteSetTheorems, WellFoundedInduction

-----------------------------------------------------------------------------
(* The queue: every line is one command, in order, in one place.           *)

Typeable == Lines \cup {<<>>}

\* What parse() makes of the lines there are.
Commands == {Parse(Stored(l)) : l \in Typeable}

\* Who has a command, and of what the queue consists.
ConsoleTypeOK ==
    /\ reader \in {"sleep", "push", "pushing"} /\ input \in {"good", "failed"}
    /\ held \in Seq(Commands) /\ (reader = "sleep" => held = <<>>)
    /\ lock \in {"none", "reader", "tick"} /\ commands \in Seq(Commands)
    /\ tick \in {"idle", "wait", "popping", "run", "stopped"}
    /\ hand \in Seq(Commands) /\ (tick \notin {"run", "stopped"} => hand = <<>>)
    /\ entered \in Seq(Typeable) /\ handled \in Seq(Commands)

\* OncePerLine without what parse() does: the commands are those of the lines in order.
LedgerOK ==
    /\ Len(Ledger) = Len(entered)
    /\ \A i \in 1..Len(entered) : Ledger[i] = Parse(Stored(entered[i]))

ConsoleInv == ConsoleTypeOK /\ QueueExclusive /\ LedgerOK

\* A command that moves from one end of a part to the next does not change the whole.
LEMMA LedgerMoves ==
    ASSUME NEW S, NEW a \in Seq(S), NEW b \in Seq(S), NEW c \in Seq(S), NEW d \in Seq(S)
    PROVE  /\ a \o b \o c \o d \in Seq(S)
           /\ a \o b \o (c \o d) \o <<>> = a \o b \o c \o d
           /\ (a \o b) \o <<>> \o c \o d = a \o b \o c \o d
           /\ c # <<>> => a \o <<Head(c)>> \o Tail(c) \o d = a \o <<>> \o c \o d
  <1>1. <<>> \in Seq(S)
    BY EmptySeq
  <1>2. /\ a \o b \in Seq(S) /\ c \o d \in Seq(S) /\ a \o b \o c \in Seq(S)
        /\ a \o b \o (c \o d) \in Seq(S) /\ a \o b \o c \o d \in Seq(S)
    BY ConcatProperties
  <1>3. a \o b \o (c \o d) \o <<>> = a \o b \o c \o d
    <2>1. a \o b \o (c \o d) \o <<>> = a \o b \o (c \o d)
      BY <1>2, ConcatEmptySeq
    <2>2. a \o b \o c \o d = a \o b \o (c \o d)
      BY SMTT(30), <1>2, ConcatAssociative
    <2> QED BY <2>1, <2>2
  <1>4. (a \o b) \o <<>> \o c \o d = a \o b \o c \o d
    BY <1>2, ConcatEmptySeq
  <1>5. ASSUME c # <<>>
        PROVE  a \o <<Head(c)>> \o Tail(c) \o d = a \o <<>> \o c \o d
    <2>1. /\ <<Head(c)>> \in Seq(S) /\ Tail(c) \in Seq(S)
          /\ <<Head(c)>> \o Tail(c) = c
      <3>1. Len(c) \in Nat \ {0} /\ Head(c) \in S /\ Head(c) = c[1]
        BY <1>5, EmptySeq, HeadTailProperties
      <3>2. SubSeq(c, 1, Len(c)) = <<c[1]>> \o SubSeq(c, 2, Len(c))
        BY <3>1, SubSeqRecursiveFirst
      <3>3. SubSeq(c, 1, Len(c)) = c /\ Tail(c) = SubSeq(c, 2, Len(c))
        BY <1>5, SubSeqFull, TailIsSubSeq
      <3>4. Tail(c) \in Seq(S)
        BY <1>5, HeadTailProperties
      <3> QED BY <3>1, <3>2, <3>3, <3>4
    <2>2. a \o <<Head(c)>> \o Tail(c) = a \o c
      BY SMTT(30), <2>1, ConcatAssociative
    <2> QED BY <2>2, ConcatEmptySeq
  <1> QED BY <1>2, <1>3, <1>4, <1>5

LEMMA ConsoleInitInv == ConsoleInit => ConsoleInv
  <1> SUFFICES ASSUME ConsoleInit PROVE ConsoleInv
    OBVIOUS
  <1> USE DEF ConsoleInit
  <1>1. \A S : <<>> \in Seq(S)
    BY EmptySeq
  <1>2. ConsoleTypeOK
    BY <1>1 DEF ConsoleTypeOK
  <1>3. QueueExclusive
    BY DEF QueueExclusive
  <1>4. Ledger = <<>>
    BY <1>1, ConcatEmptySeq DEF Ledger
  <1>5. LedgerOK
    BY <1>4, EmptySeq DEF LedgerOK
  <1> QED BY <1>2, <1>3, <1>5 DEF ConsoleInv

LEMMA ExclusiveStep ==
    ASSUME ConsoleTypeOK, QueueExclusive, ConsoleNext
    PROVE  QueueExclusive'
  <1> USE DEF QueueExclusive, readerVars, tickVars
  <1>1. ASSUME NEW l, NEW ended, GetLine(l, ended)
        PROVE  QueueExclusive'
    BY <1>1 DEF GetLine
  <1>2. CASE PushLock \/ Push
    BY <1>2 DEF PushLock, Push
  <1>3. CASE Peek \/ LoopStops \/ Rest
    BY <1>3 DEF Peek, LoopStops, Rest, consoleVars
  <1>4. CASE PopLock \/ Pop \/ Run
    BY <1>4 DEF PopLock, Pop, Run
  <1> QED BY <1>1, <1>2, <1>3, <1>4 DEF ConsoleNext, ReaderNext

LEMMA ConsoleTypeStep ==
    ASSUME ConsoleTypeOK, ConsoleNext
    PROVE  ConsoleTypeOK'
  <1> USE DEF ConsoleTypeOK, readerVars, tickVars
  <1>1. ASSUME NEW l \in Typeable, NEW ended \in BOOLEAN, GetLine(l, ended)
        PROVE  ConsoleTypeOK'
    <2>1. Parse(Stored(l)) \in Commands
      BY DEF Commands
    <2>2. held' \in Seq(Commands) /\ entered' \in Seq(Typeable)
      BY <1>1, <2>1, AppendProperties DEF GetLine
    <2>3. reader' = "push" /\ input' \in {"good", "failed"} /\ UNCHANGED <<tick, hand, handled, lock, commands>>
      BY <1>1 DEF GetLine
    <2> QED BY <2>2, <2>3
  <1>2. CASE PushLock
    BY <1>2 DEF PushLock
  <1>3. CASE Push
    BY <1>3, EmptySeq, ConcatProperties DEF Push
  <1>4. CASE Peek \/ LoopStops \/ Rest
    BY <1>4 DEF Peek, LoopStops, Rest, consoleVars
  <1>5. CASE PopLock
    BY <1>5 DEF PopLock
  <1>6. CASE Pop
    <2>1. CASE commands = <<>>
      BY <1>6, <2>1 DEF Pop
    <2>2. CASE commands # <<>>
      <3>1. Tail(commands) \in Seq(Commands) /\ <<Head(commands)>> \in Seq(Commands)
        <4>1. Head(commands) \in Commands /\ Tail(commands) \in Seq(Commands)
          BY <2>2, HeadTailProperties
        <4> QED BY <4>1
      <3>2. /\ hand' = <<Head(commands)>> /\ commands' = Tail(commands) /\ tick' = "run"
            /\ lock' = "none" /\ UNCHANGED <<reader, held, input, entered, handled>>
        BY <1>6, <2>2 DEF Pop
      <3> QED BY <3>1, <3>2
    <2> QED BY <2>1, <2>2
  <1>7. CASE Run
    BY <1>7, EmptySeq, ConcatProperties DEF Run
  <1> QED BY <1>1, <1>2, <1>3, <1>4, <1>5, <1>6, <1>7 DEF ConsoleNext, ReaderNext, Typeable

LEMMA LedgerStep ==
    ASSUME ConsoleTypeOK, LedgerOK, ConsoleNext
    PROVE  LedgerOK'
  <1> USE DEF ConsoleTypeOK, readerVars, tickVars
  <1>1. /\ Ledger \in Seq(Commands) /\ Len(Ledger) \in Nat /\ Len(entered) \in Nat
        /\ \A n : <<>> \in Seq(n)
    BY LedgerMoves, LenProperties, EmptySeq DEF Ledger
  <1>2. ASSUME NEW l \in Typeable, NEW ended \in BOOLEAN, GetLine(l, ended)
        PROVE  LedgerOK'
    <2> DEFINE c == Parse(Stored(l))
    <2>1. c \in Commands /\ <<c>> \in Seq(Commands)
      BY DEF Commands
    <2>2. held = <<>> /\ held' = <<c>> /\ UNCHANGED <<handled, hand, commands>>
      BY <1>2 DEF GetLine
    <2> HIDE DEF c
    <2>3. Ledger' = Append(Ledger, c)
      <3>1. handled \o hand \o commands \in Seq(Commands)
        BY ConcatProperties
      <3>2. Ledger = handled \o hand \o commands
        BY <2>2, <3>1, ConcatEmptySeq DEF Ledger
      <3>3. Ledger' = (handled \o hand \o commands) \o <<c>>
        BY <2>2 DEF Ledger
      <3> QED BY <2>1, <3>1, <3>2, <3>3, AppendIsConcat
    <2>4. entered' = Append(entered, l)
      BY <1>2 DEF GetLine
    <2>5. /\ Len(Ledger') = Len(Ledger) + 1 /\ Len(entered') = Len(entered) + 1
          /\ \A i \in 1..Len(Ledger) : Ledger'[i] = Ledger[i]
          /\ \A i \in 1..Len(entered) : entered'[i] = entered[i]
          /\ Ledger'[Len(Ledger) + 1] = c /\ entered'[Len(entered) + 1] = l
      BY <1>1, <2>1, <2>3, <2>4, AppendProperties
    <2>6. ASSUME NEW i \in 1..(Len(entered) + 1)
          PROVE  Ledger'[i] = Parse(Stored(entered'[i]))
      <3>1. CASE i = Len(entered) + 1
        BY <2>5, <3>1 DEF LedgerOK, c
      <3>2. CASE i # Len(entered) + 1
        <4>1. i \in 1..Len(entered)
          BY <1>1, <3>2
        <4> QED BY <2>5, <4>1 DEF LedgerOK
      <3> QED BY <3>1, <3>2
    <2> QED BY <2>5, <2>6 DEF LedgerOK
  <1>3. ASSUME Ledger' = Ledger, entered' = entered
        PROVE  LedgerOK'
    BY <1>3 DEF LedgerOK
  <1>4. CASE Push
    <2>1. Ledger' = handled \o hand \o (commands \o held) \o <<>>
      BY <1>4 DEF Push, Ledger
    <2>2. Ledger' = Ledger
      BY SMTT(30), <2>1, LedgerMoves DEF Ledger
    <2> QED BY <1>3, <1>4, <2>2 DEF Push
  <1>5. CASE Pop
    <2>1. CASE commands = <<>>
      BY <1>3, <1>5, <2>1 DEF Pop, Ledger
    <2>2. CASE commands # <<>>
      <3>1. hand = <<>> /\ Ledger' = handled \o <<Head(commands)>> \o Tail(commands) \o held
        BY <1>5, <2>2 DEF Pop, Ledger
      <3>2. Ledger' = Ledger
        BY SMTT(30), <1>1, <2>2, <3>1, LedgerMoves DEF Ledger
      <3> QED BY <1>3, <1>5, <3>2 DEF Pop
    <2> QED BY <2>1, <2>2
  <1>6. CASE Run
    <2>1. Ledger' = (handled \o hand) \o <<>> \o commands \o held
      BY <1>6 DEF Run, Ledger
    <2>2. Ledger' = Ledger
      BY <2>1, LedgerMoves DEF Ledger
    <2> QED BY <1>3, <1>6, <2>2 DEF Run
  <1>7. CASE PushLock \/ Peek \/ PopLock \/ LoopStops \/ Rest
    BY <1>3, <1>7 DEF PushLock, Peek, PopLock, LoopStops, Rest, consoleVars, Ledger
  <1> QED BY <1>2, <1>4, <1>5, <1>6, <1>7 DEF ConsoleNext, ReaderNext, Typeable

LEMMA ConsoleStep == ConsoleInv /\ [ConsoleNext]_consoleVars => ConsoleInv'
  <1>1. CASE UNCHANGED consoleVars
    BY <1>1 DEF ConsoleInv, ConsoleTypeOK, QueueExclusive, LedgerOK, Ledger,
                consoleVars, readerVars, tickVars
  <1>2. ASSUME ConsoleInv, ConsoleNext
        PROVE  ConsoleInv'
    BY <1>2, ConsoleTypeStep, ExclusiveStep, LedgerStep DEF ConsoleInv
  <1> QED BY <1>1, <1>2

\* In every behaviour: the types, who has the lock, and the commands of all lines in
\* order, in the hand of the thread, in the queue, with the tick, or run
\* (console_reader.hpp:27-103, engine.cpp:162-188).
THEOREM ConsoleInvariant == ConsoleSpec => []ConsoleInv
  <1> QED BY ConsoleInitInv, ConsoleStep, PTL DEF ConsoleSpec

\* QueueExclusive: who pushes or pops holds the lock, and nobody else does
\* (console_reader.hpp:29, 33-40, 60-61).
THEOREM QueueExclusiveCorrect == ConsoleSpec => []QueueExclusive
  <1>1. ConsoleInv => QueueExclusive
    BY DEF ConsoleInv
  <1> QED BY ConsoleInvariant, <1>1, PTL

-----------------------------------------------------------------------------
(* parse(): what it finds in any line.  The library's induction theorems   *)
(* take an operator; a least counterexample serves as well.                *)

LEMMA LeastNat ==
    ASSUME NEW T, T \subseteq Nat, T # {}
    PROVE  \E n \in T : \A m \in T : n <= m
  <1>1. PICK n \in T : \A m \in T : <<m, n>> \notin OpToRel(<, Nat)
    BY NatLessThanWellFounded, WFMin
  <1>2. \A m \in T : ~(m < n)
    <2> SUFFICES ASSUME NEW m \in T, m < n PROVE FALSE
      OBVIOUS
    <2>1. <<m, n>> \in OpToRel(<, Nat)
      BY DEF OpToRel
    <2> QED BY <1>1, <2>1
  <1>3. n \in Nat /\ \A m \in T : m \in Nat
    OBVIOUS
  <1> QED BY <1>2, <1>3

\* The positions get_begin_pos and find return.
LEMMA NextWhereFinds ==
    ASSUME NEW l \in Seq(Chars), NEW pos \in 1..(Len(l) + 1), NEW blank \in BOOLEAN
    PROVE  LET n == NextWhere(l, pos, blank)
           IN  /\ n \in pos..(Len(l) + 1)
               /\ \A i \in pos..(n - 1) : (l[i] = Blank) # blank
               /\ n <= Len(l) => (l[n] = Blank) = blank
  <1> DEFINE at == {i \in pos..Len(l) : (l[i] = Blank) = blank}
             n == NextWhere(l, pos, blank)
  <1>1. Len(l) \in Nat
    BY LenProperties
  <1>2. CASE at = {}
    <2>1. n = Len(l) + 1
      BY <1>2 DEF NextWhere
    <2>2. \A i \in pos..Len(l) : (l[i] = Blank) # blank
      BY <1>2
    <2> QED BY <1>1, <2>1, <2>2
  <1>3. CASE at # {}
    <2>1. \A i \in at : i \in Nat /\ i \in pos..Len(l) /\ (l[i] = Blank) = blank
      BY <1>1
    <2> HIDE DEF at
    <2>2. \E i \in at : \A j \in at : i <= j
      BY <1>3, <2>1, LeastNat
    <2>3. n \in at /\ \A j \in at : n <= j
      BY <1>3, <2>2 DEF NextWhere, at
    <2> HIDE DEF n
    <2>4. ASSUME NEW i \in pos..(n - 1)
          PROVE  (l[i] = Blank) # blank
      <3>1. i \notin at /\ i \in pos..Len(l)
        BY <1>1, <2>1, <2>3
      <3> QED BY <3>1 DEF at
    <2> QED BY <1>1, <2>1, <2>3, <2>4 DEF n
  <1> QED BY <1>2, <1>3

\* The word at pos: where it begins and where it ends.
Begin(l, pos) == NextWhere(l, pos, FALSE)
End(l, pos) == NextWhere(l, Begin(l, pos), TRUE)

LEMMA WordAt ==
    ASSUME NEW l \in Seq(Chars), NEW pos \in 1..(Len(l) + 1)
    PROVE  /\ Len(l) \in Nat /\ Begin(l, pos) \in pos..(Len(l) + 1)
           /\ \A i \in pos..(Begin(l, pos) - 1) : l[i] = Blank
           /\ Begin(l, pos) <= Len(l) =>
                 /\ End(l, pos) \in (Begin(l, pos) + 1)..(Len(l) + 1)
                 /\ \A i \in Begin(l, pos)..(End(l, pos) - 1) : l[i] # Blank
                 /\ End(l, pos) <= Len(l) => l[End(l, pos)] = Blank
  <1> DEFINE b == Begin(l, pos)
             e == End(l, pos)
  <1>1. /\ Len(l) \in Nat
        /\ b \in pos..(Len(l) + 1)
        /\ \A i \in pos..(b - 1) : (l[i] = Blank) # FALSE
        /\ b <= Len(l) => (l[b] = Blank) = FALSE
    BY NextWhereFinds, LenProperties DEF Begin
  <1> HIDE DEF b
  <1>2. b \in 1..(Len(l) + 1)
    BY <1>1
  <1>3. /\ e \in b..(Len(l) + 1)
        /\ \A i \in b..(e - 1) : (l[i] = Blank) # TRUE
        /\ e <= Len(l) => (l[e] = Blank) = TRUE
    BY <1>2, NextWhereFinds DEF End, b
  <1> HIDE DEF e
  <1>4. b <= Len(l) => e # b
    BY <1>1, <1>3
  <1>5. b <= Len(l) => e \in (b + 1)..(Len(l) + 1)
    BY <1>1, <1>3, <1>4
  <1> QED BY <1>1, <1>3, <1>5 DEF b, e

\* What WordsOf says of the words from pos on, with f for the recursive function.
WordsFrom(l, f, pos) ==
    LET b == NextWhere(l, pos, FALSE)
        e == NextWhere(l, b, TRUE)
    IN  IF b > Len(l) THEN <<>> ELSE <<SubSeq(l, b, e - 1)>> \o f[e]

WordLists(l) == [1..(Len(l) + 1) -> Seq(Seq(Chars) \ {<<>>})]

\* The last k positions have their words.
Filled(l, k) ==
    \E f \in WordLists(l) :
        \A pos \in 1..(Len(l) + 1) : pos > Len(l) + 1 - k => f[pos] = WordsFrom(l, f, pos)

LEMMA WordsFromType ==
    ASSUME NEW l \in Seq(Chars), NEW f \in WordLists(l), NEW pos \in 1..(Len(l) + 1)
    PROVE  /\ WordsFrom(l, f, pos) \in Seq(Seq(Chars) \ {<<>>})
           /\ \A g : (\A e \in (pos + 1)..(Len(l) + 1) : g[e] = f[e])
                         => WordsFrom(l, g, pos) = WordsFrom(l, f, pos)
  <1> DEFINE W == Seq(Chars) \ {<<>>}
             b == Begin(l, pos)
             e == End(l, pos)
  <1>1. /\ Len(l) \in Nat /\ b \in pos..(Len(l) + 1)
        /\ b <= Len(l) => e \in (b + 1)..(Len(l) + 1)
    BY WordAt
  <1>2. \A g : WordsFrom(l, g, pos) =
            IF b > Len(l) THEN <<>> ELSE <<SubSeq(l, b, e - 1)>> \o g[e]
    BY DEF WordsFrom, Begin, End
  <1> HIDE DEF b, e
  <1>3. CASE b > Len(l)
    BY <1>2, <1>3, EmptySeq
  <1>4. CASE b <= Len(l)
    <2>1. e \in (pos + 1)..(Len(l) + 1) /\ e \in 1..(Len(l) + 1)
      BY <1>1, <1>4
    <2>2. SubSeq(l, b, e - 1) \in W
      <3>1. \A i \in b..(e - 1) : i \in 1..Len(l)
        BY <1>1, <1>4
      <3>2. \A i \in b..(e - 1) : l[i] \in Chars
        BY <3>1, ElementOfSeq
      <3>3. b \in Int /\ e - 1 \in Int /\ b <= e - 1 /\ (e - 1) - b + 1 # 0
        BY <1>1, <1>4
      <3>4. SubSeq(l, b, e - 1) \in Seq(Chars) /\ Len(SubSeq(l, b, e - 1)) = (e - 1) - b + 1
        BY <3>2, <3>3, SubSeqProperties
      <3> QED BY <3>3, <3>4, EmptySeq
    <2>3. f[e] \in Seq(W)
      BY <2>1 DEF WordLists
    <2>4. <<SubSeq(l, b, e - 1)>> \o f[e] \in Seq(W)
      BY <2>2, <2>3, ConcatProperties
    <2>5. ~(b > Len(l))
      BY <1>1, <1>4
    <2> QED BY <1>2, <2>1, <2>4, <2>5
  <1> QED BY <1>1, <1>3, <1>4

\* parse()'s loop ends: the recursive function of WordsOf exists.
LEMMA WordsExist ==
    ASSUME NEW l \in Seq(Chars)
    PROVE  \E f \in WordLists(l) :
              /\ \A pos \in 1..(Len(l) + 1) : f[pos] = WordsFrom(l, f, pos)
              /\ WordsOf(l) = f[1]
  <1> DEFINE bad == {k \in 0..(Len(l) + 1) : ~Filled(l, k)}
  <1>1. Len(l) \in Nat
    BY LenProperties
  <1>2. Filled(l, 0)
    <2>1. [pos \in 1..(Len(l) + 1) |-> <<>>] \in WordLists(l)
      BY EmptySeq DEF WordLists
    <2>2. \A pos \in 1..(Len(l) + 1) : ~(pos > Len(l) + 1 - 0)
      BY <1>1
    <2> QED BY <2>1, <2>2 DEF Filled
  <1>3. ASSUME NEW k \in 0..Len(l), Filled(l, k)
        PROVE  Filled(l, k + 1)
    <2> DEFINE here == Len(l) + 1 - k
    <2>1. here \in 1..(Len(l) + 1)
      BY <1>1
    <2>2. PICK f \in WordLists(l) :
              \A pos \in 1..(Len(l) + 1) : pos > here => f[pos] = WordsFrom(l, f, pos)
      BY <1>3 DEF Filled
    <2> DEFINE g == [f EXCEPT ![here] = WordsFrom(l, f, here)]
    <2>3. /\ g \in WordLists(l) /\ g[here] = WordsFrom(l, f, here)
          /\ \A pos \in 1..(Len(l) + 1) : pos # here => g[pos] = f[pos]
      BY <2>1, WordsFromType DEF WordLists
    <2> HIDE DEF g
    <2>4. ASSUME NEW pos \in 1..(Len(l) + 1), pos > here - 1
          PROVE  g[pos] = WordsFrom(l, g, pos)
      <3>1. pos >= here /\ (pos # here => pos > here)
        BY <1>1, <2>1, <2>4
      <3>2. \A e \in (pos + 1)..(Len(l) + 1) : e \in 1..(Len(l) + 1) /\ e # here
        BY <1>1, <2>1, <3>1
      <3>3. \A e \in (pos + 1)..(Len(l) + 1) : g[e] = f[e]
        BY <2>3, <3>2
      <3>4. WordsFrom(l, g, pos) = WordsFrom(l, f, pos)
        BY <3>3, WordsFromType
      <3> QED BY <2>2, <2>3, <3>1, <3>4
    <2>5. here - 1 = Len(l) + 1 - (k + 1)
      BY <1>1
    <2> QED BY <2>3, <2>4, <2>5 DEF Filled
  <1>4. bad = {}
    <2> SUFFICES ASSUME bad # {} PROVE FALSE
      OBVIOUS
    <2>1. \A k \in bad : k \in 0..(Len(l) + 1) /\ k \in Nat /\ ~Filled(l, k)
      OBVIOUS
    <2>2. \A k \in 0..(Len(l) + 1) : k \notin bad => Filled(l, k)
      OBVIOUS
    <2> HIDE DEF bad
    <2>3. PICK k \in bad : \A m \in bad : k <= m
      BY <2>1, LeastNat
    <2>4. k # 0
      BY <1>2, <2>1
    <2>5. k - 1 \in 0..Len(l) /\ (k - 1) + 1 = k /\ ~(k <= k - 1)
      BY <1>1, <2>1, <2>4
    <2>6. k - 1 \notin bad /\ k - 1 \in 0..(Len(l) + 1)
      BY <1>1, <2>3, <2>5
    <2>7. Filled(l, k - 1)
      BY <2>2, <2>6
    <2>8. Filled(l, (k - 1) + 1)
      BY <1>3, <2>5, <2>7
    <2> QED BY <2>1, <2>3, <2>5, <2>8
  <1>5. Filled(l, Len(l) + 1)
    BY <1>1, <1>4
  <1>6. PICK f \in WordLists(l) :
            \A pos \in 1..(Len(l) + 1) :
                pos > Len(l) + 1 - (Len(l) + 1) => f[pos] = WordsFrom(l, f, pos)
    BY <1>5 DEF Filled
  <1>7. \A pos \in 1..(Len(l) + 1) : f[pos] = WordsFrom(l, f, pos)
    BY <1>1, <1>6
  <1> DEFINE Solves(g) == g = [pos \in 1..(Len(l) + 1) |-> WordsFrom(l, g, pos)]
             chosen == CHOOSE g : Solves(g)
  <1>8. Solves(f)
    BY <1>7 DEF WordLists
  <1>9. Solves(chosen)
    BY <1>8
  <1>10. WordsOf(l) = chosen[1]
    BY DEF WordsOf, WordsFrom
  <1> HIDE DEF chosen
  <1>11. \A pos \in 1..(Len(l) + 1) : chosen[pos] = WordsFrom(l, chosen, pos)
    BY <1>9
  <1>12. \A pos \in 1..(Len(l) + 1) : chosen[pos] = f[pos]
    <2> DEFINE differs == {k \in 1..(Len(l) + 1) : chosen[Len(l) + 2 - k] # f[Len(l) + 2 - k]}
    <2>1. \A k \in differs : k \in Nat /\ k \in 1..(Len(l) + 1)
                              /\ chosen[Len(l) + 2 - k] # f[Len(l) + 2 - k]
      OBVIOUS
    <2>2. \A k \in 1..(Len(l) + 1) :
              k \notin differs => chosen[Len(l) + 2 - k] = f[Len(l) + 2 - k]
      OBVIOUS
    <2> HIDE DEF differs
    <2>3. ASSUME differs # {}
          PROVE  FALSE
      <3>1. PICK k \in differs : \A m \in differs : k <= m
        BY <2>1, <2>3, LeastNat
      <3> DEFINE pos == Len(l) + 2 - k
      <3>2. pos \in 1..(Len(l) + 1)
        BY <1>1, <2>1
      <3>3. ASSUME NEW e \in (pos + 1)..(Len(l) + 1)
            PROVE  chosen[e] = f[e]
        <4> DEFINE m == Len(l) + 2 - e
        <4>1. m \in 1..(Len(l) + 1) /\ m < k /\ Len(l) + 2 - m = e
          BY <1>1, <2>1, <3>2
        <4> HIDE DEF m
        <4>2. m \notin differs
          BY <2>1, <3>1, <4>1
        <4> QED BY <2>2, <4>1, <4>2
      <3> HIDE DEF pos
      <3>4. WordsFrom(l, chosen, pos) = WordsFrom(l, f, pos)
        BY <3>2, <3>3, WordsFromType
      <3> QED BY <1>7, <1>11, <2>1, <3>2, <3>4 DEF pos
    <2>4. ASSUME NEW pos \in 1..(Len(l) + 1)
          PROVE  chosen[pos] = f[pos]
      <3> DEFINE k == Len(l) + 2 - pos
      <3>1. k \in 1..(Len(l) + 1) /\ Len(l) + 2 - k = pos
        BY <1>1
      <3> HIDE DEF k
      <3> QED BY <2>2, <2>3, <3>1
    <2> QED BY <2>4
  <1>13. WordsOf(l) = f[1]
    BY <1>1, <1>10, <1>12
  <1> QED BY <1>7, <1>13

\* A position that is not within a word.
Boundary(l, pos) == pos = 1 \/ pos = Len(l) + 1 \/ l[pos] = Blank

After(l, pos) == {s \in Stretches(l) : s[1] >= pos}
Upto(l, pos, s) == {t \in After(l, pos) : t[1] <= s[1]}

LEMMA StretchesFinite ==
    ASSUME NEW l \in Seq(Chars), NEW pos
    PROVE  /\ IsFiniteSet(Stretches(l)) /\ IsFiniteSet(After(l, pos))
           /\ \A s : IsFiniteSet(Upto(l, pos, s))
  <1>1. IsFiniteSet(DOMAIN l)
    BY LenProperties, FS_Interval
  <1>2. IsFiniteSet((DOMAIN l) \X (DOMAIN l))
    BY <1>1, FS_Product
  <1>3. /\ Stretches(l) \subseteq (DOMAIN l) \X (DOMAIN l) /\ After(l, pos) \subseteq Stretches(l)
        /\ \A s : Upto(l, pos, s) \subseteq After(l, pos)
    BY DEF Stretches, After, Upto
  <1> QED BY <1>2, <1>3, FS_Subset

\* A stretch, by its two ends.
LEMMA StretchEnds ==
    ASSUME NEW l \in Seq(Chars), NEW s \in Stretches(l)
    PROVE  /\ s = <<s[1], s[2]>> /\ s[1] \in 1..Len(l) /\ s[2] \in s[1]..Len(l)
           /\ \A i \in s[1]..s[2] : l[i] # Blank
           /\ s[1] = 1 \/ l[s[1] - 1] = Blank
           /\ s[2] = Len(l) \/ l[s[2] + 1] = Blank
  <1>1. DOMAIN l = 1..Len(l) /\ Len(l) \in Nat
    BY LenProperties
  <1> QED BY <1>1 DEF Stretches

\* The stretches that begin at pos or later are the word at pos and those after it.
LEMMA FirstStretch ==
    ASSUME NEW l \in Seq(Chars), NEW pos \in 1..(Len(l) + 1), Boundary(l, pos)
    PROVE  /\ Begin(l, pos) > Len(l) => After(l, pos) = {}
           /\ Begin(l, pos) <= Len(l) =>
                 LET first == <<Begin(l, pos), End(l, pos) - 1>>
                 IN  /\ first \in After(l, pos) /\ first \notin After(l, End(l, pos))
                     /\ After(l, pos) = {first} \cup After(l, End(l, pos))
                     /\ Boundary(l, End(l, pos))
  <1> DEFINE b == Begin(l, pos)
             e == End(l, pos)
  <1>1. /\ Len(l) \in Nat /\ b \in pos..(Len(l) + 1) /\ DOMAIN l = 1..Len(l)
        /\ \A i \in pos..(b - 1) : l[i] = Blank
        /\ b <= Len(l) => /\ e \in (b + 1)..(Len(l) + 1)
                          /\ \A i \in b..(e - 1) : l[i] # Blank
                          /\ e <= Len(l) => l[e] = Blank
    BY WordAt, LenProperties
  <1> HIDE DEF b, e
  <1>2. ASSUME NEW s \in After(l, pos)
        PROVE  /\ s \in Stretches(l) /\ s[1] \in b..Len(l)
    <2>1. s \in Stretches(l) /\ s[1] >= pos
      BY DEF After
    <2>2. /\ s[1] \in 1..Len(l) /\ s[2] \in s[1]..Len(l)
          /\ \A i \in s[1]..s[2] : l[i] # Blank
      BY <2>1, StretchEnds
    <2>3. l[s[1]] # Blank
      BY <1>1, <2>2
    <2>4. s[1] \notin pos..(b - 1)
      BY <1>1, <2>3
    <2> QED BY <1>1, <2>1, <2>2, <2>4
  <1>3. CASE b > Len(l)
    BY <1>1, <1>2, <1>3 DEF b
  <1>4. CASE b <= Len(l)
    <2> DEFINE first == <<b, e - 1>>
    <2>1. /\ e \in (b + 1)..(Len(l) + 1) /\ b \in 1..Len(l) /\ e - 1 \in b..Len(l)
          /\ e - 1 \in 1..Len(l) /\ (e - 1) + 1 = e
      BY <1>1, <1>4
    <2>2. /\ \A i \in b..(e - 1) : l[i] # Blank
          /\ e - 1 = Len(l) \/ l[e] = Blank
      BY <1>1, <1>4
    <2>3. b = 1 \/ l[b - 1] = Blank
      <3>1. CASE b = pos
        <4>1. l[b] # Blank /\ b # Len(l) + 1
          BY <1>1, <1>4, <2>1, <2>2
        <4> QED BY <3>1, <4>1 DEF Boundary
      <3>2. CASE b # pos
        <4>1. b - 1 \in pos..(b - 1)
          BY <1>1, <3>2
        <4> QED BY <1>1, <4>1
      <3> QED BY <3>1, <3>2
    <2>4. first \in Stretches(l) /\ first[1] = b /\ first[2] = e - 1
      BY <1>1, <2>1, <2>2, <2>3 DEF Stretches
    <2>5. first \in After(l, pos) /\ first \notin After(l, e)
      BY <1>1, <2>1, <2>4 DEF After
    <2>6. ASSUME NEW s \in After(l, pos), ~(s[1] >= e)
          PROVE  s = first
      <3>1. /\ s \in Stretches(l) /\ s[1] \in b..(e - 1) /\ s[1] \in Nat
        BY <1>1, <1>2, <2>1, <2>6
      <3>2. /\ s = <<s[1], s[2]>> /\ s[2] \in s[1]..Len(l)
            /\ \A i \in s[1]..s[2] : l[i] # Blank
            /\ s[1] = 1 \/ l[s[1] - 1] = Blank
            /\ s[2] = Len(l) \/ l[s[2] + 1] = Blank
        BY <3>1, StretchEnds
      <3>3. s[1] = b
        <4> SUFFICES ASSUME s[1] # b PROVE FALSE
          OBVIOUS
        <4>1. s[1] - 1 \in b..(e - 1) /\ s[1] # 1
          BY <1>1, <2>1, <3>1
        <4> QED BY <2>2, <3>2, <4>1
      <3>4. s[2] = e - 1
        <4>1. CASE s[2] < e - 1
          <5>1. s[2] + 1 \in b..(e - 1) /\ s[2] # Len(l)
            BY <1>1, <2>1, <3>1, <3>2, <4>1
          <5> QED BY <2>2, <3>2, <5>1
        <4>2. CASE s[2] > e - 1
          <5>1. e \in s[1]..s[2] /\ e - 1 # Len(l)
            BY <1>1, <2>1, <3>1, <3>2, <4>2
          <5> QED BY <2>2, <3>2, <5>1
        <4> QED BY <2>1, <3>1, <3>2, <4>1, <4>2
      <3> QED BY <3>2, <3>3, <3>4
    <2>7. ASSUME NEW s \in After(l, e)
          PROVE  s \in After(l, pos)
      <3>1. s \in Stretches(l) /\ s[1] >= e /\ s[1] \in 1..Len(l)
        BY StretchEnds DEF After
      <3>2. s[1] >= pos
        BY <1>1, <2>1, <3>1
      <3> QED BY <3>1, <3>2 DEF After
    <2>8. \A s \in After(l, pos) : s[1] >= e => s \in After(l, e)
      BY DEF After
    <2>9. Boundary(l, e)
      BY <1>1, <2>1, <2>2 DEF Boundary
    <2> HIDE DEF first
    <2>10. After(l, pos) = {first} \cup After(l, e)
      BY <2>5, <2>6, <2>7, <2>8
    <2>11. ~(b > Len(l))
      BY <1>1, <1>4
    <2> QED BY <2>5, <2>9, <2>10, <2>11 DEF b, e, first
  <1> QED BY <1>1, <1>3, <1>4

\* The list w has, in order, the words of the stretches that begin at pos or later.
Counts(l, w, pos) ==
    /\ Len(w) = Cardinality(After(l, pos))
    /\ \A s \in After(l, pos) :
          /\ Cardinality(Upto(l, pos, s)) \in 1..Len(w)
          /\ w[Cardinality(Upto(l, pos, s))] = SubSeq(l, s[1], s[2])

\* One word more in front of the words of the rest.
LEMMA CountsFirst ==
    ASSUME NEW l \in Seq(Chars), NEW f \in WordLists(l), NEW pos \in 1..(Len(l) + 1),
           f[pos] = WordsFrom(l, f, pos), Boundary(l, pos),
           \A e \in (pos + 1)..(Len(l) + 1) : Boundary(l, e) => Counts(l, f[e], e)
    PROVE  Counts(l, f[pos], pos)
  <1> DEFINE W == Seq(Chars) \ {<<>>}
             b == Begin(l, pos)
             e == End(l, pos)
             first == <<b, e - 1>>
             word == SubSeq(l, b, e - 1)
  <1>1. /\ Len(l) \in Nat /\ b \in pos..(Len(l) + 1)
        /\ b <= Len(l) => e \in (b + 1)..(Len(l) + 1)
    BY WordAt
  <1>2. f[pos] = IF b > Len(l) THEN <<>> ELSE <<word>> \o f[e]
    BY DEF WordsFrom, Begin, End
  <1>3. /\ b > Len(l) => After(l, pos) = {}
        /\ b <= Len(l) => /\ first \in After(l, pos) /\ first \notin After(l, e)
                          /\ After(l, pos) = {first} \cup After(l, e)
                          /\ Boundary(l, e)
    BY FirstStretch
  <1>4. f[pos] \in Seq(W)
    BY DEF WordLists
  <1> HIDE DEF b, e
  <1>5. CASE b > Len(l)
    <2>1. f[pos] = <<>> /\ After(l, pos) = {}
      BY <1>2, <1>3, <1>5
    <2> QED BY <2>1, FS_EmptySet, EmptySeq DEF Counts
  <1>6. CASE b <= Len(l)
    <2>1. e \in (pos + 1)..(Len(l) + 1) /\ e \in 1..(Len(l) + 1) /\ b < e /\ b \in Nat
      BY <1>1, <1>6
    <2>2. /\ After(l, pos) = {first} \cup After(l, e) /\ first \notin After(l, e)
          /\ Counts(l, f[e], e)
      BY <1>3, <1>6, <2>1
    <2>3. IsFiniteSet(After(l, e)) /\ \A s : IsFiniteSet(Upto(l, e, s))
      BY StretchesFinite
    <2>4. Cardinality(After(l, pos)) = Cardinality(After(l, e)) + 1
      <3>1. After(l, pos) = After(l, e) \cup {first}
        BY <2>2
      <3> HIDE DEF first
      <3> QED BY <2>2, <2>3, <3>1, FS_AddElement
    <2>5. f[e] \in Seq(W) /\ f[pos] = <<word>> \o f[e]
      <3>1. ~(b > Len(l))
        BY <1>1, <1>6
      <3> HIDE DEF word
      <3> QED BY <1>2, <2>1, <3>1 DEF WordLists
    <2>6. /\ Len(f[pos]) = Len(f[e]) + 1 /\ Len(f[e]) \in Nat /\ f[pos][1] = word
          /\ \A i \in 1..Len(f[e]) : f[pos][i + 1] = f[e][i]
      <3>1. f[e] \in Seq(W \cup {word}) /\ <<word>> \in Seq(W \cup {word})
        BY <2>5, SeqMonotonic
      <3>2. Len(<<word>>) = 1 /\ <<word>>[1] = word /\ Len(f[e]) \in Nat
        BY <2>5, LenProperties
      <3> HIDE DEF word, W
      <3>3. /\ Len(f[pos]) = 1 + Len(f[e])
            /\ \A i \in 1..(1 + Len(f[e])) :
                  f[pos][i] = IF i <= 1 THEN <<word>>[i] ELSE f[e][i - 1]
        BY <2>5, <3>1, <3>2, ConcatProperties
      <3>4. ASSUME NEW i \in 1..Len(f[e])
            PROVE  f[pos][i + 1] = f[e][i]
        <4>1. i + 1 \in 1..(1 + Len(f[e])) /\ ~(i + 1 <= 1) /\ (i + 1) - 1 = i
          BY <3>2
        <4> QED BY <3>3, <4>1
      <3> QED BY <3>2, <3>3, <3>4
    <2>7. ASSUME NEW s \in After(l, e)
          PROVE  /\ Upto(l, pos, s) = Upto(l, e, s) \cup {first}
                 /\ first \notin Upto(l, e, s)
      <3>1. s[1] >= e /\ s[1] \in Nat
        BY StretchEnds DEF After
      <3>2. first[1] <= s[1]
        BY <2>1, <3>1
      <3> QED BY <2>2, <3>2 DEF Upto
    <2>8. Upto(l, pos, first) = {first}
      <3>1. ASSUME NEW t \in After(l, e)
            PROVE  ~(t[1] <= first[1])
        <4>1. t[1] >= e /\ t[1] \in Nat
          BY StretchEnds DEF After
        <4> QED BY <2>1, <4>1
      <3>2. first[1] <= first[1]
        BY <2>1
      <3> QED BY <2>2, <3>1, <3>2 DEF Upto
    <2> HIDE DEF first, word
    <2>9. ASSUME NEW s \in After(l, pos)
          PROVE  /\ Cardinality(Upto(l, pos, s)) \in 1..Len(f[pos])
                 /\ f[pos][Cardinality(Upto(l, pos, s))] = SubSeq(l, s[1], s[2])
      <3>1. CASE s = first
        <4>1. Cardinality(Upto(l, pos, s)) = 1
          BY <2>8, <3>1, FS_Singleton
        <4>2. word = SubSeq(l, s[1], s[2])
          BY <3>1 DEF first, word
        <4> QED BY <2>6, <4>1, <4>2
      <3>2. CASE s \in After(l, e)
        <4>1. Cardinality(Upto(l, pos, s)) = Cardinality(Upto(l, e, s)) + 1
          BY <2>3, <2>7, <3>2, FS_AddElement
        <4>2. /\ Cardinality(Upto(l, e, s)) \in 1..Len(f[e])
              /\ f[e][Cardinality(Upto(l, e, s))] = SubSeq(l, s[1], s[2])
          BY <2>2, <3>2 DEF Counts
        <4> QED BY SMTT(30), <2>6, <4>1, <4>2
      <3> QED BY <2>2, <3>1, <3>2
    <2>10. Len(f[pos]) = Cardinality(After(l, pos))
      BY <2>2, <2>4, <2>6 DEF Counts
    <2> QED BY <2>9, <2>10 DEF Counts
  <1> QED BY <1>1, <1>5, <1>6

LEMMA CountsAll ==
    ASSUME NEW l \in Seq(Chars), NEW f \in WordLists(l),
           \A pos \in 1..(Len(l) + 1) : f[pos] = WordsFrom(l, f, pos)
    PROVE  Counts(l, f[1], 1)
  <1> DEFINE fails == {k \in 1..(Len(l) + 1) :
                 LET pos == Len(l) + 2 - k IN Boundary(l, pos) /\ ~Counts(l, f[pos], pos)}
  <1>1. Len(l) \in Nat
    BY LenProperties
  <1>2. \A k \in fails : /\ k \in Nat /\ k \in 1..(Len(l) + 1) /\ Boundary(l, Len(l) + 2 - k)
                         /\ ~Counts(l, f[Len(l) + 2 - k], Len(l) + 2 - k)
    OBVIOUS
  <1>3. \A k \in 1..(Len(l) + 1) : k \notin fails /\ Boundary(l, Len(l) + 2 - k)
                         => Counts(l, f[Len(l) + 2 - k], Len(l) + 2 - k)
    OBVIOUS
  <1> HIDE DEF fails
  <1>4. ASSUME fails # {}
        PROVE  FALSE
    <2>1. PICK k \in fails : \A m \in fails : k <= m
      BY <1>2, <1>4, LeastNat
    <2> DEFINE pos == Len(l) + 2 - k
    <2>2. pos \in 1..(Len(l) + 1)
      BY <1>1, <1>2
    <2>3. ASSUME NEW e \in (pos + 1)..(Len(l) + 1), Boundary(l, e)
          PROVE  Counts(l, f[e], e)
      <3> DEFINE m == Len(l) + 2 - e
      <3>1. m \in 1..(Len(l) + 1) /\ m < k /\ Len(l) + 2 - m = e
        BY <1>1, <1>2, <2>2
      <3> HIDE DEF m
      <3>2. m \notin fails
        BY <1>2, <2>1, <3>1
      <3> QED BY <1>3, <2>3, <3>1, <3>2
    <2>4. Boundary(l, pos) /\ ~Counts(l, f[pos], pos)
      BY <1>2
    <2> HIDE DEF pos
    <2> QED BY <2>2, <2>3, <2>4, CountsFirst
  <1>5. Len(l) + 1 \in 1..(Len(l) + 1) /\ Len(l) + 2 - (Len(l) + 1) = 1 /\ Boundary(l, 1)
    BY <1>1 DEF Boundary
  <1> QED BY <1>3, <1>4, <1>5

\* parse() finds the words of any line: the longest stretches without a blank, from
\* left to right, the first as the name (console_reader.hpp:70-103).
THEOREM ParseCorrect ==
    ASSUME NEW l \in Seq(Chars)
    PROVE  Says(Parse(l), l)
  <1> DEFINE w == WordsOf(l)
             c == Parse(l)
             all == IF c.name = <<>> THEN c.params ELSE <<c.name>> \o c.params
  <1>1. PICK f \in WordLists(l) :
            /\ \A pos \in 1..(Len(l) + 1) : f[pos] = WordsFrom(l, f, pos)
            /\ w = f[1]
    BY WordsExist
  <1>2. w \in Seq(Seq(Chars) \ {<<>>})
    <2>1. 1 \in 1..(Len(l) + 1)
      BY LenProperties
    <2> QED BY <1>1, <2>1 DEF WordLists
  <1>3. Counts(l, w, 1)
    BY <1>1, CountsAll
  <1>4. all = w
    <2>1. CASE w = <<>>
      BY <2>1 DEF Parse
    <2>2. CASE w # <<>>
      <3>1. c.name = Head(w) /\ c.params = Tail(w)
        BY <2>2 DEF Parse
      <3>2. Head(w) # <<>>
        BY <1>2, <2>2, HeadTailProperties
      <3> HIDE DEF w
      <3>3. <<Head(w)>> \o Tail(w) = w
        <4>1. Len(w) \in Nat \ {0} /\ Head(w) = w[1]
          BY <1>2, <2>2, EmptySeq
        <4>2. SubSeq(w, 1, Len(w)) = <<w[1]>> \o SubSeq(w, 2, Len(w))
          BY <1>2, <4>1, SubSeqRecursiveFirst
        <4> QED BY <1>2, <2>2, <4>1, <4>2, SubSeqFull, TailIsSubSeq
      <3> HIDE DEF c
      <3> QED BY <3>1, <3>2, <3>3
    <2> QED BY <2>1, <2>2
  <1>5. After(l, 1) = Stretches(l)
    <2>1. \A s \in Stretches(l) : s[1] >= 1
      BY StretchEnds
    <2> QED BY <2>1 DEF After
  <1>6. \A s : Upto(l, 1, s) = {t \in Stretches(l) : t[1] <= s[1]}
    BY <1>5 DEF Upto
  <1> HIDE DEF w
  <1> QED BY <1>3, <1>4, <1>5, <1>6 DEF Counts, Says

LEMMA StoredType ==
    ASSUME NEW l \in Typeable
    PROVE  Stored(l) \in Seq(Chars)
  <1>1. l \in Seq(Chars)
    BY ConsoleAssumption, EmptySeq DEF Typeable
  <1>2. Len(l) \in Nat /\ LineMax \in Nat
    BY <1>1, LenProperties, ConsoleAssumption
  <1> DEFINE n == IF Len(l) > LineMax THEN LineMax ELSE Len(l)
  <1>3. n \in Int /\ n <= Len(l)
    BY <1>2
  <1> HIDE DEF n
  <1>4. \A i \in 1..n : l[i] \in Chars
    BY <1>1, <1>2, <1>3, ElementOfSeq
  <1>5. SubSeq(l, 1, n) \in Seq(Chars)
    BY <1>3, <1>4, SubSeqProperties
  <1> QED BY <1>5 DEF Stored, n

\* OncePerLine: each line becomes one command with the words of what getline() stored
\* of it, and the commands are run once each in the order of the lines
\* (console_reader.hpp:27-103).
THEOREM OncePerLineCorrect == ConsoleSpec => []OncePerLine
  <1>1. ASSUME ConsoleInv
        PROVE  OncePerLine
    <2>1. entered \in Seq(Typeable) /\ DOMAIN entered = 1..Len(entered)
      BY <1>1, LenProperties DEF ConsoleInv, ConsoleTypeOK
    <2>2. ASSUME NEW i \in 1..Len(entered)
          PROVE  Says(Ledger[i], Stored(entered[i]))
      <3>1. entered[i] \in Typeable
        BY <2>1, ElementOfSeq
      <3>2. Says(Parse(Stored(entered[i])), Stored(entered[i]))
        BY <3>1, StoredType, ParseCorrect
      <3>3. Ledger[i] = Parse(Stored(entered[i]))
        BY <1>1 DEF ConsoleInv, LedgerOK
      <3> QED BY <3>2, <3>3
    <2> QED BY <1>1, <2>1, <2>2 DEF OncePerLine, ConsoleInv, LedgerOK
  <1> QED BY ConsoleInvariant, <1>1, PTL
=============================================================================
