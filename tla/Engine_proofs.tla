---------------------------- MODULE Engine_proofs ----------------------------
(***************************************************************************)
(* What holds of the game server's console commands and their Lua stack    *)
(* (Engine), for any lines and any number of commands.                     *)
(***************************************************************************)
EXTENDS Engine, ConsoleReader_proofs

Kinds == {"error", "table"}

\* The whole invariant is inductive by itself: what a command does to the stack
\* depends on what lies there only by its size and by Kinds.
EngineInv == EngineTypeOK /\ StackLedger /\ CallsCheck

-----------------------------------------------------------------------------
(* A call of Check, from any stack of errors and tables.                   *)

\* What CheckCall leaves below the function and self it has pushed: as many values
\* as there were before, for it removes the bottom one and leaves the table.
LEMMA CheckCallStack ==
    ASSUME NEW s \in Seq(Kinds)
    PROVE  \E below \in Seq(Kinds) : /\ CheckCall(s) = below \o <<"function", "table">>
                                     /\ Len(below) = Len(s)
  <1>1. CASE s = <<>>
    <2>1. s \o <<"table", "function", "table">> = <<"table", "function", "table">>
      BY <1>1
    <2>2. CheckCall(s) = <<"function", "table">>
      <3>1. Tail(<<"table", "function", "table">>) = <<"function", "table">>
        OBVIOUS
      <3> QED BY <2>1, <3>1 DEF CheckCall, RemoveBottom
    <2>3. <<>> \o <<"function", "table">> = <<"function", "table">> /\ <<>> \in Seq(Kinds)
      BY EmptySeq
    <2> QED BY <1>1, <2>2, <2>3
  <1>2. CASE s # <<>>
    <2> DEFINE below == Tail(s) \o <<"table">>
    <2>1. Tail(s) \in Seq(Kinds) /\ Len(Tail(s)) = Len(s) - 1 /\ Len(s) \in Nat \ {0}
          /\ \A i \in 1..(Len(s) - 1) : Tail(s)[i] = s[i + 1]
      BY <1>2, HeadTailProperties, EmptySeq
    <2>2. below \in Seq(Kinds) /\ Len(below) = Len(s)
      <3>1. <<"table">> \in Seq(Kinds) /\ Len(<<"table">>) = 1
        BY DEF Kinds
      <3> QED BY <2>1, <3>1, ConcatProperties
    <2>3. CheckCall(s) = below \o <<"function", "table">>
      <3> DEFINE V == {"error", "table", "function"}
                 three == <<"table", "function", "table">>
      <3>1. s \in Seq(V) /\ three \in Seq(V) /\ Tail(s) \in Seq(V) /\ <<"table">> \in Seq(V)
            /\ <<"function", "table">> \in Seq(V) /\ Len(three) = 3
            /\ three = <<"table">> \o <<"function", "table">>
        <4>1. Kinds \subseteq V
          BY DEF Kinds
        <4>2. s \in Seq(V) /\ Tail(s) \in Seq(V)
          BY <2>1, <4>1, SeqMonotonic
        <4>3. /\ three \in Seq(V) /\ <<"table">> \in Seq(V) /\ <<"function", "table">> \in Seq(V)
              /\ Len(three) = 3
          OBVIOUS
        <4>4. three = <<"table">> \o <<"function", "table">>
          OBVIOUS
        <4> QED BY <4>2, <4>3, <4>4
      <3> HIDE DEF V, three
      <3>2. s \o three \in Seq(V) /\ Len(s \o three) = Len(s) + 3
            /\ Tail(s) \o three \in Seq(V) /\ Len(Tail(s) \o three) = Len(s) + 2
        BY <2>1, <3>1, ConcatProperties
      <3>3. s \o three # <<>>
        BY <2>1, <3>2, EmptySeq
      <3>4. Tail(s \o three) \in Seq(V) /\ Len(Tail(s \o three)) = Len(s) + 2
            /\ \A i \in 1..(Len(s) + 2) : Tail(s \o three)[i] = (s \o three)[i + 1]
        BY <2>1, <3>2, <3>3, HeadTailProperties
      <3>5. ASSUME NEW i \in 1..(Len(s) + 2)
            PROVE  Tail(s \o three)[i] = (Tail(s) \o three)[i]
        <4>1. (s \o three)[i + 1] = IF i + 1 <= Len(s) THEN s[i + 1] ELSE three[i + 1 - Len(s)]
          <5>1. i + 1 \in 1..(Len(s) + Len(three))
            BY <2>1, <3>1
          <5> QED BY <3>1, <5>1, ConcatProperties
        <4>2. (Tail(s) \o three)[i] =
                  IF i <= Len(s) - 1 THEN Tail(s)[i] ELSE three[i - (Len(s) - 1)]
          <5>1. i \in 1..(Len(Tail(s)) + Len(three))
            BY <2>1, <3>1
          <5> QED BY <2>1, <3>1, <5>1, ConcatProperties
        <4>3. CASE i <= Len(s) - 1
          BY <2>1, <3>4, <4>1, <4>2, <4>3
        <4>4. CASE ~(i <= Len(s) - 1)
          <5>1. i + 1 - Len(s) = i - (Len(s) - 1) /\ ~(i + 1 <= Len(s))
            BY <2>1, <4>4
          <5> QED BY <3>4, <4>1, <4>2, <4>4, <5>1
        <4> QED BY <4>3, <4>4
      <3>6. Tail(s \o three) = Tail(s) \o three
        BY <3>2, <3>4, <3>5, SeqEqual
      <3>7. Tail(s) \o three = below \o <<"function", "table">>
        BY <3>1, ConcatAssociative
      <3>8. CheckCall(s) = Tail(s \o three)
        BY DEF CheckCall, RemoveBottom, three
      <3> QED BY <3>6, <3>7, <3>8
    <2> HIDE DEF below
    <2> QED BY <2>2, <2>3
  <1> QED BY <1>1, <1>2

\* The values below the top.
LEMMA BelowTop ==
    ASSUME NEW S, NEW below \in Seq(S), NEW top \in Seq(S)
    PROVE  Drop(below \o top, Len(top)) = below
  <1> DEFINE s == below \o top
             n == Len(below)
  <1>1. /\ s \in Seq(S) /\ Len(s) = n + Len(top) /\ n \in Nat /\ Len(top) \in Nat
        /\ \A i \in 1..n : s[i] = below[i]
    <2>1. /\ s \in Seq(S) /\ Len(s) = n + Len(top) /\ n \in Nat /\ Len(top) \in Nat
          /\ \A i \in 1..(n + Len(top)) : s[i] = IF i <= n THEN below[i] ELSE top[i - n]
      BY ConcatProperties, LenProperties
    <2> HIDE DEF s, n
    <2>2. \A i \in 1..n : i \in 1..(n + Len(top)) /\ i <= n
      BY <2>1
    <2> QED BY <2>1, <2>2
  <1>2. Drop(s, Len(top)) = SubSeq(s, 1, n)
    BY <1>1 DEF Drop
  <1> HIDE DEF s
  <1>3. \A i \in 1..n : s[i] \in S
    BY <1>1, ElementOfSeq
  <1>4. /\ SubSeq(s, 1, n) \in Seq(S)
        /\ Len(SubSeq(s, 1, n)) = IF 1 <= n THEN n - 1 + 1 ELSE 0
        /\ \A i \in 1..(n - 1 + 1) : SubSeq(s, 1, n)[i] = s[1 + i - 1]
    BY <1>1, <1>3, SubSeqProperties
  <1>5. Len(SubSeq(s, 1, n)) = n /\ \A i \in 1..n : SubSeq(s, 1, n)[i] = below[i]
    <2>1. n - 1 + 1 = n /\ \A i \in 1..n : 1 + i - 1 = i
      BY <1>1
    <2>2. Len(SubSeq(s, 1, n)) = n
      BY <1>1, <1>4, <2>1
    <2> QED BY <1>1, <1>4, <2>1, <2>2
  <1>6. SubSeq(s, 1, n) = below
    BY <1>4, <1>5, SeqEqual
  <1> QED BY <1>2, <1>6 DEF s

\* A call of Check takes what was pushed for it, and leaves its error if it fails.
LEMMA CallCheckStep ==
    ASSUME EngineInv, CallCheck
    PROVE  EngineInv'
  <1> DEFINE top == <<"function", "table", "integer", "integer">>
             V == {"error", "table", "function", "integer"}
             s == CheckCall(stack) \o <<"integer", "integer">>
  <1>1. PICK below \in Seq(Kinds) : /\ CheckCall(stack) = below \o <<"function", "table">>
                                    /\ Len(below) = Len(stack)
    BY CheckCallStack DEF EngineInv, EngineTypeOK, Kinds
  <1>2. below \in Seq(V)
    BY SeqMonotonic DEF Kinds
  <1>3. s = below \o top
    <2>1. <<"function", "table">> \in Seq(V) /\ <<"integer", "integer">> \in Seq(V)
      OBVIOUS
    <2> DEFINE call == <<"function", "table">>
               args == <<"integer", "integer">>
    <2>2. call \o args = top
      <3>1. /\ call \o args \in Seq(V) /\ Len(call \o args) = 2 + 2
            /\ \A i \in 1..(2 + 2) : (call \o args)[i] = IF i <= 2 THEN call[i] ELSE args[i - 2]
        <4>1. Len(call) = 2 /\ Len(args) = 2
          OBVIOUS
        <4> HIDE DEF call, args, V
        <4> QED BY <2>1, <4>1, ConcatProperties DEF call, args
      <3>2. top \in Seq(V) /\ Len(top) = 4
        OBVIOUS
      <3>3. \A i \in 1..4 : top[i] = IF i <= 2 THEN call[i] ELSE args[i - 2]
        <4>1. /\ top[1] = call[1] /\ top[2] = call[2] /\ top[3] = args[1] /\ top[4] = args[2]
          OBVIOUS
        <4>2. \A i \in 1..4 : i = 1 \/ i = 2 \/ i = 3 \/ i = 4
          OBVIOUS
        <4> HIDE DEF top, call, args
        <4> QED BY <4>1, <4>2
      <3> HIDE DEF V, top, call, args
      <3>4. /\ Len(call \o args) = Len(top)
            /\ \A i \in 1..Len(top) : (call \o args)[i] = top[i]
        BY <3>1, <3>2, <3>3
      <3> QED BY <3>1, <3>2, <3>4, SeqEqual
    <2> HIDE DEF V, top
    <2>3. s = (below \o call) \o args
      BY <1>1
    <2> HIDE DEF s
    <2>4. call \in Seq(V) /\ args \in Seq(V)
      BY <2>1
    <2> HIDE DEF call, args
    <2>5. (below \o call) \o args = below \o (call \o args)
      BY <1>2, <2>4, ConcatAssociative
    <2> QED BY <2>2, <2>3, <2>5
  <1>4. top \in Seq(V) /\ Len(top) = 4 /\ top[1] = "function" /\ top[2] = "table"
    OBVIOUS
  <1>5. /\ \E ok \in BOOLEAN :
              /\ stack' = Drop(s, 4) \o (IF ok THEN <<>> ELSE <<"error">>)
              /\ failed' = failed + (IF ok THEN 0 ELSE 1)
        /\ callee' = <<AtTop(s, 4), AtTop(s, 3)>>
        /\ UNCHANGED <<manager, checker, died>>
    BY DEF CallCheck
  <1> HIDE DEF V, s, top
  <1>6. Drop(s, 4) = below
    BY <1>2, <1>3, <1>4, BelowTop
  <1>7. AtTop(s, 4) = "function" /\ AtTop(s, 3) = "table"
    <2>1. /\ Len(below) \in Nat /\ Len(s) = Len(below) + 4
          /\ \A i \in 1..(Len(below) + 4) :
                s[i] = IF i <= Len(below) THEN below[i] ELSE top[i - Len(below)]
      <3>1. /\ Len(below \o top) = Len(below) + Len(top)
            /\ \A i \in 1..(Len(below) + Len(top)) :
                  (below \o top)[i] = IF i <= Len(below) THEN below[i] ELSE top[i - Len(below)]
        BY <1>2, <1>4, ConcatProperties
      <3>2. Len(below) \in Nat
        BY <1>2, LenProperties
      <3> QED BY <1>3, <1>4, <3>1, <3>2
    <2>2. Len(s) + 1 - 4 = Len(below) + 1 /\ Len(s) + 1 - 3 = Len(below) + 2
      BY <2>1
    <2>3. /\ Len(below) + 1 \in 1..(Len(below) + 4) /\ ~(Len(below) + 1 <= Len(below))
          /\ Len(below) + 2 \in 1..(Len(below) + 4) /\ ~(Len(below) + 2 <= Len(below))
          /\ (Len(below) + 1) - Len(below) = 1 /\ (Len(below) + 2) - Len(below) = 2
      BY <2>1
    <2>4. s[Len(below) + 1] = top[1] /\ s[Len(below) + 2] = top[2]
      BY <2>1, <2>3
    <2> QED BY <1>4, <2>2, <2>4 DEF AtTop
  <1>8. /\ stack' \in Seq(Kinds) /\ Len(stack') = failed' /\ failed' \in Nat
    <2>1. /\ below \o <<>> = below
          /\ below \o <<"error">> \in Seq(Kinds) /\ Len(below \o <<"error">>) = Len(below) + 1
      <3>1. <<"error">> \in Seq(Kinds) /\ Len(<<"error">>) = 1
        BY DEF Kinds
      <3> QED BY <3>1, ConcatEmptySeq, ConcatProperties
    <2>2. Len(below) = failed /\ failed \in Nat
      BY <1>1 DEF EngineInv, EngineTypeOK, StackLedger
    <2>3. CASE stack' = below /\ failed' = failed
      BY <2>2, <2>3
    <2>4. CASE stack' = below \o <<"error">> /\ failed' = failed + 1
      BY <2>1, <2>2, <2>4
    <2>5. \/ stack' = below /\ failed' = failed
          \/ stack' = below \o <<"error">> /\ failed' = failed + 1
      <3>1. PICK ok \in BOOLEAN : /\ stack' = below \o (IF ok THEN <<>> ELSE <<"error">>)
                                  /\ failed' = failed + (IF ok THEN 0 ELSE 1)
        BY <1>5, <1>6
      <3>2. CASE ok
        BY <2>1, <2>2, <3>1, <3>2
      <3>3. CASE ~ok
        BY <3>1, <3>3
      <3> QED BY <3>2, <3>3
    <2> QED BY <2>3, <2>4, <2>5
  <1>9. callee' = <<"function", "table">> /\ callee' \in Values \X Values
    BY <1>5, <1>7 DEF Values
  <1> QED BY <1>5, <1>8, <1>9 DEF EngineInv, EngineTypeOK, StackLedger, CallsCheck, Kinds

-----------------------------------------------------------------------------
(* The other commands.                                                     *)

LEMMA EngineInitInv == EngineInit => EngineInv
  <1> SUFFICES ASSUME EngineInit PROVE EngineInv
    OBVIOUS
  <1>1. stack \in Seq(Kinds) /\ Len(stack) = 0
    BY EmptySeq DEF EngineInit
  <1> QED BY <1>1 DEF EngineInit, EngineInv, EngineTypeOK, StackLedger, CallsCheck, Kinds, Values

LEMMA CommandStep ==
    ASSUME EngineInv, died = "none", NEW c, RunOnce(c)
    PROVE  EngineInv'
  <1> USE DEF EngineInv, EngineTypeOK, StackLedger, CallsCheck, luaVars
  <1>1. CASE Hello(c)
    BY <1>1 DEF Hello
  <1>2. CASE Refresh(c)
    BY <1>2 DEF Refresh, DoFile
  <1>3. CASE Reload(c)
    <2>1. <<>> \in Seq(Kinds) /\ Len(<<>>) = 0
      BY EmptySeq
    <2> QED BY <1>3, <2>1 DEF Reload, InitScript, DoFile, Kinds
  <1>4. CASE TestLua1(c)
    <2>1. CASE CallCheck
      BY <2>1, CallCheckStep
    <2>2. CASE stack' = Drop(stack \o <<"table", "other">>, 2)
                 /\ UNCHANGED <<manager, checker, failed, callee, died>>
      <3> DEFINE S == {"error", "table", "other"}
      <3>1. <<"table", "other">> \in Seq(S) /\ Len(<<"table", "other">>) = 2
        OBVIOUS
      <3>2. stack \in Seq(S)
        BY SeqMonotonic
      <3> HIDE DEF S
      <3>3. stack' = stack
        BY <2>2, <3>1, <3>2, BelowTop
      <3> QED BY <2>2, <3>3
    <2> QED BY <1>4, <2>1, <2>2 DEF TestLua1
  <1>5. CASE TestLua2(c)
    BY <1>5 DEF TestLua2
  <1>6. CASE Other(c)
    BY <1>6 DEF Other
  <1> QED BY <1>1, <1>2, <1>3, <1>4, <1>5, <1>6 DEF RunOnce

LEMMA EngineStep == EngineInv /\ [EngineNext]_engineVars => EngineInv'
  <1>1. ASSUME EngineInv, UNCHANGED <<luaVars, died>>
        PROVE  EngineInv'
    BY <1>1 DEF EngineInv, EngineTypeOK, StackLedger, CallsCheck, luaVars
  <1> QED BY <1>1, CommandStep DEF EngineNext, engineVars

\* In every behaviour: the stack holds one value for each call of Check that failed since
\* the last reload, an error or a table in its place, and what is called is Check
\* (engine.cpp:183-265).
THEOREM EngineInvariant == EngineSpec => []EngineInv
  <1> QED BY EngineInitInv, EngineStep, PTL DEF EngineSpec

\* EngineTypeOK: every variable has its type, and only errors and tables stay on the
\* stack (engine.cpp:183-265).
THEOREM EngineTypeCorrect == EngineSpec => []EngineTypeOK
  <1>1. EngineInv => EngineTypeOK
    BY DEF EngineInv
  <1> QED BY EngineInvariant, <1>1, PTL

\* StackLedger: testlua1 clears what it pushed although it removes the bottom of the
\* stack where it means the table (engine.cpp:217-248, 273-326).
THEOREM StackLedgerCorrect == EngineSpec => []StackLedger
  <1>1. EngineInv => StackLedger
    BY DEF EngineInv
  <1> QED BY EngineInvariant, <1>1, PTL

\* CallsCheck: what testlua1 calls is Check with the table as self, whatever lies below
\* (engine.cpp:224-236).
THEOREM CallsCheckCorrect == EngineSpec => []CallsCheck
  <1>1. EngineInv => CallsCheck
    BY DEF EngineInv
  <1> QED BY EngineInvariant, <1>1, PTL

\* The engine uses the console as it is: its steps are those of ConsoleReader, and what
\* is proved of the console holds of the server (engine.cpp:162-188).
THEOREM EngineUsesConsole == EngineSpec => ConsoleSpec /\ []OncePerLine
  <1>1. EngineInit => ConsoleInit
    BY DEF EngineInit
  <1>2. [EngineNext]_engineVars => [ConsoleNext]_consoleVars
    BY DEF EngineNext, engineVars, ConsoleNext
  <1> QED BY <1>1, <1>2, OncePerLineCorrect, PTL DEF EngineSpec, ConsoleSpec
=============================================================================
