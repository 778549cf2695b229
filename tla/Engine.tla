------------------------------- MODULE Engine -------------------------------
(***************************************************************************)
(* The console commands of the game server (server/engine.cpp:162-326):    *)
(* what each tick does with the command it pops, and the Lua state the     *)
(* commands share.  The Lua stack is a sequence of kinds of values with    *)
(* its bottom, Lua's index 1, first; between two commands it should be     *)
(* empty.  The client program (client/main.cpp:98-119) has "hello" only.   *)
(***************************************************************************)
EXTENDS ConsoleReader

CONSTANT Numbers    \* the words std::stoi() accepts

ASSUME EngineAssumption == Numbers \subseteq Seq(Chars)

VARIABLES
    stack,      \* the Lua stack of m_lua_vm
    manager,    \* the global CheckAddBuffManager: "table" with a function Check,
                \* "bare" table without one, or "other"
    checker,    \* is the global CheckAddBuffManagerCheck a function?
    died,       \* what ended the process: "stoi", "write", "panic"; "none" so far
    failed,     \* history: calls of Check that failed since init_script()
    callee      \* history: function and self of the last call of Check

luaVars == <<stack, manager, checker, failed, callee>>
engineVars == <<consoleVars, luaVars, died>>

\* What may lie on the stack; "other" is the value of a field that is no function.
Values == {"error", "table", "function", "integer", "other"}

-----------------------------------------------------------------------------
(* The Lua API.                                                            *)

Drop(s, n) == SubSeq(s, 1, Len(s) - n)      \* lua_pop
AtTop(s, n) == s[Len(s) + 1 - n]            \* index -n
RemoveBottom(s) == Tail(s)                  \* lua_remove(1)

\* luaL_dofile() leaves what the script returns, which for main.lua is nothing,
\* or an error, which is popped.  What it has defined by then is up to the
\* script on disk, which is there to be edited.
DoFile ==
    /\ manager' \in {"table", "bare", "other"}
    /\ checker' \in BOOLEAN

\* A new state: package.path, functions and metatable leave nothing behind.
InitScript ==
    /\ stack' = <<>> /\ failed' = 0
    /\ DoFile
    /\ UNCHANGED <<callee, died>>

-----------------------------------------------------------------------------
(* The commands.                                                           *)

\* SEND_GUARD to any slot: it sends nothing to one that is not connected.  That
\* its write need not return is LoopStops.
Hello(c) ==
    /\ c.name = <<"hello">>
    /\ died' \in IF c.params = <<>> THEN {"none"}
                 ELSE IF Head(c.params) \in Numbers THEN {"none", "write"}
                 ELSE {"stoi"}
    /\ UNCHANGED luaVars

Refresh(c) ==
    /\ c.name = <<"refresh">>
    /\ DoFile
    /\ UNCHANGED <<stack, failed, callee, died>>

Reload(c) == c.name = <<"reload">> /\ InitScript

\* Faulty variants, M_..., each the mistake its name tells; they are not part of
\* the specification and stand before the definition they replace.
M_CheckCallRemovesTop(s) == Drop(s \o <<"table", "function", "table">>, 1)

\* Table, Check and self are pushed; lua_remove(1) is to take the table away.
CheckCall(s) == RemoveBottom(s \o <<"table", "function", "table">>)

\* lua_pcall() with three arguments takes four values and leaves an error.
CallCheck ==
    LET s == CheckCall(stack) \o <<"integer", "integer">>
    IN  /\ callee' = <<AtTop(s, 4), AtTop(s, 3)>>
        /\ \E ok \in BOOLEAN :
              /\ stack' = Drop(s, 4) \o (IF ok THEN <<>> ELSE <<"error">>)
              /\ failed' = failed + (IF ok THEN 0 ELSE 1)
        /\ UNCHANGED <<manager, checker, died>>

M_TestLua1RemovesBottom(c) ==
    /\ c.name = <<"testlua1">>
    /\ \/ manager = "table" /\ CallCheck
       \/ /\ manager = "bare"
          /\ stack' = RemoveBottom(RemoveBottom(stack \o <<"table", "other">>))
          /\ UNCHANGED <<manager, checker, failed, callee, died>>
       \/ manager = "other" /\ UNCHANGED <<luaVars, died>>

M_TestLua1PopsTable(c) ==
    /\ c.name = <<"testlua1">>
    /\ \/ manager = "table" /\ CallCheck
       \/ /\ manager = "bare"
          /\ stack' = Drop(stack \o <<"table", "other">>, 1)
          /\ UNCHANGED <<manager, checker, failed, callee, died>>
       \/ manager = "other" /\ UNCHANGED <<luaVars, died>>

TestLua1(c) ==
    /\ c.name = <<"testlua1">>
    /\ \/ manager = "table" /\ CallCheck
       \/ /\ manager = "bare"
          /\ stack' = Drop(stack \o <<"table", "other">>, 2)
          /\ UNCHANGED <<manager, checker, failed, callee, died>>
       \/ manager = "other" /\ UNCHANGED <<luaVars, died>>

\* lua_call() is unprotected: an error finds no handler and aborts.
TestLua2(c) ==
    /\ c.name = <<"testlua2">>
    /\ died' \in {"none"} \cup {d \in {"panic"} : checker}
    /\ UNCHANGED luaVars

Other(c) ==
    /\ c.name \notin {<<n>> : n \in {"hello", "refresh", "reload", "testlua1", "testlua2"}}
    /\ UNCHANGED <<luaVars, died>>

RunOnce(c) ==
    Hello(c) \/ Refresh(c) \/ Reload(c) \/ TestLua1(c) \/ TestLua2(c) \/ Other(c)

EngineInit ==
    /\ ConsoleInit
    /\ stack = <<>> /\ failed = 0 /\ callee = <<"function", "table">>
    /\ manager \in {"table", "bare", "other"} /\ checker \in BOOLEAN
    /\ died = "none"

\* A command is run whole within its tick, or never comes back from it; a process
\* that died does nothing.
EngineNext ==
    \/ /\ died = "none"
       /\ \/ /\ ReaderNext \/ Peek \/ PopLock \/ Pop \/ LoopStops \/ Rest
             /\ UNCHANGED <<luaVars, died>>
          \/ Run /\ RunOnce(Head(hand))
    \/ died # "none" /\ UNCHANGED engineVars

EngineSpec == EngineInit /\ [][EngineNext]_engineVars
-----------------------------------------------------------------------------
\* Every variable has its type; what stays on the stack are errors, and tables
\* testlua1 left in their place (engine.cpp:183-265).
EngineTypeOK ==
    /\ stack \in Seq({"error", "table"})
    /\ manager \in {"table", "bare", "other"} /\ checker \in BOOLEAN
    /\ died \in {"none", "stoi", "write", "panic"}
    /\ failed \in Nat
    /\ callee \in Values \X Values

\* Whatever commands are run in whatever order, the stack grows only by the
\* error of a call of Check that failed, one value for each until the next
\* reload: testlua1 clears what it pushed although it removes the bottom of the
\* stack where it means the table (engine.cpp:217-248, 273-326).
StackLedger == Len(stack) = failed

\* And what it calls is Check with the table as self, also when errors of
\* earlier calls lie below (engine.cpp:224-236).
CallsCheck == callee = <<"function", "table">>
=============================================================================
