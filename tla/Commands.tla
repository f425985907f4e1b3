------------------------------ MODULE Commands ------------------------------
(***************************************************************************)
(* The commands of src/core/acore_ui.c: modules in the list core_ui, each  *)
(* with a list of commands, to which input is dispatched.  A module comes  *)
(* with its first command and is freed with its last one.  core_ui is      *)
(* changed under ui_lock and the list of a module under that module's      *)
(* lock, but core_ui is searched, and a list is asked whether it is empty, *)
(* without a lock; and a command runs after the lock is released.  It may  *)
(* call in again, so that every thread has a stack of calls.               *)
(***************************************************************************)
EXTENDS AcoreList, FiniteSets

CONSTANTS
    Thread,
    Name,           \* the names of the modules beside core
    Command,        \* the commands beside help, each registered once at most
    Elem,           \* the ui_elements that are ever made beside the first
    core, help,     \* the first module, a name and an element; its command
    None,           \* the end of a list, a NULL
    MaxCalls,       \* bound: the calls that are ever started
    MaxDepth,       \* bound: the calls nested in one another
    OneWriter,      \* one call at a time registers or unregisters
    Quiescent       \* none unregisters while others dispatch, or after closing

ASSUME CommandsAssumption ==
    /\ core \notin Name \cup Elem /\ help \notin Command /\ IsFiniteSet(Command)
    /\ (Name \cup {core}) \cap (Command \cup {help}) = {}
    /\ None \notin Name \cup Elem \cup Command \cup {core, help}
    /\ {MaxCalls, MaxDepth} \subseteq Nat
    /\ {OneWriter, Quiescent} \subseteq BOOLEAN

Module == Name \cup {core}
Node   == Elem \cup {core}
Entry  == Command \cup {help}
(* The arguments ele and ele_count of a call: one or two commands. *)
Array  == {<<a>> : a \in Command} \cup {<<a, b>> : a, b \in Command}

VARIABLES
    core_ui,    \* the elements of the modules
    name,       \* the name of each element, None before it is made
    freed,      \* the elements whose pool is released
    func_list,  \* the commands of each element
    parrent,    \* the element of each command, or None
    used,       \* the commands that were ever registered
    cleared,    \* how often each command's clear call-back has run
    stack,      \* the calls each thread is in, the innermost one last
    calls,      \* the calls that were started
    up          \* between acore_init and acore_close

modules  == <<core_ui, name, freed>>
commands == <<func_list, parrent, used, cleared>>
vars     == <<modules, commands, stack, calls, up>>

(* A call: what it does and where it stands; the module that is named; the *)
(* element; the command that is named, or the cursor of help; the lines    *)
(* that help has to print; the commands still to be taken out or added;    *)
(* and, for input, where the command was registered when it came in.       *)
Call(op, at, m, c, rest) ==
    [op |-> op, at |-> at, m |-> m, e |-> None, c |-> c, n |-> 0, rest |-> rest,
     was |-> None]

Top(t) == Last(stack[t])
IsAt(t, op, at) == stack[t] # <<>> /\ Top(t).op = op /\ Top(t).at = at

Push(t, f) == stack' = [stack EXCEPT ![t] = Append(@, f)]
Pop(t)     == stack' = [stack EXCEPT ![t] = Front(@)]
Become(t, f) == stack' = [stack EXCEPT ![t] = ReplaceAt(@, Len(@), f)]

FramesOf(t) == {stack[t][i] : i \in DOMAIN stack[t]}
Frames  == UNION {FramesOf(t) : t \in Thread}
Writers == {f \in Frames : f.op \in {"register", "unregister"}}
Pending == UNION {ToSet(f.rest) : f \in Writers}

(* A thread starts a call from its own code or from a command. *)
MayCall(t) ==
    /\ calls < MaxCalls
    /\ Len(stack[t]) < MaxDepth
    /\ stack[t] = <<>> \/ IsAt(t, "input", "handler")

Started == calls' = calls + 1

(* After _acore_ui_init: core with its commands, of which help is here. *)
Init ==
    /\ core_ui = <<core>>
    /\ name = [x \in Node |-> IF x = core THEN core ELSE None]
    /\ freed = {}
    /\ func_list = [x \in Node |-> IF x = core THEN <<help>> ELSE <<>>]
    /\ parrent = [c \in Entry |-> IF c = help THEN core ELSE None]
    /\ used = {help}
    /\ cleared = [c \in Entry |-> 0]
    /\ stack = [t \in Thread |-> <<>>]
    /\ calls = 0
    /\ up = TRUE

-----------------------------------------------------------------------------
(* Faulty variants. *)

AddModuleFirst(x) == <<x>> \o core_ui

MustDropAlways(x) == TRUE

-----------------------------------------------------------------------------
(* acore_list_add to core_ui, which has no order: behind the first. *)
AddModule(x) == AddUnsorted(core_ui, x)

(* find_ele over core_ui *)
ModuleNamed(m) == Search(core_ui, {x \in Node : name[x] = m}, None)

(* What unregistering asks before it removes the module. *)
MustDrop(x) == func_list[x] = <<>>

(* acore_list_destroy of the lists of some elements, by ui_clear. *)
ClearedWith(X) ==
    [c \in Entry |-> IF \E x \in X : Contains(func_list[x], c)
                     THEN cleared[c] + 1 ELSE cleared[c]]
EmptiedOf(X) == [x \in Node |-> IF x \in X THEN <<>> ELSE func_list[x]]

-----------------------------------------------------------------------------
(* acore_ui_register_command: ele and ele_count are the array s. *)
StartRegister(t, m, s) ==
    /\ up /\ MayCall(t)
    /\ OneWriter => Writers = {}
    /\ IsInjective(s) /\ ToSet(s) \cap (used \cup Pending) = {}
    /\ Push(t, Call("register", "find", m, None, s))
    /\ Started
    /\ UNCHANGED <<modules, commands, up>>

(* The module is sought without a lock, ... *)
FindForRegister(t) ==
    /\ IsAt(t, "register", "find")
    /\ LET x == ModuleNamed(Top(t).m)
       IN  Become(t, [Top(t) EXCEPT !.e = x, !.at = IF x = None THEN "create" ELSE "add"])
    /\ UNCHANGED <<modules, commands, calls, up>>

(* ... made when it was not there, ... *)
CreateModule(t) ==
    /\ IsAt(t, "register", "create")
    /\ \E x \in Elem :
         /\ name[x] = None
         /\ name' = [name EXCEPT ![x] = Top(t).m]
         /\ core_ui' = AddModule(x)
         /\ Become(t, [Top(t) EXCEPT !.e = x, !.at = "add"])
    /\ UNCHANGED <<freed, commands, calls, up>>

(* ... and the commands are added under its lock. *)
AddCommands(t) ==
    /\ IsAt(t, "register", "add")
    /\ LET x == Top(t).e
           s == Top(t).rest
       IN  /\ func_list' = [func_list EXCEPT ![x] = FoldLeft(AddUnsorted, @, s)]
           /\ parrent' = [c \in Entry |-> IF Contains(s, c) THEN x ELSE parrent[c]]
           /\ used' = used \cup ToSet(s)
    /\ Pop(t)
    /\ UNCHANGED <<modules, cleared, calls, up>>

-----------------------------------------------------------------------------
(* acore_ui_unregister_command, of commands that are registered. *)
StartUnregister(t, s) ==
    /\ MayCall(t)
    /\ OneWriter => Writers = {}
    /\ Quiescent => /\ up
                    /\ \A u \in Thread \ {t} : stack[u] = <<>>
    /\ IsInjective(s) /\ ToSet(s) \cap Pending = {}
    /\ \A c \in ToSet(s) : parrent[c] # None
    /\ Push(t, Call("unregister", "take", None, None, s))
    /\ Started
    /\ UNCHANGED <<modules, commands, up>>

(* The next command of the array is taken out and cleared under the lock   *)
(* of its module, ...                                                      *)
TakeOut(t) ==
    /\ IsAt(t, "unregister", "take")
    /\ LET c == Head(Top(t).rest)
           x == parrent[c]
       IN  /\ cleared[c] < 2
           /\ parrent' = [parrent EXCEPT ![c] = None]
           /\ func_list' = [func_list EXCEPT ![x] = Erase(@, c)]
           /\ cleared' = [cleared EXCEPT ![c] = @ + 1]
           /\ Become(t, [Top(t) EXCEPT !.e = x, !.rest = Tail(@), !.at = "test"])
    /\ UNCHANGED <<modules, used, calls, up>>

Continue(t) ==
    IF Top(t).rest = <<>> THEN Pop(t) ELSE Become(t, [Top(t) EXCEPT !.at = "take"])

(* ... the list is asked without the lock whether it is empty, ...         *)
TestEmpty(t) ==
    /\ IsAt(t, "unregister", "test")
    /\ IF MustDrop(Top(t).e) THEN Become(t, [Top(t) EXCEPT !.at = "drop"]) ELSE Continue(t)
    /\ UNCHANGED <<modules, commands, calls, up>>

(* ... and the module removed under ui_lock: ui_clear clears the commands  *)
(* that it has and releases its pool.                                      *)
DropModule(t) ==
    /\ IsAt(t, "unregister", "drop")
    /\ LET x == Top(t).e
       IN  /\ core_ui' = Erase(core_ui, x)
           /\ freed' = freed \cup {x}
           /\ cleared' = ClearedWith({x})
           /\ func_list' = EmptiedOf({x})
    /\ Continue(t)
    /\ UNCHANGED <<name, parrent, used, calls, up>>

(* _acore_ui_close, in acore_close. *)
CloseUi ==
    /\ up /\ Frames = {}
    /\ up' = FALSE
    /\ core_ui' = <<>>
    /\ freed' = freed \cup ToSet(core_ui)
    /\ cleared' = ClearedWith(ToSet(core_ui))
    /\ func_list' = EmptiedOf(ToSet(core_ui))
    /\ UNCHANGED <<name, parrent, used, stack, calls>>

-----------------------------------------------------------------------------
(* Where the command of an input is registered, if it is. *)
Home(m, c) ==
    IF m \in Entry /\ parrent[m] = core THEN core
    ELSE IF c # None /\ parrent[c] # None /\ name[parrent[c]] = m THEN parrent[c]
    ELSE None

(* acore_ui_input: a first word, and a second one or None. *)
StartInput(t, m, c) ==
    /\ up /\ MayCall(t)
    /\ Quiescent => \A f \in Writers : f.op = "register"
    /\ Push(t, [Call("input", "find", m, c, <<>>) EXCEPT !.was = Home(m, c)])
    /\ Started
    /\ UNCHANGED <<modules, commands, up>>

(* A first word that names no module is a command of the first module. *)
FindForInput(t) ==
    /\ IsAt(t, "input", "find")
    /\ LET x == ModuleNamed(Top(t).m)
           f == Top(t)
       IN  \/ x = None /\ Become(t, [f EXCEPT !.e = core_ui[1], !.c = f.m, !.at = "lookup"])
           \/ x # None /\ f.c # None /\ Become(t, [f EXCEPT !.e = x, !.at = "lookup"])
           \/ x # None /\ f.c = None /\ Pop(t)
    /\ UNCHANGED <<modules, commands, calls, up>>

LookUp(t) ==
    /\ IsAt(t, "input", "lookup")
    /\ IF Contains(func_list[Top(t).e], Top(t).c)
       THEN Become(t, [Top(t) EXCEPT !.at = "run"]) ELSE Pop(t)
    /\ UNCHANGED <<modules, commands, calls, up>>

(* The command runs after the lock is released. *)
RunHandler(t) ==
    /\ IsAt(t, "input", "run")
    /\ Become(t, IF Top(t).c = help
                 THEN [Top(t) EXCEPT !.at = "help", !.e = FirstOf(core_ui, None)]
                 ELSE [Top(t) EXCEPT !.at = "handler"])
    /\ UNCHANGED <<modules, commands, calls, up>>

EndHandler(t) ==
    /\ IsAt(t, "input", "handler")
    /\ Pop(t)
    /\ UNCHANGED <<modules, commands, calls, up>>

(* print_help walks the modules, and print_ui the commands of each, as     *)
(* many as it counted first; without any lock.                             *)
PrintModule(t) ==
    /\ IsAt(t, "input", "help")
    /\ LET x == Top(t).e
       IN  IF x = None THEN Pop(t)
           ELSE Become(t, [Top(t) EXCEPT !.at = "line", !.n = Len(func_list[x]),
                                         !.c = FirstOf(func_list[x], None)])
    /\ UNCHANGED <<modules, commands, calls, up>>

PrintLine(t) ==
    /\ IsAt(t, "input", "line")
    /\ LET f == Top(t)
       IN  Become(t, IF f.n = 0
                     THEN [f EXCEPT !.at = "help", !.e = NextOf(core_ui, @, None)]
                     ELSE [f EXCEPT !.n = @ - 1, !.c = NextOf(func_list[f.e], @, None)])
    /\ UNCHANGED <<modules, commands, calls, up>>

-----------------------------------------------------------------------------
Step(t) ==
    \/ FindForRegister(t) \/ CreateModule(t) \/ AddCommands(t)
    \/ TakeOut(t) \/ TestEmpty(t) \/ DropModule(t)
    \/ FindForInput(t) \/ LookUp(t) \/ RunHandler(t) \/ EndHandler(t)
    \/ PrintModule(t) \/ PrintLine(t)

Next ==
    \/ CloseUi
    \/ \E t \in Thread :
         \/ Step(t)
         \/ \E s \in Array : StartUnregister(t, s) \/ \E m \in Module : StartRegister(t, m, s)
         \/ \E m \in Module, c \in Entry \cup {None} : StartInput(t, m, c)
         \/ \E c \in Entry : StartInput(t, c, None)

Spec == Init /\ [][Next]_vars

-----------------------------------------------------------------------------
(* The shape of the state. *)
TypeOK ==
    /\ IsInjective(core_ui) /\ ToSet(core_ui) \subseteq Node
    /\ name \in [Node -> Module \cup {None}]
    /\ freed \subseteq Node
    /\ \A x \in Node : IsInjective(func_list[x]) /\ ToSet(func_list[x]) \subseteq Entry
    /\ parrent \in [Entry -> Node \cup {None}]
    /\ used \subseteq Entry
    /\ cleared \in [Entry -> 0..2]
    /\ DOMAIN stack = Thread
    /\ \A f \in Frames :
         /\ f.op \in {"register", "unregister", "input"}
         /\ f.at \in {"find", "create", "add", "take", "test", "drop", "lookup", "run",
                      "handler", "help", "line"}
         /\ f.m \in Module \cup Entry \cup {None} /\ f.e \in Node \cup {None}
         /\ f.c \in Module \cup Entry \cup {None} /\ f.was \in Node \cup {None}
         /\ f.n \in 0..Cardinality(Entry) /\ ToSet(f.rest) \subseteq Command
    /\ calls \in 0..MaxCalls
    /\ up \in BOOLEAN

(* No call touches a module that was freed or a command that was cleared:  *)
(* not the lock it takes, not the list it asks, not the handler it runs,   *)
(* not the line it prints; also when a command removes itself, its module, *)
(* or others from within its handler.  And no command is cleared twice.    *)
OnlyLiveIsUsed ==
    /\ \A f \in Frames :
         /\ f.at \in {"add", "test", "drop", "lookup", "help", "line"} => f.e \notin freed
         /\ f.at = "take" => parrent[Head(f.rest)] \notin freed
         /\ f.at = "run" => Contains(func_list[f.e], f.c)
         /\ f.at = "line" /\ f.n > 0 => Contains(func_list[f.e], f.c)
    /\ \A c \in Entry : cleared[c] <= 1

(* Input reaches every command that is registered since before it came in: *)
(* a module is there once and as long as it has commands, the command is   *)
(* in it, and the module that takes a word without a module is core.       *)
CommandsAreFound ==
    /\ TypeOK
    /\ up => /\ core_ui[1] = core
             /\ \A c \in Entry : \A x \in Node :
                  parrent[c] = x <=> Contains(core_ui, x) /\ Contains(func_list[x], c)
             /\ \A x, y \in ToSet(core_ui) : name[x] = name[y] => x = y
             /\ Writers = {} => \A x \in ToSet(core_ui) : func_list[x] # <<>>
    /\ \A f \in Frames :
         f.at = "lookup" /\ f.was # None => f.e = f.was /\ Contains(func_list[f.e], f.c)
=============================================================================
