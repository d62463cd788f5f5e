-------------------------- MODULE EventHandlerMap --------------------------
(***************************************************************************)
(* EventHandlerMap: the handlers an application under test keeps for its    *)
(* events, and Sut, through which the application raises them.              *)
(*                                                                         *)
(* A list of handlers is a ring of control blocks with a mutex of its own.  *)
(* A thread that walks along it holds the block it is at, with no lock      *)
(* while a handler runs, so handlers may add, clear and call.  A handler    *)
(* that is removed loses its element at once; its block leaves the ring     *)
(* when it is destroyed, which the last thread at it does, and has to take  *)
(* the mutex for.  In between the block is in the ring and cannot be held.  *)
(*                                                                         *)
(* A handler and its block have one number.  A list has the number of the   *)
(* first handler it was made for.                                           *)
(***************************************************************************)
EXTENDS Integers, Sequences, FiniteSets, SequencesExt

CONSTANTS Threads,
          Events,           \* keys of m_name_procs: <<name, params_type>>
          Tags,
          Skips,            \* values of skip_type_handler
          MaxHandlers,      \* handlers ever added
          MaxDepth,         \* operations of a thread inside one another
          MaxOperations     \* operations in all

TypeKey(e) == <<e[2]>>                    \* the key of m_type_procs
Keys == Events \cup {TypeKey(e) : e \in Events}
Handlers == 1 .. MaxHandlers
None == 0

ASSUME EventHandlerMapConstants ==
    /\ MaxHandlers \in Nat /\ MaxDepth \in Nat /\ MaxOperations \in Nat
    /\ Skips \subseteq BOOLEAN

\* The two maps do not share a key, and a handler has a tag: a null pointer if
\* no other.
ASSUME EventHandlerMapNames == Tags # {} /\ \A d, e \in Events : d # TypeKey(e)

VARIABLES
    owned,          \* m_sut_event_map of TestabilityAppSutBaseQt
    procs,          \* m_name_procs and m_type_procs: the list of a key
    m_lock,         \* the thread that has EventHandlerMap::m_lock
    ring,           \* the blocks of a list, from the first one on
    element,        \* the handlers that are not removed
    tag, skip,      \* of a handler
    born,           \* handlers added so far
    stack,          \* the operations a thread is in, the innermost one last
    spent,          \* operations begun so far
    gone            \* handlers whose removal has returned: only for the properties

vars == <<owned, procs, m_lock, ring, element, tag, skip, born, stack, spent, gone>>
table == <<procs, ring, element>>
attributes == <<tag, skip, born>>

-----------------------------------------------------------------------------
(* Operations of a thread                                                  *)

\* An operation; el is the block the thread is at and dying the one it has to
\* unlink.  The last four are only for the properties.
Frame(op, key, tg) ==
    [op |-> op, key |-> key, tag |-> tg, skip |-> FALSE, pc |-> "lock", todo |-> {},
     list |-> None, name_list |-> None, type_list |-> None, call_type_handler |-> FALSE,
     el |-> None, dying |-> None, after |-> "lock",
     called |-> <<>>, present |-> {}, barred |-> {}, cut |-> FALSE]

Top(t) == Last(stack[t])
At(t, pc) == stack[t] # <<>> /\ Top(t).pc = pc
SetTop(t, f) == stack' = [stack EXCEPT ![t][Len(stack[t])] = f]
Pop(t) == [stack EXCEPT ![t] = Front(@)]

Frames(s) == UNION {Range(s[t]) : t \in Threads}

\* The map lives while the application or an operation has a shared_ptr to it.
MapAlive == owned \/ \E t \in Threads : stack[t] # <<>>

\* A thread begins an operation, at rest or in a handler it runs; without a
\* map it does nothing.
Begin(t, f) ==
    /\ MapAlive /\ Len(stack[t]) < MaxDepth /\ spent < MaxOperations
    /\ stack[t] = <<>> \/ At(t, "invoke")
    /\ stack' = [stack EXCEPT ![t] = Append(@, f)]
    /\ spent' = spent + 1

-----------------------------------------------------------------------------
(* The list                                                                *)

Live(l) == {b \in Range(ring[l]) : b \in element}

\* The block has an owner: its handler, unless it is removed, or a thread.
Held(b, s) == b \in element \/ \E f \in Frames(s) : f.el = b

\* next->curr.lock() of the block after b, or of the first one.
LockBlock(b, s) == IF b # None /\ Held(b, s) THEN b ELSE None

Linked(l, b) == b \in Range(ring[l])

\* The next pointer of a block: the base is None, and a block that is not in
\* the ring points to itself.
NextPointer(l, b) ==
    IF ~Linked(l, b) THEN b
    ELSE LET i == CHOOSE j \in DOMAIN ring[l] : ring[l][j] = b
         IN  IF i = Len(ring[l]) THEN None ELSE ring[l][i + 1]

FirstPointer(l) == IF ring[l] = <<>> THEN None ELSE ring[l][1]

\* Variant: AddAfter_Locked, which PushFront uses.
AddBefore_Front(blocks, b) == <<b>> \o blocks

\* AddBefore_Locked of the base: the block becomes the last one.
AddBefore(blocks, b) == Append(blocks, b)

\* PushBack, with a fresh block.
PushBack(l, b) == ring' = [ring EXCEPT ![l] = AddBefore(@, b)]

\* A list nobody owns any more is destroyed with the handlers in it.
Owned(l, p, s) ==
    l \in Range(p) \/ \E f \in Frames(s) : l \in {f.list, f.name_list, f.type_list}

DestroyLists(p, s) ==
    LET lost == {l \in Handlers : ring[l] # <<>> /\ ~Owned(l, p, s)}
    IN  /\ ring' = [l \in Handlers |-> IF l \in lost THEN <<>> ELSE ring[l]]
        /\ element' = element \ UNION {Range(ring[l]) : l \in lost}

Init ==
    /\ owned = TRUE
    /\ procs = [k \in Keys |-> None] /\ m_lock = {}
    /\ ring = [l \in Handlers |-> <<>>] /\ element = {}
    /\ tag = [b \in Handlers |-> CHOOSE g \in Tags : TRUE] /\ skip = [b \in Handlers |-> FALSE]
    /\ born = 0
    /\ stack = [t \in Threads |-> <<>>] /\ spent = 0 /\ gone = {}

-----------------------------------------------------------------------------
(* Adding and clearing                                                     *)

\* std::unique_lock<std::mutex> lock(m_lock).
Lockable == m_lock = {}

\* AddHandler, AddHandlerName, AddHandlerType.
BeginAdd(t, k, g, s) ==
    /\ born + Cardinality({u \in Threads : At(u, "lock") /\ Top(u).op = "add"}) < MaxHandlers
    /\ Begin(t, [Frame("add", k, g) EXCEPT !.skip = s])
    /\ UNCHANGED <<owned, m_lock, table, attributes, gone>>

\* AddHandlerProc: the list of the key is found or made.
AddHandlerProc(t) ==
    LET f == Top(t)
        b == born + 1
        l == IF procs[f.key] # None THEN procs[f.key] ELSE b
    IN  /\ At(t, "lock") /\ f.op = "add" /\ Lockable /\ b \in Handlers
        /\ born' = b /\ tag' = [tag EXCEPT ![b] = f.tag] /\ skip' = [skip EXCEPT ![b] = f.skip]
        /\ procs' = [procs EXCEPT ![f.key] = l]
        /\ PushBack(l, b) /\ element' = element \cup {b}
        /\ SetTop(t, [f EXCEPT !.pc = "done"])
        /\ UNCHANGED <<owned, m_lock, spent, gone>>

\* ClearHandlerName takes no lock: while another thread has it the two
\* accesses race, and what the program does is undefined.
ClearHandlerName(t, k) ==
    /\ m_lock = {} /\ MapAlive /\ procs[k] # None /\ spent < MaxOperations
    /\ stack[t] = <<>> \/ At(t, "invoke")
    /\ procs' = [procs EXCEPT ![k] = None]
    /\ DestroyLists(procs', stack)
    /\ gone' = gone \cup Live(procs[k])
    /\ spent' = spent + 1
    /\ UNCHANGED <<owned, m_lock, attributes, stack>>

BeginClear(t, g) ==
    /\ Begin(t, Frame("clear", <<>>, g))
    /\ UNCHANGED <<owned, m_lock, table, attributes, gone>>

\* Where a clear may go on that has the lists of todo left: at a list of the
\* two maps, the names before the types, or at the end.  Within a map it goes
\* by the order of the keys, which is left open here.
NextKey(f, todo) ==
    LET used == {k \in todo : procs[k] # None}
        next == IF used \cap Events # {} THEN used \cap Events ELSE used
    IN  IF used = {} THEN {[f EXCEPT !.pc = "done", !.todo = {}, !.el = None]}
        ELSE {[f EXCEPT !.pc = "front", !.key = k, !.todo = used \ {k}, !.list = procs[k], !.el = None] : k \in next}

\* Variant: only the handlers by name.
ClearKeys_Names == Events

ClearKeys == Keys

\* ClearHandlersWithTag takes m_lock and keeps it to the end.
ClearHandlersWithTag(t) ==
    LET f == Top(t)
    IN  /\ At(t, "lock") /\ f.op = "clear" /\ Lockable
        /\ m_lock' = m_lock \cup {t}
        /\ \E g \in NextKey([f EXCEPT !.present = {b \in 1 .. born : tag[b] = f.tag}], ClearKeys) : SetTop(t, g)
        /\ UNCHANGED <<owned, table, attributes, spent, gone>>

-----------------------------------------------------------------------------
(* Calling                                                                 *)

\* EventProc, EventName, RegisterObject, UnregisterObject.
BeginCall(t, e) ==
    /\ Begin(t, Frame("call", e, CHOOSE g \in Tags : TRUE))
    /\ UNCHANGED <<owned, m_lock, table, attributes, gone>>

\* Variant: the lock is kept while the handlers run.
LookupLock_Kept(t) == m_lock' = {t}

\* lock.unlock(), before a handler is run.
LookupLock(t) == m_lock' = m_lock

LiveOf(l) == IF l = None THEN {} ELSE Live(l)

\* CallName: both lists are looked up.
CallName(t) ==
    LET f == Top(t)
        name == procs[f.key]
        type == procs[TypeKey(f.key)]
        g == [f EXCEPT !.name_list = name, !.type_list = type, !.call_type_handler = (name = None),
                       !.present = LiveOf(name) \cup LiveOf(type), !.barred = gone]
    IN  /\ At(t, "lock") /\ f.op = "call" /\ Lockable
        /\ LookupLock(t)
        /\ SetTop(t, CASE name # None -> [g EXCEPT !.list = name, !.pc = "front"]
                       [] name = None /\ type # None -> [g EXCEPT !.list = type, !.pc = "front"]
                       [] OTHER -> [g EXCEPT !.pc = "done"])
        /\ UNCHANGED <<owned, table, attributes, spent, gone>>

\* Where an operation goes on when it has walked to the end of a list.
LoopEnd(f) ==
    IF f.op = "clear" THEN [f EXCEPT !.pc = "erase"]
    ELSE IF f.call_type_handler /\ f.type_list \notin {None, f.list} THEN [f EXCEPT !.pc = "front", !.list = f.type_list]
    ELSE [f EXCEPT !.pc = "done"]

GoOn(f) == IF f.el = None THEN LoopEnd(f) ELSE [f EXCEPT !.pc = "element"]

\* Callers.Front(); it finds nothing also when the first block is about to be
\* unlinked by another thread.
WalkFront(t) ==
    LET f == Top(t)
        first == LockBlock(FirstPointer(f.list), stack)
    IN  /\ At(t, "front")
        /\ SetTop(t, GoOn([f EXCEPT !.el = first, !.cut = @ \/ (first # FirstPointer(f.list))]))
        /\ UNCHANGED <<owned, m_lock, table, attributes, spent, gone>>

\* GetElement: a call runs the handler, a clear removes it if it has the tag.
WalkElement(t) ==
    LET f == Top(t)
        match == f.el \in element /\ (f.op = "call" \/ tag[f.el] = f.tag)
    IN  /\ At(t, "element")
        /\ element' = IF match /\ f.op = "clear" THEN element \ {f.el} ELSE element
        /\ SetTop(t, IF match /\ f.op = "call" THEN [f EXCEPT !.pc = "invoke", !.called = Append(@, f.el)]
                     ELSE [f EXCEPT !.pc = "next"])
        /\ UNCHANGED <<owned, procs, m_lock, ring, attributes, spent, gone>>

\* call_type_handler |= !caller->skip_type_handler.
TypeHandlerWanted(f) == f.call_type_handler \/ ~skip[f.el]

HandlerReturns(t) ==
    LET f == Top(t)
    IN  /\ At(t, "invoke")
        /\ SetTop(t, [f EXCEPT !.pc = "next", !.call_type_handler = TypeHandlerWanted(f)])
        /\ UNCHANGED <<owned, m_lock, table, attributes, spent, gone>>

\* The thread lets go of a block, and has to unlink it if nobody else holds it.
Release(t, f) ==
    LET old == Top(t).el
        s == [stack EXCEPT ![t][Len(stack[t])] = f]
    IN  IF Held(old, s) THEN SetTop(t, f)
        ELSE SetTop(t, [f EXCEPT !.dying = old, !.pc = "unlink", !.after = f.pc])

\* el = callers.GetNext(el).
WalkNext(t) ==
    LET f == Top(t)
        pointer == NextPointer(f.list, f.el)
        next == LockBlock(pointer, stack)
    IN  /\ At(t, "next")
        /\ Release(t, GoOn([f EXCEPT !.el = next, !.cut = @ \/ (next # pointer)]))
        /\ UNCHANGED <<owned, m_lock, table, attributes, spent, gone>>

\* RemoveFromList_Locked.
Unlinked(blocks, b) ==
    IF b \notin Range(blocks) THEN blocks
    ELSE LET i == CHOOSE j \in DOMAIN blocks : blocks[j] = b
         IN  [j \in 1 .. Len(blocks) - 1 |-> IF j < i THEN blocks[j] ELSE blocks[j + 1]]

\* ~CtrlBlock, once it has the lock of the list.
Unlink(t) ==
    LET f == Top(t)
    IN  /\ At(t, "unlink")
        /\ ring' = [l \in Handlers |-> Unlinked(ring[l], f.dying)]
        /\ SetTop(t, [f EXCEPT !.dying = None, !.pc = f.after])
        /\ UNCHANGED <<owned, procs, m_lock, element, attributes, spent, gone>>

\* Variant: the list is erased once it is walked through.
Emptied_Always(first) == TRUE

\* if( !callers.Front() ).
Emptied(first) == first = None

\* A list is erased from its map when it has become empty.
EraseEmpty(t) ==
    LET f == Top(t)
        first == LockBlock(FirstPointer(f.list), stack)
        rest == NextKey([f EXCEPT !.list = None, !.cut = @ \/ Live(f.list) # {}], f.todo)
    IN  /\ At(t, "erase")
        /\ IF Emptied(first)
           THEN /\ procs' = [procs EXCEPT ![f.key] = None] /\ (\E g \in rest : SetTop(t, g))
                /\ DestroyLists(procs', stack')
           ELSE SetTop(t, [f EXCEPT !.el = first, !.pc = "keep"]) /\ UNCHANGED table
        /\ UNCHANGED <<owned, m_lock, attributes, spent, gone>>

\* The list is kept; the block Front() returned is let go of.
KeepList(t) ==
    LET f == Top(t)
    IN  /\ At(t, "keep")
        /\ \E g \in NextKey([f EXCEPT !.el = None, !.list = None], f.todo) : Release(t, g)
        /\ UNCHANGED <<owned, m_lock, table, attributes, spent, gone>>

\* The operation returns and lets go of the lists, the lock and the map.
Return(t) ==
    LET f == Top(t)
        rest == Pop(t)
        last == ~owned /\ \A u \in Threads : rest[u] = <<>>
    IN  /\ At(t, "done")
        /\ stack' = rest
        /\ procs' = IF last THEN [k \in Keys |-> None] ELSE procs
        /\ DestroyLists(procs', rest)
        /\ m_lock' = m_lock \ {t}
        /\ gone' = IF f.op = "clear" /\ ~f.cut THEN gone \cup f.present ELSE gone
        /\ UNCHANGED <<owned, attributes, spent>>

\* The application's Sut object is destroyed.
DropMap ==
    LET last == \A u \in Threads : stack[u] = <<>>
    IN  /\ owned /\ owned' = FALSE
        /\ procs' = IF last THEN [k \in Keys |-> None] ELSE procs
        /\ DestroyLists(procs', stack)
        /\ UNCHANGED <<m_lock, attributes, stack, spent, gone>>

Step(t) ==
    \/ AddHandlerProc(t) \/ ClearHandlersWithTag(t) \/ CallName(t)
    \/ WalkFront(t) \/ WalkElement(t) \/ HandlerReturns(t) \/ WalkNext(t) \/ Unlink(t)
    \/ EraseEmpty(t) \/ KeepList(t) \/ Return(t)

Start(t, events, tags, skips) ==
    \/ \E k \in events \cup {TypeKey(e) : e \in events}, g \in tags, s \in skips : BeginAdd(t, k, g, s)
    \/ \E e \in events : ClearHandlerName(t, e)
    \/ \E g \in tags : BeginClear(t, g)
    \/ \E e \in events : BeginCall(t, e)

Next == (\E t \in Threads : Step(t) \/ Start(t, Events, Tags, Skips)) \/ DropMap

Spec == Init /\ [][Next]_vars

\* Threads are scheduled and handlers return.
Fairness == \A t \in Threads : WF_vars(Step(t))

FairSpec == Spec /\ Fairness

-----------------------------------------------------------------------------
\* Lists, blocks and operations refer to handlers that exist.
TypeOK ==
    /\ procs \in [Keys -> Handlers \cup {None}] /\ m_lock \subseteq Threads /\ Cardinality(m_lock) < 2
    /\ ring \in [Handlers -> Seq(Handlers)] /\ element \subseteq 1 .. born /\ gone \subseteq 1 .. born
    /\ \A t \in Threads : Len(stack[t]) =< MaxDepth

\* A list only ever holds blocks that are linked in it: a thread is never at a
\* block that was destroyed, and what is to be unlinked is linked.
BlocksAreLinked ==
    \A t \in Threads : \A i \in DOMAIN stack[t] :
        LET f == stack[t][i]
        IN  /\ f.el # None => \E l \in Handlers : Linked(l, f.el) /\ Owned(l, procs, stack)
            /\ f.dying # None => ~Held(f.dying, stack) /\ \A u \in Threads : \A j \in DOMAIN stack[u] :
                                    stack[u][j].dying = f.dying => <<t, i>> = <<u, j>>

Calls == {f \in Frames(stack) : f.op = "call"}

\* The calls that are over and that no unlinking block has cut short.
Whole == {f \in Calls : f.pc = "done" /\ ~f.cut}

\* What a call runs of a list it runs in the order of the list.
InOrder(l, f) ==
    \A i, j \in DOMAIN f.called :
        i < j /\ l # None /\ Linked(l, f.called[i]) /\ Linked(l, f.called[j]) => f.called[i] < f.called[j]

\* A call runs every handler that was there when it began and still is when it
\* ends, once and in the order they were added, whatever is added and removed
\* meanwhile, by other threads and by the handlers.
CallComplete ==
    \A f \in Whole :
        /\ InOrder(f.name_list, f) /\ InOrder(f.type_list, f)
        /\ IsInjective(f.called)
        /\ LiveOf(f.name_list) \cap f.present \subseteq Range(f.called)
        /\ f.call_type_handler => LiveOf(f.type_list) \cap f.present \subseteq Range(f.called)

\* The handlers of the type are run if the name has no list, or if one of its
\* handlers that ran does not skip them.
TypeHandlersWanted ==
    \A f \in Whole :
        LET ran == Range(f.called)
            typed == LiveOf(f.type_list) \cap f.present
            asks == f.name_list = None \/ \E b \in ran : Linked(f.name_list, b) /\ ~skip[b]
        IN  /\ asks => typed \subseteq ran
            /\ (\E b \in ran : f.type_list # None /\ Linked(f.type_list, b))
                    => f.name_list = None \/ \E b \in ran : ~skip[b]

\* No handler is run by a call that looks it up after ClearHandlersWithTag or
\* ClearHandlerName has returned.
NotAfterClear == \A f \in Calls : Range(f.called) \cap f.barred = {}

Unlinking(t) == \E u \in Threads \ {t} : \E i \in DOMAIN stack[u] : stack[u][i].dying # None

\* A walk ends before the end of the list only because another thread is just
\* unlinking the next block: a thread never cuts its own walks short, with
\* whatever its handlers add, clear and call.
CutOnlyByOthers ==
    [][\A t \in Threads : \A i \in DOMAIN stack[t] \cap DOMAIN stack'[t] :
            stack'[t][i].cut /\ ~stack[t][i].cut => Unlinking(t)]_vars

Registered == UNION {LiveOf(procs[k]) : k \in Keys}

\* A handler stays registered until its name or its tag is cleared or the map
\* is destroyed, or its list is erased because the first block is being
\* unlinked by another thread.
StaysRegistered ==
    [][\A b \in Registered :
            \/ b \in Registered'
            \/ ~owned'
            \/ \E t \in Threads : At(t, "element") /\ Top(t).op = "clear" /\ Top(t).tag = tag[b] /\ Top(t).el = b
            \/ b \in gone'
            \/ \E t \in Threads : At(t, "erase") /\ Linked(Top(t).list, b) /\ Unlinking(t)]_vars

Walking(l) == \E f \in Frames(stack) : Linked(l, f.el) \/ Linked(l, f.dying)

\* When a clear is done with a list that has no handlers left, the list is
\* erased, so that its name falls back on the handlers of the type; but not
\* if a thread, the clearing one included, is walking along it.
ErasedWhenEmpty ==
    [][\A t \in Threads : At(t, "erase") /\ stack'[t] # stack[t] /\ Live(Top(t).list) = {} =>
            procs'[Top(t).key] = None \/ Walking(Top(t).list)]_vars

\* Every operation returns: no handler that adds, clears or calls waits for a
\* lock its own thread or another one keeps for ever.
OperationsReturn == \A t \in Threads : stack[t] # <<>> ~> stack[t] = <<>>

\* A call that is not cut short runs the right handlers, along blocks that are
\* there (CallName, GetNext), while lists change under it.
WalksComplete == TypeOK /\ BlocksAreLinked /\ CallComplete /\ TypeHandlersWanted

\* Handlers are passed over or dropped only in the window in which another thread
\* unlinks a block, and a list goes when it is empty.
ListsKept == CutOnlyByOthers /\ StaysRegistered /\ ErasedWhenEmpty
=============================================================================
