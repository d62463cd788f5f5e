----------------------------- MODULE Sut_proofs -----------------------------
(***************************************************************************)
(* The application under test.  The invariants and the action properties of *)
(* EventHandlerMap, its handlers, for any threads, events and tags and any  *)
(* bounds; then the invariants of SutClient, its connection, for every      *)
(* bound on timers and requests.                                            *)
(***************************************************************************)
EXTENDS EventHandlerMap, SutClient, FiniteSetTheorems, TLAPS

\* Where an operation is, or will be once it has unlinked a block.
Place(f) == IF f.pc = "unlink" THEN f.after ELSE f.pc

Pcs == {"lock", "front", "element", "invoke", "next", "unlink", "erase", "keep", "done"}
Lists == Handlers \cup {None}

FrameTypes ==
    [op : {"add", "clear", "call"}, key : Keys \cup {<<>>}, tag : Tags, skip : BOOLEAN, pc : Pcs,
     todo : SUBSET Keys, list : Lists, name_list : Lists, type_list : Lists, call_type_handler : BOOLEAN,
     el : Lists, dying : Lists, after : Pcs,
     called : Seq(Handlers), present : SUBSET Handlers, barred : SUBSET Handlers, cut : BOOLEAN]

Types ==
    /\ procs \in [Keys -> Lists] /\ ring \in [Handlers -> Seq(Handlers)]
    /\ born \in Nat /\ element \subseteq 1 .. born /\ gone \subseteq 1 .. born /\ 1 .. born \subseteq Handlers
    /\ tag \in [Handlers -> Tags] /\ skip \in [Handlers -> BOOLEAN]
    /\ stack \in [Threads -> Seq(FrameTypes)]
    /\ m_lock = {} \/ \E t \in Threads : m_lock = {t}

\* What an operation has of its own, at each place.
Shape(f) ==
    /\ f.op = "add" => f.key \in Keys /\ f.pc \in {"lock", "done"} /\ f.list = None
    /\ f.op = "call" => f.key \in Events /\ Place(f) \notin {"erase", "keep"}
    /\ f.op = "clear" => f.pc # "invoke" /\ (Place(f) = "done" => f.list = None)
    /\ f.op # "call" => f.name_list = None /\ f.type_list = None /\ f.called = <<>> /\ f.barred = {}
    /\ f.pc = "lock" => f.list = None /\ f.name_list = None /\ f.type_list = None /\ f.called = <<>>
    /\ f.pc = "unlink" => f.dying # None /\ f.after \in {"front", "element", "erase", "done"}
    /\ f.pc # "unlink" => f.dying = None
    /\ Place(f) \in {"lock", "front", "erase", "done"} => f.el = None
    /\ Place(f) \in {"element", "invoke", "next", "keep"} => f.el # None
    /\ Place(f) \in {"front", "element", "invoke", "next", "erase", "keep"} => f.list # None
    /\ f.op = "call" /\ f.list # None => f.list \in {f.name_list, f.type_list}
    /\ f.name_list # None => f.name_list # f.type_list
    /\ f.pc = "invoke" => f.called # <<>> /\ f.el = Last(f.called)

\* The handlers and lists an operation knows exist.
Known(f) ==
    /\ f.list =< born /\ f.name_list =< born /\ f.type_list =< born /\ f.dying =< born
    /\ f.present \subseteq 1 .. born /\ f.barred \subseteq 1 .. born /\ Range(f.called) \subseteq 1 .. born

\* All operations of a thread but the innermost one run a handler.
OthersInvoke == \A t \in Threads : \A i \in DOMAIN stack[t] : i < Len(stack[t]) => stack[t][i].pc = "invoke"

\* Lists are in the order the handlers were added, and a block is in one list,
\* which is the list of one key.
Rings ==
    /\ \A l \in Handlers : \A i, j \in DOMAIN ring[l] : i < j => ring[l][i] < ring[l][j]
    /\ \A l \in Handlers : \A b \in Range(ring[l]) : l =< born /\ b =< born
    /\ \A l, m \in Handlers : \A b \in Range(ring[l]) : b \in Range(ring[m]) => l = m
    /\ \A k \in Keys : procs[k] =< born
    /\ \A j, k \in Keys : procs[j] = procs[k] /\ procs[j] # None => j = k

\* A thread is at a block of its list; a block that nobody holds is about to
\* be unlinked by one thread.
Blocks ==
    /\ \A f \in Frames(stack) : f.el # None => Linked(f.list, f.el)
    /\ \A f \in Frames(stack) : f.dying # None => ~Held(f.dying, stack)
    /\ \A t, u \in Threads : \A i \in DOMAIN stack[t], j \in DOMAIN stack[u] :
          stack[t][i].dying # None /\ stack[t][i].dying = stack[u][j].dying => t = u /\ i = j
    /\ \A l \in Handlers : \A b \in Range(ring[l]) : Held(b, stack) \/ \E f \in Frames(stack) : f.dying = b

\* What a walk has behind it.
Passed(f, b) ==
    \/ Place(f) = "element" /\ b < f.el
    \/ Place(f) \in {"invoke", "next"} /\ b =< f.el
    \/ Place(f) \in {"erase", "keep", "done"}

\* A handler in list l that was there at the start and still is.
Left(l, f) == {b \in f.present : b \in element /\ l # None /\ Linked(l, b)}

\* A walk has dealt with what it has behind it.
Walked(f) == ~f.cut => \A b \in Left(f.list, f) : Passed(f, b) => b \in Range(f.called)

CallOrder(f) ==
    /\ InOrder(f.name_list, f) /\ InOrder(f.type_list, f)
    /\ \A i, j \in DOMAIN f.called : f.called[i] = f.called[j] => i = j
    /\ \A b \in Range(f.called) : f.list # None /\ Linked(f.list, b) => Passed(f, b)
    /\ f.list # f.type_list => \A b \in Range(f.called) : f.type_list # None => ~Linked(f.type_list, b)

CallWhole(f) ==
    /\ ~f.cut /\ (f.list = f.type_list \/ Place(f) = "done") => Left(f.name_list, f) \subseteq Range(f.called)
    /\ ~f.cut /\ f.call_type_handler /\ Place(f) = "done" => Left(f.type_list, f) \subseteq Range(f.called)

CallTypes(f) ==
    /\ f.name_list = None => f.call_type_handler
    /\ \A i \in DOMAIN f.called : (f.pc # "invoke" \/ i < Len(f.called)) /\ ~skip[f.called[i]] => f.call_type_handler
    /\ f.list # None /\ f.list = f.type_list => f.call_type_handler
    /\ f.call_type_handler => f.name_list = None \/ \E b \in Range(f.called) : ~skip[b]

CallBarred(f) ==
    /\ \A b \in f.barred : b \in element /\ f.name_list # None => ~Linked(f.name_list, b)
    /\ \A b \in f.barred : b \in element /\ f.type_list # None => ~Linked(f.type_list, b)
    /\ Range(f.called) \cap f.barred = {}

CallOK(f) == CallOrder(f) /\ CallWhole(f) /\ CallTypes(f) /\ CallBarred(f)

\* A clear has the lock, and the lists it has behind it are clear of the tag.
ClearOK(f) ==
    /\ \A b \in f.present : tag[b] = f.tag
    /\ Place(f) # "done" => f.key \in Keys \ f.todo /\ procs[f.key] = f.list
    /\ ~f.cut => \A k \in Keys : procs[k] # None /\ k \notin f.todo /\ (k = f.key => Place(f) = "done") =>
                    Left(procs[k], f) = {}
    /\ Place(f) = "done" => f.todo = {}

Walks ==
    \A f \in Frames(stack) : f.pc # "lock" =>
        /\ Walked(f)
        /\ f.op = "call" => CallOK(f)
        /\ f.op = "clear" => ClearOK(f)

LockKept == \A t \in Threads : \A i \in DOMAIN stack[t] :
    stack[t][i].op = "clear" /\ stack[t][i].pc # "lock" => m_lock = {t}

\* Handlers whose removal has returned are not registered.
GoneOK == \A b \in gone : \A k \in Keys : b \in element /\ procs[k] # None => ~Linked(procs[k], b)

FramesOK == \A f \in Frames(stack) : Shape(f) /\ Known(f)

\* The inductive invariant.
IInv ==
    /\ Types /\ FramesOK /\ OthersInvoke /\ Rings /\ Blocks /\ Walks /\ LockKept /\ GoneOK

-----------------------------------------------------------------------------
(* Stacks                                                                  *)

\* What a thread does to the stacks.
TopSet(s, r, t, g) == r = [s EXCEPT ![t][Len(s[t])] = g]
PushedOn(s, r, t, g) == r = [s EXCEPT ![t] = Append(@, g)]
PoppedOff(s, r, t) == r = [s EXCEPT ![t] = Front(@)]

\* The operations in a stack.
LEMMA FramesAre ==
  ASSUME NEW s
  PROVE  \A f : f \in Frames(s) <=> \E u \in Threads : \E i \in DOMAIN s[u] : f = s[u][i]
  <1> TAKE f
  <1>1. f \in Frames(s) <=> \E u \in Threads : f \in Range(s[u])
    BY SMT DEF Frames
  <1>2. ASSUME NEW u \in Threads PROVE f \in Range(s[u]) <=> \E i \in DOMAIN s[u] : f = s[u][i]
    BY SMT DEF Range
  <1> QED
    BY <1>1, <1>2, Zenon

\* They are typed.
LEMMA FramesIn ==
  ASSUME NEW S, NEW s \in [Threads -> Seq(S)]
  PROVE  /\ \A u \in Threads : \A i \in DOMAIN s[u] : s[u][i] \in Frames(s) /\ s[u][i] \in S
         /\ Frames(s) \subseteq S
  <1>1. \A f : f \in Frames(s) <=> \E u \in Threads : \E i \in DOMAIN s[u] : f = s[u][i]
    BY FramesAre, Zenon
  <1>2. \A u \in Threads : \A i \in DOMAIN s[u] : s[u][i] \in S
    <2> TAKE u \in Threads
    <2>1. s[u] \in Seq(S)
      OBVIOUS
    <2> QED
      BY <2>1
  <1>3. Frames(s) \subseteq S
    BY <1>1, <1>2
  <1>4. \A u \in Threads : \A i \in DOMAIN s[u] : s[u][i] \in Frames(s)
    BY <1>1, Zenon
  <1> QED
    BY <1>1, <1>2, <1>3, <1>4, Zenon

\* Only the innermost operation of one thread is changed.
LEMMA TopChanged ==
  ASSUME NEW S, NEW s \in [Threads -> Seq(S)], NEW t \in Threads, s[t] # <<>>, NEW g \in S,
         NEW r, TopSet(s, r, t, g)
  PROVE  /\ r \in [Threads -> Seq(S)]
         /\ \A u \in Threads : Len(r[u]) = Len(s[u]) /\ DOMAIN r[u] = DOMAIN s[u]
         /\ Len(s[t]) \in DOMAIN s[t] /\ Last(s[t]) = s[t][Len(s[t])] /\ r[t][Len(s[t])] = g
         /\ Last(r[t]) = g
         /\ \A u \in Threads : \A i \in DOMAIN s[u] : u # t \/ i # Len(s[t]) => r[u][i] = s[u][i]
         /\ \A u \in Threads : u # t => r[u] = s[u]
         /\ r[t] # <<>>
  <1>1. s[t] \in Seq(S) /\ Len(s[t]) \in Nat /\ Len(s[t]) >= 1 /\ Len(s[t]) \in DOMAIN s[t]
    OBVIOUS
  <1>2. PICK q : q = [s[t] EXCEPT ![Len(s[t])] = g]
    OBVIOUS
  <1>3. q \in Seq(S) /\ Len(q) = Len(s[t]) /\ DOMAIN q = DOMAIN s[t] /\ q[Len(s[t])] = g
    BY <1>1, <1>2
  <1>4. \A i \in DOMAIN s[t] : i # Len(s[t]) => q[i] = s[t][i]
    BY <1>1, <1>2
  <1>5. r = [s EXCEPT ![t] = q]
    BY <1>2 DEF TopSet
  <1>6. r[t] = q /\ \A u \in Threads : u # t => r[u] = s[u]
    BY <1>5
  <1>7. r \in [Threads -> Seq(S)]
    BY <1>5, <1>3
  <1>8. Last(s[t]) = s[t][Len(s[t])] /\ Last(r[t]) = g
    BY <1>1, <1>3, <1>6 DEF Last
  <1>9. \A u \in Threads : Len(r[u]) = Len(s[u]) /\ DOMAIN r[u] = DOMAIN s[u]
    BY <1>3, <1>6
  <1>10. r[t] # <<>>
    BY <1>3, <1>1, <1>6
  <1> QED
    BY <1>1, <1>3, <1>4, <1>6, <1>7, <1>8, <1>9, <1>10

\* The operations after such a change.
LEMMA TopChangedFrames ==
  ASSUME NEW S, NEW s \in [Threads -> Seq(S)], NEW t \in Threads, s[t] # <<>>, NEW g \in S,
         NEW r, TopSet(s, r, t, g)
  PROVE  /\ Frames(r) \subseteq Frames(s) \cup {g}
         /\ Frames(s) \subseteq Frames(r) \cup {Last(s[t])}
         /\ g \in Frames(r) /\ Last(s[t]) \in Frames(s) /\ Last(s[t]) \in S
  <1>1. /\ r \in [Threads -> Seq(S)]
        /\ \A u \in Threads : DOMAIN r[u] = DOMAIN s[u]
        /\ Len(s[t]) \in DOMAIN s[t] /\ Last(s[t]) = s[t][Len(s[t])] /\ r[t][Len(s[t])] = g
        /\ \A u \in Threads : \A i \in DOMAIN s[u] : u # t \/ i # Len(s[t]) => r[u][i] = s[u][i]
    BY TopChanged
  <1>2. \A f : f \in Frames(s) <=> \E u \in Threads : \E i \in DOMAIN s[u] : f = s[u][i]
    BY FramesAre, Zenon
  <1>3. \A f : f \in Frames(r) <=> \E u \in Threads : \E i \in DOMAIN r[u] : f = r[u][i]
    BY FramesAre, Zenon
  <1>4. ASSUME NEW f \in Frames(r) PROVE f \in Frames(s) \cup {g}
    <2>1. PICK u \in Threads : \E i \in DOMAIN r[u] : f = r[u][i]
      BY <1>3, <1>4, Zenon
    <2>2. PICK i \in DOMAIN r[u] : f = r[u][i]
      BY <2>1
    <2>3. u # t \/ i # Len(s[t]) => f = s[u][i] /\ i \in DOMAIN s[u]
      BY <1>1, <2>2, Zenon
    <2>4. u = t /\ i = Len(s[t]) => f = g
      BY <1>1, <2>2, Zenon
    <2> QED
      BY <1>2, <2>3, <2>4, Zenon
  <1>5. ASSUME NEW f \in Frames(s) PROVE f \in Frames(r) \cup {Last(s[t])}
    <2>1. PICK u \in Threads : \E i \in DOMAIN s[u] : f = s[u][i]
      BY <1>2, <1>5, Zenon
    <2>2. PICK i \in DOMAIN s[u] : f = s[u][i]
      BY <2>1
    <2>3. u # t \/ i # Len(s[t]) => f = r[u][i] /\ i \in DOMAIN r[u]
      BY <1>1, <2>2, Zenon
    <2>4. u = t /\ i = Len(s[t]) => f = Last(s[t])
      BY <1>1, <2>2, Zenon
    <2> QED
      BY <1>3, <2>3, <2>4, Zenon
  <1>6. g \in Frames(r) /\ Last(s[t]) \in Frames(s)
    BY <1>1, <1>2, <1>3, Zenon
  <1> QED
    BY <1>4, <1>5, <1>6, FramesIn, Zenon

\* A thread begins an operation.
LEMMA Pushed ==
  ASSUME NEW S, NEW s \in [Threads -> Seq(S)], NEW t \in Threads, NEW g \in S,
         NEW r, PushedOn(s, r, t, g)
  PROVE  /\ r \in [Threads -> Seq(S)]
         /\ Len(r[t]) = Len(s[t]) + 1 /\ Last(r[t]) = g /\ r[t][Len(s[t]) + 1] = g
         /\ \A u \in Threads : u # t => r[u] = s[u]
         /\ \A u \in Threads : \A i \in DOMAIN s[u] : i \in DOMAIN r[u] /\ r[u][i] = s[u][i]
         /\ \A u \in Threads : \A i \in DOMAIN r[u] : i \in DOMAIN s[u] \/ (u = t /\ i = Len(s[t]) + 1)
         /\ Frames(r) = Frames(s) \cup {g}
  <1>1. s[t] \in Seq(S) /\ Len(s[t]) \in Nat /\ DOMAIN s[t] = 1 .. Len(s[t])
    OBVIOUS
  <1>2. PICK q : q = Append(s[t], g)
    OBVIOUS
  <1>3. /\ q \in Seq(S) /\ Len(q) = Len(s[t]) + 1 /\ DOMAIN q = 1 .. Len(s[t]) + 1
        /\ q[Len(s[t]) + 1] = g /\ \A i \in DOMAIN s[t] : q[i] = s[t][i]
    BY <1>1, <1>2
  <1>4. r[t] = q /\ \A u \in Threads : u # t => r[u] = s[u]
    BY <1>2 DEF PushedOn
  <1>5. r \in [Threads -> Seq(S)]
    BY <1>2, <1>3 DEF PushedOn
  <1>6. Last(r[t]) = g
    BY <1>3, <1>4 DEF Last
  <1>7. \A u \in Threads : \A i \in DOMAIN s[u] : i \in DOMAIN r[u] /\ r[u][i] = s[u][i]
    BY <1>1, <1>3, <1>4
  <1>8. \A u \in Threads : \A i \in DOMAIN r[u] : i \in DOMAIN s[u] \/ (u = t /\ i = Len(s[t]) + 1)
    BY <1>1, <1>3, <1>4
  <1>9. Len(s[t]) + 1 \in DOMAIN r[t] /\ r[t][Len(s[t]) + 1] = g
    BY <1>1, <1>3, <1>4
  <1>10. \A f : f \in Frames(s) <=> \E u \in Threads : \E i \in DOMAIN s[u] : f = s[u][i]
    BY FramesAre, Zenon
  <1>11. \A f : f \in Frames(r) <=> \E u \in Threads : \E i \in DOMAIN r[u] : f = r[u][i]
    BY FramesAre, Zenon
  <1>12. ASSUME NEW f \in Frames(r) PROVE f \in Frames(s) \cup {g}
    <2>1. PICK u \in Threads : \E i \in DOMAIN r[u] : f = r[u][i]
      BY <1>11, <1>12, Zenon
    <2>2. PICK i \in DOMAIN r[u] : f = r[u][i]
      BY <2>1
    <2>3. i \in DOMAIN s[u] => f = s[u][i]
      BY <1>7, <2>2, Zenon
    <2>4. u = t /\ i = Len(s[t]) + 1 => f = g
      BY <1>9, <2>2, Zenon
    <2> QED
      BY <1>8, <1>10, <2>3, <2>4, Zenon
  <1>13. ASSUME NEW f \in Frames(s) PROVE f \in Frames(r)
    <2>1. PICK u \in Threads : \E i \in DOMAIN s[u] : f = s[u][i]
      BY <1>10, <1>13, Zenon
    <2> QED
      BY <1>7, <1>11, <2>1, Zenon
  <1>14. g \in Frames(r)
    BY <1>9, <1>11, Zenon
  <1> QED
    BY <1>3, <1>4, <1>5, <1>6, <1>7, <1>8, <1>9, <1>12, <1>13, <1>14

\* A thread ends its innermost operation.
LEMMA Popped ==
  ASSUME NEW S, NEW s \in [Threads -> Seq(S)], NEW t \in Threads, s[t] # <<>>,
         NEW r, PoppedOff(s, r, t)
  PROVE  /\ r \in [Threads -> Seq(S)]
         /\ Len(r[t]) = Len(s[t]) - 1
         /\ \A u \in Threads : u # t => r[u] = s[u]
         /\ \A u \in Threads : \A i \in DOMAIN r[u] : i \in DOMAIN s[u] /\ r[u][i] = s[u][i]
         /\ \A u \in Threads : \A i \in DOMAIN s[u] : i \in DOMAIN r[u] \/ (u = t /\ i = Len(s[t]))
         /\ Len(s[t]) \in DOMAIN s[t] /\ Last(s[t]) = s[t][Len(s[t])]
         /\ Frames(r) \subseteq Frames(s) /\ Frames(s) \subseteq Frames(r) \cup {Last(s[t])}
         /\ Last(s[t]) \in Frames(s) /\ Last(s[t]) \in S
  <1>1. s[t] \in Seq(S) /\ Len(s[t]) \in Nat /\ Len(s[t]) >= 1 /\ DOMAIN s[t] = 1 .. Len(s[t])
    OBVIOUS
  <1>2. PICK q : q = Front(s[t])
    OBVIOUS
  <1>3. /\ q \in Seq(S) /\ Len(q) = Len(s[t]) - 1 /\ DOMAIN q = 1 .. Len(s[t]) - 1
        /\ \A i \in DOMAIN q : q[i] = s[t][i]
    BY <1>1, <1>2 DEF Front
  <1>4. r[t] = q /\ \A u \in Threads : u # t => r[u] = s[u]
    BY <1>2 DEF PoppedOff
  <1>5. r \in [Threads -> Seq(S)]
    BY <1>2, <1>3 DEF PoppedOff
  <1>6. Last(s[t]) = s[t][Len(s[t])] /\ Len(s[t]) \in DOMAIN s[t]
    BY <1>1 DEF Last
  <1>7. \A u \in Threads : \A i \in DOMAIN r[u] : i \in DOMAIN s[u] /\ r[u][i] = s[u][i]
    BY <1>1, <1>3, <1>4
  <1>8. \A u \in Threads : \A i \in DOMAIN s[u] : i \in DOMAIN r[u] \/ (u = t /\ i = Len(s[t]))
    BY <1>1, <1>3, <1>4
  <1>9. \A f : f \in Frames(s) <=> \E u \in Threads : \E i \in DOMAIN s[u] : f = s[u][i]
    BY FramesAre, Zenon
  <1>10. \A f : f \in Frames(r) <=> \E u \in Threads : \E i \in DOMAIN r[u] : f = r[u][i]
    BY FramesAre, Zenon
  <1>11. ASSUME NEW f \in Frames(r) PROVE f \in Frames(s)
    <2>1. PICK u \in Threads : \E i \in DOMAIN r[u] : f = r[u][i]
      BY <1>10, <1>11, Zenon
    <2> QED
      BY <1>7, <1>9, <2>1, Zenon
  <1>12. ASSUME NEW f \in Frames(s) PROVE f \in Frames(r) \cup {Last(s[t])}
    <2>1. PICK u \in Threads : \E i \in DOMAIN s[u] : f = s[u][i]
      BY <1>9, <1>12, Zenon
    <2>2. PICK i \in DOMAIN s[u] : f = s[u][i]
      BY <2>1
    <2>3. i \in DOMAIN r[u] => f = r[u][i]
      BY <1>7, <2>2, Zenon
    <2>4. u = t /\ i = Len(s[t]) => f = Last(s[t])
      BY <1>6, <2>2, Zenon
    <2> QED
      BY <1>8, <1>10, <2>3, <2>4, <2>2, Zenon
  <1>13. Last(s[t]) \in Frames(s) /\ Last(s[t]) \in S
    BY <1>6, <1>9, FramesIn, Zenon
  <1> QED
    BY <1>3, <1>4, <1>5, <1>6, <1>7, <1>8, <1>11, <1>12, <1>13

-----------------------------------------------------------------------------
(* Operations that are not changed                                         *)

\* A step that adds handlers that are new, and takes others away.
Shrinks ==
    /\ born \in Nat /\ born' \in Nat /\ born =< born'
    /\ \A b \in 1 .. born : b \in element' => b \in element
    /\ \A l \in Handlers : \A b \in 1 .. born : b \in Range(ring'[l]) => b \in Range(ring[l])
    /\ \A b \in 1 .. born : tag'[b] = tag[b] /\ skip'[b] = skip[b]

\* Some keys lose their lists.
FewerLists == \A k \in Keys : procs'[k] = procs[k] \/ procs'[k] = None

\* The fields of an operation.
LEMMA Fields ==
  ASSUME NEW f \in FrameTypes
  PROVE  /\ f.op \in {"add", "clear", "call"} /\ f.key \in Keys \cup {<<>>} /\ f.tag \in Tags
         /\ f.pc \in Pcs /\ f.after \in Pcs /\ f.todo \subseteq Keys
         /\ f.list \in Lists /\ f.name_list \in Lists /\ f.type_list \in Lists
         /\ f.el \in Lists /\ f.dying \in Lists
         /\ f.present \subseteq Handlers /\ f.barred \subseteq Handlers
  BY DEF FrameTypes

\* The handlers a frame has called are handlers.
LEMMA Called ==
  ASSUME NEW f \in FrameTypes
  PROVE  /\ f.called \in Seq(Handlers) /\ \A i \in DOMAIN f.called : f.called[i] \in Handlers /\ f.called[i] \in Range(f.called)
         /\ \A b \in Range(f.called) : b \in Handlers /\ \E i \in DOMAIN f.called : f.called[i] = b
  <1>1. f.called \in Seq(Handlers)
    BY DEF FrameTypes
  <1>2. \A i \in DOMAIN f.called : f.called[i] \in Handlers
    BY <1>1
  <1> QED
    BY <1>1, <1>2 DEF Range

\* The flags of a frame are booleans.
LEMMA Flags ==
  ASSUME NEW f \in FrameTypes
  PROVE  f.skip \in BOOLEAN /\ f.call_type_handler \in BOOLEAN /\ f.cut \in BOOLEAN
  BY Zenon DEF FrameTypes

\* What an operation knows it knows later.
LEMMA OldKnown ==
  ASSUME NEW f \in FrameTypes, born \in Nat, born' \in Nat, born =< born', Known(f)
  PROVE  Known(f)'
  <1>1. /\ f.list =< born /\ f.name_list =< born /\ f.type_list =< born /\ f.dying =< born
        /\ f.present \subseteq 1 .. born /\ f.barred \subseteq 1 .. born /\ Range(f.called) \subseteq 1 .. born
    BY DEF Known
  <1>2. 1 .. born \subseteq 1 .. born'
    OBVIOUS
  <1>3. /\ f.present \subseteq 1 .. born' /\ f.barred \subseteq 1 .. born' /\ Range(f.called) \subseteq 1 .. born'
    BY <1>1, <1>2, Zenon
  <1>4. f.list \in Int /\ f.name_list \in Int /\ f.type_list \in Int /\ f.dying \in Int
    BY Fields DEF Lists, Handlers, None
  <1>5. /\ f.list =< born' /\ f.name_list =< born' /\ f.type_list =< born' /\ f.dying =< born'
    BY <1>1, <1>4
  <1> QED
    BY <1>3, <1>5, Zenon DEF Known

\* Fewer handlers are left to it.
LEMMA OldLeft ==
  ASSUME NEW f \in FrameTypes, Shrinks, Known(f), NEW l \in Lists
  PROVE  Left(l, f)' \subseteq Left(l, f)
  <1> SUFFICES ASSUME NEW b \in f.present, b \in element', l # None, b \in Range(ring'[l])
               PROVE  b \in Left(l, f)
    BY DEF Left, Linked
  <1>1. b \in 1 .. born /\ l \in Handlers
    BY DEF Known, Lists
  <1> QED
    BY <1>1 DEF Shrinks, Left, Linked

\* A walk that saw all it had to see still has, when handlers are only taken
\* away.
LEMMA OldWalked ==
  ASSUME NEW f \in FrameTypes, Shrinks, Known(f), Walked(f)
  PROVE  Walked(f)'
  <1>1. Left(f.list, f)' \subseteq Left(f.list, f)
    BY OldLeft, Fields, Zenon
  <1> QED
    BY <1>1, Zenon DEF Walked, Passed, Place

\* The order, the end and the choice of the lists of a call.
LEMMA OldOrder ==
  ASSUME NEW f \in FrameTypes, Shrinks, Known(f), CallOrder(f)
  PROVE  CallOrder(f)'
  <1>1. \A l \in Handlers : \A b \in Range(f.called) : Linked(l, b)' => Linked(l, b)
    <2> TAKE l \in Handlers
    <2> TAKE b \in Range(f.called)
    <2>1. b \in 1 .. born
      BY DEF Known
    <2> QED
      BY <2>1, Zenon DEF Shrinks, Linked
  <1>2. f.list \in Lists /\ f.name_list \in Lists /\ f.type_list \in Lists
    BY Fields
  <1>3. \A i \in DOMAIN f.called : f.called[i] \in Range(f.called)
    BY Called
  <1>4. InOrder(f.name_list, f)'
    BY <1>1, <1>2, <1>3, Zenon DEF CallOrder, InOrder, Lists
  <1>5. InOrder(f.type_list, f)'
    BY <1>1, <1>2, <1>3, Zenon DEF CallOrder, InOrder, Lists
  <1>6. (\A b \in Range(f.called) : f.list # None /\ Linked(f.list, b) => Passed(f, b))'
    BY <1>1, <1>2, Zenon DEF CallOrder, Passed, Place, Lists
  <1>7. (f.list # f.type_list => \A b \in Range(f.called) : f.type_list # None => ~Linked(f.type_list, b))'
    BY <1>1, <1>2, Zenon DEF CallOrder, Lists
  <1>8. \A i, j \in DOMAIN f.called : f.called[i] = f.called[j] => i = j
    BY Zenon DEF CallOrder
  <1> QED
    BY <1>4, <1>5, <1>6, <1>7, <1>8, Zenon DEF CallOrder

\* So does a call that has a list behind it, or both.
LEMMA OldWhole ==
  ASSUME NEW f \in FrameTypes, Shrinks, Known(f), CallWhole(f)
  PROVE  CallWhole(f)'
  <1>1. Left(f.name_list, f)' \subseteq Left(f.name_list, f) /\ Left(f.type_list, f)' \subseteq Left(f.type_list, f)
    BY OldLeft, Fields, Zenon
  <1> QED
    BY <1>1, Zenon DEF CallWhole, Place

\* Why a call asks for the handlers of the type stays right.
LEMMA OldTypes ==
  ASSUME NEW f \in FrameTypes, Shrinks, Known(f), CallTypes(f)
  PROVE  CallTypes(f)'
  <1>1. \A b \in Range(f.called) : skip'[b] = skip[b]
    BY Zenon DEF Known, Shrinks
  <1>2. \A i \in DOMAIN f.called : f.called[i] \in Range(f.called)
    BY Called
  <1> QED
    BY <1>1, <1>2, Zenon DEF CallTypes

\* The lists a call looked up get none of the handlers gone before it.
LEMMA OldBarred ==
  ASSUME NEW f \in FrameTypes, Shrinks, Known(f), CallBarred(f)
  PROVE  CallBarred(f)'
  <1>1. f.name_list \in Lists /\ f.type_list \in Lists
    BY Fields
  <1>2. \A l \in Handlers : \A b \in f.barred : Linked(l, b)' => Linked(l, b)
    BY Zenon DEF Known, Shrinks, Linked
  <1>3. \A b \in f.barred : b \in element' => b \in element
    BY Zenon DEF Known, Shrinks
  <1> QED
    BY <1>1, <1>2, <1>3, Zenon DEF CallBarred, Lists

\* What a call has behind it stays right.
LEMMA OldCall ==
  ASSUME NEW f \in FrameTypes, Shrinks, Known(f), CallOK(f)
  PROVE  CallOK(f)'
  BY OldOrder, OldWhole, OldTypes, OldBarred, Zenon DEF CallOK

\* A clear relies on the maps as well, and on the list it is at.
LEMMA OldClear ==
  ASSUME NEW f \in FrameTypes, Shrinks, Known(f), ClearOK(f), FewerLists, procs \in [Keys -> Lists],
         Place(f) # "done" => procs'[f.key] = procs[f.key]
  PROVE  ClearOK(f)'
  <1>1. \A b \in f.present : tag'[b] = tag[b]
    BY Zenon DEF Known, Shrinks
  <1>2. \A k \in Keys : procs'[k] # None => procs'[k] = procs[k] /\ (Left(procs[k], f)' = {} \/ Left(procs[k], f) # {})
    <2> TAKE k \in Keys
    <2> HAVE procs'[k] # None
    <2>1. PICK l \in Lists : l = procs[k] /\ l = procs'[k]
      BY DEF FewerLists
    <2>2. Left(l, f)' \subseteq Left(l, f)
      BY OldLeft
    <2> QED
      BY <2>1, <2>2, Zenon DEF Left
  <1>3. (\A b \in f.present : tag[b] = f.tag)'
    BY <1>1, Zenon DEF ClearOK
  <1>4. (Place(f) # "done" => f.key \in Keys \ f.todo /\ procs[f.key] = f.list)'
    BY Zenon DEF ClearOK
  <1>5. (~f.cut => \A k \in Keys : procs[k] # None /\ k \notin f.todo /\ (k = f.key => Place(f) = "done") =>
                    Left(procs[k], f) = {})'
    BY <1>2, Zenon DEF ClearOK
  <1>6. Place(f) = "done" => f.todo = {}
    BY Zenon DEF ClearOK
  <1> QED
    BY <1>3, <1>4, <1>5, <1>6, Zenon DEF ClearOK

-----------------------------------------------------------------------------
(* A step of the innermost operation of a thread                           *)

\* The stacks before and after.
LEMMA SetTopFacts ==
  ASSUME Types, NEW t \in Threads, stack[t] # <<>>, NEW g \in FrameTypes, SetTop(t, g)
  PROVE  /\ stack' \in [Threads -> Seq(FrameTypes)]
         /\ \A u \in Threads : Len(stack'[u]) = Len(stack[u]) /\ DOMAIN stack'[u] = DOMAIN stack[u]
         /\ Len(stack[t]) \in DOMAIN stack[t] /\ Top(t) = stack[t][Len(stack[t])] /\ stack'[t][Len(stack[t])] = g
         /\ \A u \in Threads : \A i \in DOMAIN stack[u] : u # t \/ i # Len(stack[t]) => stack'[u][i] = stack[u][i]
         /\ \A u \in Threads : u # t => stack'[u] = stack[u]
         /\ stack'[t] # <<>>
  <1>1. TopSet(stack, stack', t, g) /\ stack \in [Threads -> Seq(FrameTypes)]
    BY Zenon DEF SetTop, TopSet, Types
  <1> QED
    BY <1>1, TopChanged DEF Top

\* Changing the top frame of one thread changes one frame.
LEMMA SetTopFrames ==
  ASSUME Types, NEW t \in Threads, stack[t] # <<>>, NEW g \in FrameTypes, SetTop(t, g)
  PROVE  /\ Frames(stack') \subseteq Frames(stack) \cup {g}
         /\ Frames(stack) \subseteq Frames(stack') \cup {Top(t)}
         /\ g \in Frames(stack') /\ Top(t) \in Frames(stack) /\ Top(t) \in FrameTypes
  <1>1. TopSet(stack, stack', t, g) /\ stack \in [Threads -> Seq(FrameTypes)]
    BY Zenon DEF SetTop, TopSet, Types
  <1> QED
    BY <1>1, TopChangedFrames DEF Top

\* The frames of a stack have their type.
LEMMA FramesTyped ==
  ASSUME Types
  PROVE  /\ Frames(stack) \subseteq FrameTypes
         /\ \A u \in Threads : \A i \in DOMAIN stack[u] : stack[u][i] \in Frames(stack) /\ stack[u][i] \in FrameTypes
         /\ \A u \in Threads : stack[u] \in Seq(FrameTypes)
  <1>1. stack \in [Threads -> Seq(FrameTypes)]
    BY Zenon DEF Types
  <1> QED
    BY <1>1, FramesIn

\* The top frame is a frame.
LEMMA TopIs ==
  ASSUME Types, NEW t \in Threads, stack[t] # <<>>
  PROVE  /\ Len(stack[t]) \in DOMAIN stack[t] /\ Top(t) = stack[t][Len(stack[t])]
         /\ Top(t) \in Frames(stack) /\ Top(t) \in FrameTypes
  <1>1. stack[t] \in Seq(FrameTypes)
    BY DEF Types
  <1>2. Len(stack[t]) \in DOMAIN stack[t] /\ Top(t) = stack[t][Len(stack[t])]
    BY <1>1 DEF Top, Last
  <1> QED
    BY <1>2, FramesTyped, Zenon

\* A clear that goes on is the innermost operation of the thread with the lock.
LEMMA OneClear ==
  ASSUME Types, FramesOK, OthersInvoke, LockKept,
         NEW u \in Threads, NEW i \in DOMAIN stack[u], stack[u][i].op = "clear", stack[u][i].pc # "lock"
  PROVE  m_lock = {u} /\ i = Len(stack[u])
  <1>1. m_lock = {u}
    BY Zenon DEF LockKept
  <1>2. stack[u][i].pc # "invoke"
    BY FramesTyped, Zenon DEF FramesOK, Shape
  <1>3. stack[u] \in Seq(FrameTypes)
    BY FramesTyped
  <1>4. i \in Nat /\ i =< Len(stack[u])
    BY <1>3
  <1>5. ~(i < Len(stack[u]))
    BY <1>2, Zenon DEF OthersInvoke
  <1> QED
    BY <1>1, <1>3, <1>4, <1>5

\* What other operations a clear may meet when procs changes.
LEMMA NoClear ==
  ASSUME Types, FramesOK, OthersInvoke, LockKept, m_lock = {}, NEW f \in Frames(stack)
  PROVE  f.op # "clear" \/ f.pc = "lock"
  <1>1. PICK u \in Threads : \E i \in DOMAIN stack[u] : f = stack[u][i]
    BY FramesAre
  <1>2. PICK i \in DOMAIN stack[u] : f = stack[u][i]
    BY <1>1
  <1>3. f.op = "clear" /\ f.pc # "lock" => m_lock = {u}
    BY <1>2, OneClear, Zenon
  <1> QED
    BY <1>3

\* The parts of the invariant about single operations, after a step of one.
LEMMA SetFramesOK ==
  ASSUME Types, FramesOK, NEW t \in Threads, stack[t] # <<>>, NEW g \in FrameTypes, SetTop(t, g),
         born' \in Nat, born =< born', Shape(g), Known(g)'
  PROVE  FramesOK'
  <1> SUFFICES ASSUME NEW f \in Frames(stack') PROVE Shape(f) /\ Known(f)'
    BY Zenon DEF FramesOK, Shape, Place
  <1>1. CASE f = g
    BY <1>1, Zenon
  <1>2. CASE f \in Frames(stack)
    <2>1. Shape(f) /\ Known(f) /\ f \in FrameTypes /\ born \in Nat
      BY <1>2, FramesTyped, Zenon DEF FramesOK, Types
    <2> QED
      BY <2>1, OldKnown
  <1> QED
    BY <1>1, <1>2, SetTopFrames, Zenon

\* Changing one frame leaves the other threads at their handlers.
LEMMA SetOthersInvoke ==
  ASSUME Types, OthersInvoke, NEW t \in Threads, stack[t] # <<>>, NEW g \in FrameTypes, SetTop(t, g)
  PROVE  OthersInvoke'
  <1> SUFFICES ASSUME NEW u \in Threads, NEW i \in DOMAIN stack'[u], i < Len(stack'[u])
               PROVE  stack'[u][i].pc = "invoke"
    BY Zenon DEF OthersInvoke
  <1>1. i \in DOMAIN stack[u] /\ Len(stack'[u]) = Len(stack[u]) /\ i < Len(stack[u])
    BY SetTopFacts
  <1>2. stack[u] \in Seq(FrameTypes)
    BY FramesTyped
  <1>3. i # Len(stack[u])
    BY <1>1, <1>2
  <1>4. stack'[u][i] = stack[u][i]
    BY <1>1, <1>3, SetTopFacts, Zenon
  <1> QED
    BY <1>1, <1>4, Zenon DEF OthersInvoke

\* A thread that goes on keeps the lock it holds.
LEMMA SetLockKept ==
  ASSUME Types, LockKept, NEW t \in Threads, stack[t] # <<>>, NEW g \in FrameTypes, SetTop(t, g),
         m_lock' = m_lock, g.op = Top(t).op, g.op = "clear" => Top(t).pc # "lock"
  PROVE  LockKept'
  <1> SUFFICES ASSUME NEW u \in Threads, NEW i \in DOMAIN stack'[u], stack'[u][i].op = "clear", stack'[u][i].pc # "lock"
               PROVE  m_lock' = {u}
    BY Zenon DEF LockKept
  <1>1. i \in DOMAIN stack[u]
    BY SetTopFacts
  <1>2. CASE u = t /\ i = Len(stack[t])
    <2>1. stack'[u][i] = g /\ stack[u][i] = Top(t)
      BY <1>2, SetTopFacts, Zenon
    <2> QED
      BY <1>1, <2>1, Zenon DEF LockKept
  <1>3. CASE ~(u = t /\ i = Len(stack[t]))
    <2>1. stack'[u][i] = stack[u][i]
      BY <1>1, <1>3, SetTopFacts
    <2> QED
      BY <1>1, <2>1, Zenon DEF LockKept
  <1> QED
    BY <1>2, <1>3

\* What Walks says of one operation.
WalkOK(f) == f.pc # "lock" => Walked(f) /\ (f.op = "call" => CallOK(f)) /\ (f.op = "clear" => ClearOK(f))

\* What a walk has behind it stays right, when handlers are only taken away.
LEMMA OldWalk ==
  ASSUME Types, NEW f \in FrameTypes, Known(f), Shrinks, WalkOK(f),
         f.op = "clear" /\ f.pc # "lock" => procs' = procs
  PROVE  WalkOK(f)'
  <1>1. procs \in [Keys -> Lists]
    BY Zenon DEF Types
  <1>2. CASE f.pc # "lock"
    <2>1. Walked(f)'
      BY <1>2, OldWalked, Zenon DEF WalkOK
    <2>2. (f.op = "call" => CallOK(f))'
      BY <1>2, OldCall, Zenon DEF WalkOK
    <2>3. (f.op = "clear" => ClearOK(f))'
      BY <1>1, <1>2, OldClear, Zenon DEF WalkOK, FewerLists
    <2> QED
      BY <2>1, <2>2, <2>3, Zenon DEF WalkOK
  <1> QED
    BY <1>2, Zenon DEF WalkOK

\* A step that changes one frame keeps all walks right if it keeps that one.
LEMMA SetWalks ==
  ASSUME Types, FramesOK, Walks, NEW t \in Threads, stack[t] # <<>>, NEW g \in FrameTypes, SetTop(t, g),
         Shrinks, WalkOK(g)',
         procs' = procs \/ (\A f \in Frames(stack') : f = g \/ f.op # "clear" \/ f.pc = "lock")
  PROVE  Walks'
  <1> SUFFICES ASSUME NEW f \in Frames(stack') PROVE WalkOK(f)'
    BY Zenon DEF Walks, WalkOK
  <1>1. CASE f = g
    BY <1>1, Zenon
  <1>2. CASE f \in Frames(stack) /\ f # g
    <2>1. Known(f) /\ WalkOK(f) /\ f \in FrameTypes
      BY <1>2, FramesTyped, Zenon DEF FramesOK, Walks, WalkOK
    <2>2. f.op = "clear" /\ f.pc # "lock" => procs' = procs
      BY <1>2, Zenon
    <2> QED
      BY <2>1, <2>2, OldWalk
  <1> QED
    BY <1>1, <1>2, SetTopFrames, Zenon

-----------------------------------------------------------------------------
(* Blocks                                                                  *)

\* A list is a sequence of handlers.
LEMMA RingTypes ==
  ASSUME Types, NEW l \in Handlers
  PROVE  /\ ring[l] \in Seq(Handlers)
         /\ \A i \in DOMAIN ring[l] : ring[l][i] \in Handlers /\ ring[l][i] \in Range(ring[l])
         /\ \A b \in Range(ring[l]) : b \in Handlers /\ \E i \in DOMAIN ring[l] : ring[l][i] = b
  <1>1. ring[l] \in Seq(Handlers)
    BY DEF Types
  <1>2. \A i \in DOMAIN ring[l] : ring[l][i] \in Handlers
    BY <1>1
  <1> QED
    BY <1>1, <1>2 DEF Range

\* Null is no handler.
LEMMA NoneIsNoHandler == None \notin Handlers /\ \A b \in Lists : b # None => b \in Handlers
  BY DEF None, Handlers, Lists

\* A block is held or not as before.
HeldSame == \A b \in Handlers : Held(b, stack)' <=> Held(b, stack)

\* No two threads unlink one block.
LEMMA SameDying ==
  ASSUME Blocks,
         \A u \in Threads : \A i \in DOMAIN stack'[u] : stack'[u][i].dying # None =>
            i \in DOMAIN stack[u] /\ stack[u][i] = stack'[u][i]
  PROVE  (\A t, u \in Threads : \A i \in DOMAIN stack[t], j \in DOMAIN stack[u] :
            stack[t][i].dying # None /\ stack[t][i].dying = stack[u][j].dying => t = u /\ i = j)'
  <1> SUFFICES ASSUME NEW t \in Threads, NEW u \in Threads, NEW i \in DOMAIN stack'[t], NEW j \in DOMAIN stack'[u],
                      stack'[t][i].dying # None, stack'[t][i].dying = stack'[u][j].dying
               PROVE  t = u /\ i = j
    BY Zenon
  <1>1. i \in DOMAIN stack[t] /\ stack[t][i] = stack'[t][i]
    BY Zenon
  <1>2. stack'[u][j].dying # None
    OBVIOUS
  <1>3. j \in DOMAIN stack[u] /\ stack[u][j] = stack'[u][j]
    BY <1>2, Zenon
  <1>4. stack[t][i].dying # None /\ stack[t][i].dying = stack[u][j].dying
    BY <1>1, <1>3
  <1>5. \A v, w \in Threads : \A m \in DOMAIN stack[v], n \in DOMAIN stack[w] :
           stack[v][m].dying # None /\ stack[v][m].dying = stack[w][n].dying => v = w /\ m = n
    BY Zenon DEF Blocks
  <1> QED
    BY <1>1, <1>3, <1>4, <1>5

\* The blocks after a step that changes no block an operation is at or has to
\* unlink.
LEMMA SameBlocks ==
  ASSUME Types, Types', Blocks, ring' = ring, HeldSame,
         \A f \in Frames(stack') : (f.el # None \/ f.dying # None) => f \in Frames(stack),
         \A f \in Frames(stack) : f.dying # None => f \in Frames(stack'),
         \A u \in Threads : \A i \in DOMAIN stack'[u] : stack'[u][i].dying # None =>
            i \in DOMAIN stack[u] /\ stack[u][i] = stack'[u][i]
  PROVE  Blocks'
  <1>1. (\A f \in Frames(stack) : f.el # None => Linked(f.list, f.el))'
    BY Zenon DEF Blocks, Linked
  <1>2. (\A f \in Frames(stack) : f.dying # None => ~Held(f.dying, stack))'
    <2> SUFFICES ASSUME NEW f \in Frames(stack'), f.dying # None PROVE ~Held(f.dying, stack)'
      BY Zenon
    <2>1. f \in Frames(stack) /\ f \in FrameTypes
      BY FramesTyped, Zenon
    <2>2. f.dying \in Handlers
      BY <2>1, Fields, NoneIsNoHandler, Zenon
    <2> QED
      BY <2>1, <2>2, Zenon DEF HeldSame, Blocks
  <1>3. (\A t, u \in Threads : \A i \in DOMAIN stack[t], j \in DOMAIN stack[u] :
          stack[t][i].dying # None /\ stack[t][i].dying = stack[u][j].dying => t = u /\ i = j)'
    BY SameDying, Zenon
  <1>4. (\A l \in Handlers : \A b \in Range(ring[l]) : Held(b, stack) \/ \E f \in Frames(stack) : f.dying = b)'
    <2> SUFFICES ASSUME NEW l \in Handlers, NEW b \in Range(ring[l])
                 PROVE  Held(b, stack)' \/ \E f \in Frames(stack') : f.dying = b
      BY Zenon
    <2>1. b \in Handlers /\ b # None
      BY RingTypes, NoneIsNoHandler, Zenon
    <2>2. Held(b, stack) \/ \E f \in Frames(stack) : f.dying = b
      BY Zenon DEF Blocks
    <2> QED
      BY <2>1, <2>2, Zenon DEF HeldSame
  <1> QED
    BY <1>1, <1>2, <1>3, <1>4, Zenon DEF Blocks

-----------------------------------------------------------------------------
(* Beginning an operation                                                  *)

\* With the same lists nothing is added.
LEMMA SameTable ==
  ASSUME Types, UNCHANGED <<table, attributes>>
  PROVE  Shrinks
  BY DEF Types, table, attributes, Shrinks

\* Beginning an operation keeps the invariant.
LEMMA BeginKeeps ==
  ASSUME IInv, NEW t \in Threads, NEW g \in FrameTypes, Begin(t, g),
         g.pc = "lock", Shape(g), Known(g), UNCHANGED <<m_lock, table, attributes, gone>>
  PROVE  IInv'
  <1>1. /\ procs' = procs /\ ring' = ring /\ element' = element /\ tag' = tag /\ skip' = skip /\ born' = born
        /\ m_lock' = m_lock /\ gone' = gone
    BY Zenon DEF table, attributes
  <1>2. Types /\ FramesOK /\ OthersInvoke /\ Rings /\ Blocks /\ Walks /\ LockKept /\ GoneOK
    BY Zenon DEF IInv
  <1>3. PushedOn(stack, stack', t, g) /\ stack \in [Threads -> Seq(FrameTypes)]
    BY <1>2, Zenon DEF Begin, PushedOn, Types
  <1>4. stack[t] = <<>> \/ At(t, "invoke")
    BY Zenon DEF Begin
  <1>5. /\ stack' \in [Threads -> Seq(FrameTypes)]
        /\ Len(stack'[t]) = Len(stack[t]) + 1 /\ stack'[t][Len(stack[t]) + 1] = g
        /\ \A u \in Threads : u # t => stack'[u] = stack[u]
        /\ \A u \in Threads : \A i \in DOMAIN stack[u] : i \in DOMAIN stack'[u] /\ stack'[u][i] = stack[u][i]
        /\ \A u \in Threads : \A i \in DOMAIN stack'[u] : i \in DOMAIN stack[u] \/ (u = t /\ i = Len(stack[t]) + 1)
        /\ Frames(stack') = Frames(stack) \cup {g}
    BY <1>3, Pushed
  <1>6. Types'
    BY <1>1, <1>2, <1>5, Zenon DEF Types
  <1>7. FramesOK'
    <2> SUFFICES ASSUME NEW f \in Frames(stack') PROVE Shape(f) /\ Known(f)'
      BY Zenon DEF FramesOK, Shape, Place
    <2>1. Shape(f) /\ Known(f)
      BY <1>2, <1>5, Zenon DEF FramesOK
    <2> QED
      BY <1>1, <2>1, Zenon DEF Known
  <1>8. OthersInvoke'
    <2> SUFFICES ASSUME NEW u \in Threads, NEW i \in DOMAIN stack'[u], i < Len(stack'[u])
                 PROVE  stack'[u][i].pc = "invoke"
      BY Zenon DEF OthersInvoke
    <2>1. stack[u] \in Seq(FrameTypes)
      BY <1>3
    <2>2. i \in DOMAIN stack[u] /\ stack'[u][i] = stack[u][i]
      BY <1>5, <2>1
    <2>3. CASE i < Len(stack[u])
      BY <1>2, <2>2, <2>3, Zenon DEF OthersInvoke
    <2>4. CASE ~(i < Len(stack[u]))
      <3>1. i = Len(stack[u]) /\ stack[u] # <<>>
        BY <2>1, <2>2, <2>4
      <3>2. u = t
        BY <1>5, <2>4, Zenon
      <3>3. Top(t).pc = "invoke" /\ Top(t) = stack[t][Len(stack[t])]
        BY <1>2, <1>4, <3>1, <3>2, TopIs, Zenon DEF At
      <3> QED
        BY <2>2, <3>1, <3>2, <3>3
    <2> QED
      BY <2>3, <2>4
  <1>9. Rings'
    BY <1>1, <1>2, Zenon DEF Rings
  <1>10. g.el = None /\ g.dying = None
    BY Zenon DEF Shape, Place
  <1>11. HeldSame
    BY <1>1, <1>5, <1>10, NoneIsNoHandler, Zenon DEF HeldSame, Held
  <1>12. Blocks'
    <2>1. \A f \in Frames(stack') : (f.el # None \/ f.dying # None) => f \in Frames(stack)
      BY <1>5, <1>10, Zenon
    <2>2. \A f \in Frames(stack) : f.dying # None => f \in Frames(stack')
      BY <1>5, Zenon
    <2>3. \A u \in Threads : \A i \in DOMAIN stack'[u] : stack'[u][i].dying # None =>
            i \in DOMAIN stack[u] /\ stack[u][i] = stack'[u][i]
      BY <1>5, <1>10, Zenon
    <2> QED
      BY <1>1, <1>2, <1>6, <1>11, <2>1, <2>2, <2>3, SameBlocks, Zenon
  <1>13. Shrinks
    BY <1>2, SameTable, Zenon
  <1>14. Walks'
    <2> SUFFICES ASSUME NEW f \in Frames(stack') PROVE WalkOK(f)'
      BY Zenon DEF Walks, WalkOK
    <2>1. CASE f = g
      BY <2>1, Zenon DEF WalkOK
    <2>2. CASE f \in Frames(stack)
      <3>1. Known(f) /\ WalkOK(f) /\ f \in FrameTypes
        BY <1>2, <2>2, FramesTyped, Zenon DEF FramesOK, Walks, WalkOK
      <3> QED
        BY <1>1, <1>2, <1>13, <3>1, OldWalk, Zenon
    <2> QED
      BY <1>5, <2>1, <2>2, Zenon
  <1>15. LockKept'
    <2> SUFFICES ASSUME NEW u \in Threads, NEW i \in DOMAIN stack'[u],
                        stack'[u][i].op = "clear", stack'[u][i].pc # "lock"
                 PROVE  m_lock = {u}
      BY <1>1, Zenon DEF LockKept
    <2>1. i \in DOMAIN stack[u] /\ stack'[u][i] = stack[u][i]
      BY <1>5, Zenon
    <2>2. stack[u][i].op = "clear" /\ stack[u][i].pc # "lock"
      BY <2>1
    <2> QED
      BY <1>2, <2>1, <2>2, Zenon DEF LockKept
  <1>16. GoneOK'
    BY <1>1, <1>2, Zenon DEF GoneOK, Linked
  <1> QED
    BY <1>6, <1>7, <1>8, <1>9, <1>12, <1>14, <1>15, <1>16, Zenon DEF IInv

\* An operation that begins.
LEMMA NewFrame ==
  ASSUME NEW op \in {"add", "clear", "call"}, NEW key \in Keys \cup {<<>>}, NEW tg \in Tags, NEW s \in BOOLEAN,
         born \in Nat, op = "add" => key \in Keys, op = "call" => key \in Events,
         NEW g, g = [Frame(op, key, tg) EXCEPT !.skip = s]
  PROVE  g \in FrameTypes /\ g.pc = "lock" /\ Shape(g) /\ Known(g)
  <1>1. g = [op |-> op, key |-> key, tag |-> tg, skip |-> s, pc |-> "lock", todo |-> {},
             list |-> None, name_list |-> None, type_list |-> None, call_type_handler |-> FALSE,
             el |-> None, dying |-> None, after |-> "lock",
             called |-> <<>>, present |-> {}, barred |-> {}, cut |-> FALSE]
    BY DEF Frame
  <1>2. None \in Lists /\ "lock" \in Pcs /\ <<>> \in Seq(Handlers) /\ {} \in SUBSET Keys /\ {} \in SUBSET Handlers
    BY DEF Lists, Pcs
  <1>3. FALSE \in BOOLEAN
    OBVIOUS
  <1>4. [op |-> op, key |-> key, tag |-> tg, skip |-> s, pc |-> "lock", todo |-> {},
         list |-> None, name_list |-> None, type_list |-> None, call_type_handler |-> FALSE,
         el |-> None, dying |-> None, after |-> "lock",
         called |-> <<>>, present |-> {}, barred |-> {}, cut |-> FALSE] \in FrameTypes
    BY <1>2, <1>3, ZenonT(60) DEF FrameTypes
  <1>5. /\ g.op = op /\ g.key = key /\ g.pc = "lock" /\ g.list = None /\ g.name_list = None /\ g.type_list = None
        /\ g.el = None /\ g.dying = None /\ g.called = <<>> /\ g.present = {} /\ g.barred = {}
    BY <1>1
  <1>6. Shape(g)
    BY <1>5 DEF Shape, Place
  <1>7. None =< born /\ Range(<<>>) = {}
    BY DEF None, Range
  <1>8. Known(g)
    BY <1>5, <1>7, Zenon DEF Known
  <1>9. g \in FrameTypes
    BY <1>1, <1>4, Zenon
  <1> QED
    BY <1>9, <1>5, <1>6, <1>8

\* Beginning to add a handler keeps the invariant.
LEMMA BeginAddKeeps ==
  ASSUME IInv, NEW t \in Threads, NEW k \in Keys, NEW tg \in Tags, NEW s \in Skips, BeginAdd(t, k, tg, s)
  PROVE  IInv'
  <1>1. PICK g : g = [Frame("add", k, tg) EXCEPT !.skip = s]
    OBVIOUS
  <1>2. Begin(t, g) /\ UNCHANGED <<m_lock, table, attributes, gone>>
    BY <1>1, Zenon DEF BeginAdd
  <1>3. born \in Nat /\ s \in BOOLEAN
    BY EventHandlerMapConstants DEF IInv, Types
  <1>4. g \in FrameTypes /\ g.pc = "lock" /\ Shape(g) /\ Known(g)
    BY <1>1, <1>3, NewFrame
  <1> QED
    BY <1>2, <1>4, BeginKeeps

\* Beginning to clear or to call keeps the invariant.
LEMMA BeginOtherKeeps ==
  ASSUME IInv, NEW t \in Threads, NEW op \in {"clear", "call"}, NEW key \in Events \cup {<<>>}, NEW tg \in Tags,
         op = "call" => key \in Events, Begin(t, Frame(op, key, tg)), UNCHANGED <<m_lock, table, attributes, gone>>
  PROVE  IInv'
  <1>1. PICK g : g = [Frame(op, key, tg) EXCEPT !.skip = FALSE]
    OBVIOUS
  <1>2. g = Frame(op, key, tg)
    BY <1>1 DEF Frame
  <1>3. Begin(t, g)
    BY <1>2
  <1>4. born \in Nat /\ key \in Keys \cup {<<>>}
    BY DEF IInv, Types, Keys
  <1>5. g \in FrameTypes /\ g.pc = "lock" /\ Shape(g) /\ Known(g)
    BY <1>1, <1>4, NewFrame
  <1> QED
    BY <1>3, <1>5, BeginKeeps

\* Beginning to clear a tag keeps the invariant.
LEMMA BeginClearKeeps ==
  ASSUME IInv, NEW t \in Threads, NEW tg \in Tags, BeginClear(t, tg)
  PROVE  IInv'
  BY BeginOtherKeeps DEF BeginClear

\* Beginning to call the handlers of an event keeps the invariant.
LEMMA BeginCallKeeps ==
  ASSUME IInv, NEW t \in Threads, NEW e \in Events, BeginCall(t, e)
  PROVE  IInv'
  <1>1. PICK tg \in Tags : tg = CHOOSE x \in Tags : TRUE
    BY EventHandlerMapNames
  <1> QED
    BY <1>1, BeginOtherKeeps DEF BeginCall

-----------------------------------------------------------------------------
(* Lists that go                                                           *)

\* A list that is owned stays as it is, and takes its handlers with it if not.
LEMMA Destroyed ==
  ASSUME Types, Rings, NEW p, NEW s, DestroyLists(p, s)
  PROVE  /\ ring' \in [Handlers -> Seq(Handlers)] /\ element' \subseteq element
         /\ \A l \in Handlers : Owned(l, p, s) => ring'[l] = ring[l]
         /\ \A l \in Handlers : ring'[l] = ring[l] \/ (ring'[l] = <<>> /\ ~Owned(l, p, s))
         /\ \A l \in Handlers : \A b \in Range(ring'[l]) : b \in Range(ring[l]) /\ (b \in element => b \in element')
         /\ \A l \in Handlers : Owned(l, p, s) => \A b \in Range(ring[l]) : b \in element => b \in element'
  <1> DEFINE lost == {l \in Handlers : ring[l] # <<>> /\ ~Owned(l, p, s)}
  <1>1. /\ ring' = [l \in Handlers |-> IF l \in lost THEN <<>> ELSE ring[l]]
        /\ element' = element \ UNION {Range(ring[l]) : l \in lost}
    BY Zenon DEF DestroyLists
  <1>2. \A l \in Handlers : ring'[l] = IF l \in lost THEN <<>> ELSE ring[l]
    BY <1>1, Zenon
  <1>3. ring' \in [Handlers -> Seq(Handlers)]
    <2>1. \A l \in Handlers : (IF l \in lost THEN <<>> ELSE ring[l]) \in Seq(Handlers)
      BY RingTypes
    <2> QED
      BY <1>1, <2>1, Zenon
  <1>4. \A l \in Handlers : l \notin lost => \A b \in Range(ring[l]) : b \in element => b \in element'
    <2> TAKE l \in Handlers
    <2> SUFFICES ASSUME l \notin lost, NEW b \in Range(ring[l]), b \in element PROVE b \in element'
      OBVIOUS
    <2>1. \A m \in lost : b \notin Range(ring[m])
      BY Zenon DEF Rings
    <2> QED
      BY <1>1, <2>1
  <1>5. \A l \in Handlers : Owned(l, p, s) => l \notin lost
    OBVIOUS
  <1>6. \A l \in Handlers : ring'[l] = ring[l] \/ (ring'[l] = <<>> /\ ~Owned(l, p, s))
    BY <1>2, Zenon
  <1>7. \A l \in Handlers : \A b \in Range(ring'[l]) : b \in Range(ring[l]) /\ (b \in element => b \in element')
    <2> TAKE l \in Handlers
    <2> TAKE b \in Range(ring'[l])
    <2>1. Range(<<>>) = {}
      BY DEF Range
    <2>2. l \notin lost /\ ring'[l] = ring[l]
      BY <1>2, <2>1, Zenon
    <2> QED
      BY <1>4, <2>2, Zenon
  <1> HIDE DEF lost
  <1> QED
    BY <1>1, <1>2, <1>3, <1>4, <1>5, <1>6, <1>7, Zenon



\* Destroying lists only takes handlers away.
LEMMA DestroyedShrinks ==
  ASSUME Types, Rings, NEW p, NEW s, DestroyLists(p, s), UNCHANGED attributes
  PROVE  Shrinks
  <1>1. born \in Nat /\ born' = born /\ tag' = tag /\ skip' = skip
    BY DEF Types, attributes
  <1>2. element' \subseteq element /\ \A l \in Handlers : \A b \in Range(ring'[l]) : b \in Range(ring[l])
    BY Destroyed, Zenon
  <1> QED
    BY <1>1, <1>2 DEF Shrinks

\* The lists that are left are in order.
LEMMA DestroyedRings ==
  ASSUME Types, Rings, NEW p, NEW s, DestroyLists(p, s), UNCHANGED attributes, FewerLists
  PROVE  Rings'
  <1>1. born' = born /\ born \in Nat
    BY DEF attributes, Types
  <1>2. \A l \in Handlers : ring'[l] = ring[l] \/ ring'[l] = <<>>
    BY Destroyed, Zenon
  <1>3. \A l \in Handlers : \A b \in Range(ring'[l]) : b \in Range(ring[l])
    BY Destroyed, Zenon
  <1>4. (\A l \in Handlers : \A i, j \in DOMAIN ring[l] : i < j => ring[l][i] < ring[l][j])'
    <2> TAKE l \in Handlers
    <2>1. CASE ring'[l] = ring[l]
      BY <2>1, Zenon DEF Rings
    <2>2. CASE ring'[l] = <<>>
      BY <2>2
    <2> QED
      BY <1>2, <2>1, <2>2, Zenon
  <1>5. (\A l \in Handlers : \A b \in Range(ring[l]) : l =< born /\ b =< born)'
    BY <1>1, <1>3, Zenon DEF Rings
  <1>6. (\A l, m \in Handlers : \A b \in Range(ring[l]) : b \in Range(ring[m]) => l = m)'
    BY <1>3, Zenon DEF Rings
  <1>7. (\A k \in Keys : procs[k] =< born)'
    <2>1. None =< born
      BY <1>1 DEF None
    <2> QED
      BY <1>1, <2>1, Zenon DEF Rings, FewerLists
  <1>8. (\A j, k \in Keys : procs[j] = procs[k] /\ procs[j] # None => j = k)'
    <2> SUFFICES ASSUME NEW j \in Keys, NEW k \in Keys, procs'[j] = procs'[k], procs'[j] # None PROVE j = k
      BY Zenon
    <2>1. procs'[j] = procs[j] /\ procs'[k] = procs[k]
      BY Zenon DEF FewerLists
    <2> QED
      BY <2>1, Zenon DEF Rings
  <1> QED
    BY <1>4, <1>5, <1>6, <1>7, <1>8, Zenon DEF Rings

\* A thread is at a block of a list that it has.
LEMMA ElHasList ==
  ASSUME NEW f \in FrameTypes, Shape(f), f.el # None
  PROVE  f.list \in Handlers /\ Place(f) \in {"element", "invoke", "next", "keep"}
  <1>1. f.list \in Lists /\ Place(f) \in Pcs /\ (Place(f) = "unlink" => f.pc = "unlink")
    BY Fields DEF Place
  <1>2. Place(f) \notin {"lock", "front", "erase", "done", "unlink"}
    BY <1>1 DEF Shape, Place
  <1>3. Place(f) \in {"element", "invoke", "next", "keep"}
    BY <1>1, <1>2 DEF Pcs
  <1>4. f.list # None
    BY <1>3 DEF Shape
  <1> QED
    BY <1>1, <1>3, <1>4, NoneIsNoHandler

\* The blocks that threads are at are still linked when lists that nobody holds
\* are destroyed.
LEMMA DestroyedBlocks ==
  ASSUME Types, FramesOK, Types', FramesOK', Rings, Blocks, NEW p, DestroyLists(p, stack'),
         \A f \in Frames(stack') : (f.el # None \/ f.dying # None) => f \in Frames(stack),
         \A f \in Frames(stack) : (f.el # None \/ f.dying # None) => f \in Frames(stack'),
         \A u \in Threads : \A i \in DOMAIN stack'[u] : stack'[u][i].dying # None =>
            i \in DOMAIN stack[u] /\ stack[u][i] = stack'[u][i]
  PROVE  Blocks'
  <1>1. (\A f \in Frames(stack) : f.el # None => Linked(f.list, f.el))'
    <2> SUFFICES ASSUME NEW f \in Frames(stack'), f.el # None PROVE Linked(f.list, f.el)'
      BY Zenon
    <2>1. f \in Frames(stack) /\ f \in FrameTypes /\ Shape(f)
      BY FramesTyped, Zenon DEF FramesOK
    <2>2. f.list \in Handlers
      BY <2>1, ElHasList
    <2>3. Owned(f.list, p, stack')
      BY SMT DEF Owned
    <2>4. ring'[f.list] = ring[f.list]
      BY <2>2, <2>3, Destroyed, Zenon
    <2> QED
      BY <2>1, <2>4, Zenon DEF Blocks, Linked
  <1>2. \A b \in Handlers : Held(b, stack)' => Held(b, stack)
    <2>1. element' \subseteq element
      BY Destroyed, Zenon
    <2> QED
      BY <2>1, NoneIsNoHandler, Zenon DEF Held
  <1>3. (\A f \in Frames(stack) : f.dying # None => ~Held(f.dying, stack))'
    <2> SUFFICES ASSUME NEW f \in Frames(stack'), f.dying # None PROVE ~Held(f.dying, stack)'
      BY Zenon
    <2>1. f \in Frames(stack) /\ f \in FrameTypes
      BY FramesTyped, Zenon
    <2>2. f.dying \in Handlers
      BY <2>1, Fields, NoneIsNoHandler, Zenon
    <2> QED
      BY <1>2, <2>1, <2>2, Zenon DEF Blocks
  <1>4. (\A t, u \in Threads : \A i \in DOMAIN stack[t], j \in DOMAIN stack[u] :
          stack[t][i].dying # None /\ stack[t][i].dying = stack[u][j].dying => t = u /\ i = j)'
    BY SameDying, Zenon
  <1>5. (\A l \in Handlers : \A b \in Range(ring[l]) : Held(b, stack) \/ \E f \in Frames(stack) : f.dying = b)'
    <2> SUFFICES ASSUME NEW l \in Handlers, NEW b \in Range(ring'[l])
                 PROVE  Held(b, stack)' \/ \E f \in Frames(stack') : f.dying = b
      BY Zenon
    <2>1. b \in Range(ring[l]) /\ (b \in element => b \in element')
      BY Destroyed, Zenon
    <2>2. b # None
      BY <2>1, RingTypes, NoneIsNoHandler, Zenon
    <2>3. Held(b, stack) \/ \E f \in Frames(stack) : f.dying = b
      BY <2>1, Zenon DEF Blocks
    <2> QED
      BY <2>1, <2>2, <2>3, Zenon DEF Held
  <1> QED
    BY <1>1, <1>3, <1>4, <1>5, Zenon DEF Blocks

-----------------------------------------------------------------------------
(* Steps by which lists go                                                 *)

\* The handlers that are gone stay so when lists go.
LEMMA GoneStays ==
  ASSUME Types, Rings, GoneOK, NEW p, NEW s, DestroyLists(p, s), FewerLists, NEW b \in gone, b \in element',
         NEW k \in Keys, procs'[k] # None
  PROVE  ~Linked(procs[k], b)'
  <1>1. procs'[k] = procs[k] /\ procs[k] \in Handlers
    BY NoneIsNoHandler, Zenon DEF FewerLists, Types
  <1>2. b \in element /\ (b \in Range(ring'[procs[k]]) => b \in Range(ring[procs[k]]))
    BY <1>1, Destroyed, Zenon
  <1> QED
    BY <1>1, <1>2, Zenon DEF GoneOK, Linked

\* ClearHandlerName keeps the invariant.
LEMMA ClearHandlerNameKeeps ==
  ASSUME IInv, NEW t \in Threads, NEW k \in Keys, ClearHandlerName(t, k)
  PROVE  IInv'
  <1>1. Types /\ FramesOK /\ OthersInvoke /\ Rings /\ Blocks /\ Walks /\ LockKept /\ GoneOK
    BY Zenon DEF IInv
  <1>2. /\ m_lock = {} /\ procs[k] # None /\ procs' = [procs EXCEPT ![k] = None]
        /\ gone' = gone \cup Live(procs[k]) /\ m_lock' = m_lock /\ stack' = stack
        /\ UNCHANGED attributes
    BY Zenon DEF ClearHandlerName
  <1>3. born' = born /\ tag' = tag /\ skip' = skip
    BY <1>2 DEF attributes
  <1>4. PICK p : p = procs' /\ DestroyLists(p, stack) /\ DestroyLists(p, stack')
    BY <1>2 DEF ClearHandlerName
  <1>5. procs \in [Keys -> Lists] /\ None \in Lists
    BY <1>1 DEF Types, Lists
  <1>6. FewerLists /\ procs' \in [Keys -> Lists] /\ procs'[k] = None
    BY <1>2, <1>5 DEF FewerLists
  <1>7. Types'
    <2>1. ring' \in [Handlers -> Seq(Handlers)] /\ element' \subseteq element
      BY <1>1, <1>4, Destroyed, Zenon
    <2>2. Live(procs[k]) \subseteq element
      BY SMT DEF Live
    <2>3. gone' \subseteq 1 .. born
      BY <1>1, <1>2, <2>2, Zenon DEF Types
    <2> QED
      BY <1>1, <1>2, <1>3, <1>6, <2>1, <2>3, Zenon DEF Types
  <1>8. FramesOK'
    BY <1>1, <1>2, <1>3, Zenon DEF FramesOK, Shape, Known, Place
  <1>9. OthersInvoke' /\ LockKept'
    BY <1>1, <1>2, Zenon DEF OthersInvoke, LockKept
  <1>10. Rings'
    BY <1>1, <1>2, <1>4, <1>6, DestroyedRings
  <1>11. Blocks'
    BY <1>1, <1>2, <1>4, <1>7, <1>8, DestroyedBlocks, Zenon
  <1>12. Shrinks
    BY <1>1, <1>2, <1>4, DestroyedShrinks
  <1>13. Walks'
    <2> SUFFICES ASSUME NEW f \in Frames(stack) PROVE WalkOK(f)'
      BY <1>2, Zenon DEF Walks, WalkOK
    <2>1. Known(f) /\ WalkOK(f) /\ f \in FrameTypes
      BY <1>1, FramesTyped, Zenon DEF FramesOK, Walks, WalkOK
    <2>2. f.op # "clear" \/ f.pc = "lock"
      BY <1>1, <1>2, NoClear
    <2> QED
      BY <1>1, <1>12, <2>1, <2>2, OldWalk, Zenon
  <1>14. GoneOK'
    <2> SUFFICES ASSUME NEW b \in gone', NEW j \in Keys, b \in element', procs'[j] # None
                 PROVE  ~Linked(procs[j], b)'
      BY Zenon DEF GoneOK
    <2>1. CASE b \in gone
      BY <1>1, <1>4, <1>6, <2>1, GoneStays
    <2>2. CASE b \in Live(procs[k])
      <3>1. j # k /\ procs'[j] = procs[j]
        BY <1>6, Zenon DEF FewerLists
      <3>2. procs[j] \in Handlers /\ procs[k] \in Handlers /\ b \in Range(ring[procs[k]])
        BY <1>2, <1>5, <2>2, <3>1, NoneIsNoHandler DEF Live
      <3>3. b \notin Range(ring[procs[j]])
        BY <1>1, <1>2, <3>1, <3>2, Zenon DEF Rings
      <3>4. b \notin Range(ring'[procs[j]])
        BY <1>1, <1>4, <3>2, <3>3, Destroyed, Zenon
      <3> QED
        BY <3>1, <3>4, Zenon DEF Linked
    <2> QED
      BY <1>2, <2>1, <2>2
  <1> QED
    BY <1>7, <1>8, <1>9, <1>10, <1>11, <1>13, <1>14, Zenon DEF IInv

\* Destroying the map keeps the invariant.
LEMMA DropMapKeeps ==
  ASSUME IInv, DropMap
  PROVE  IInv'
  <1>1. Types /\ FramesOK /\ OthersInvoke /\ Rings /\ Blocks /\ Walks /\ LockKept /\ GoneOK
    BY Zenon DEF IInv
  <1> DEFINE last == \A u \in Threads : stack[u] = <<>>
  <1>2. /\ procs' = IF last THEN [k \in Keys |-> None] ELSE procs
        /\ gone' = gone /\ m_lock' = m_lock /\ stack' = stack /\ UNCHANGED attributes
    BY Zenon DEF DropMap
  <1>3. born' = born /\ tag' = tag /\ skip' = skip
    BY <1>2 DEF attributes
  <1>4. PICK p : p = procs' /\ DestroyLists(p, stack) /\ DestroyLists(p, stack')
    BY <1>2 DEF DropMap
  <1>5. procs \in [Keys -> Lists] /\ None \in Lists
    BY <1>1 DEF Types, Lists
  <1>6. FewerLists /\ procs' \in [Keys -> Lists]
    BY <1>2, <1>5 DEF FewerLists
  <1>7. Types'
    <2>1. ring' \in [Handlers -> Seq(Handlers)] /\ element' \subseteq element
      BY <1>1, <1>4, Destroyed, Zenon
    <2> QED
      BY <1>1, <1>2, <1>3, <1>6, <2>1, Zenon DEF Types
  <1>8. FramesOK'
    BY <1>1, <1>2, <1>3, Zenon DEF FramesOK, Shape, Known, Place
  <1>9. OthersInvoke' /\ LockKept'
    BY <1>1, <1>2, Zenon DEF OthersInvoke, LockKept
  <1>10. Rings'
    BY <1>1, <1>2, <1>4, <1>6, DestroyedRings
  <1>11. Blocks'
    BY <1>1, <1>2, <1>4, <1>7, <1>8, DestroyedBlocks, Zenon
  <1>12. Shrinks
    BY <1>1, <1>2, <1>4, DestroyedShrinks
  <1>13. Walks'
    <2> SUFFICES ASSUME NEW f \in Frames(stack) PROVE WalkOK(f)'
      BY <1>2, Zenon DEF Walks, WalkOK
    <2>1. Known(f) /\ WalkOK(f) /\ f \in FrameTypes
      BY <1>1, FramesTyped, Zenon DEF FramesOK, Walks, WalkOK
    <2>2. PICK u \in Threads : \E i \in DOMAIN stack[u] : f = stack[u][i]
      BY FramesAre
    <2>3. DOMAIN <<>> = {}
      OBVIOUS
    <2>4. procs' = procs
      BY <1>2, <2>2, <2>3, Zenon
    <2> QED
      BY <1>1, <1>12, <2>1, <2>4, OldWalk, Zenon
  <1>14. GoneOK'
    BY <1>1, <1>2, <1>4, <1>6, GoneStays, Zenon DEF GoneOK
  <1> QED
    BY <1>7, <1>8, <1>9, <1>10, <1>11, <1>13, <1>14, Zenon DEF IInv

\* The end of an operation keeps the invariant.
LEMMA ReturnKeeps ==
  ASSUME IInv, NEW t \in Threads, Return(t)
  PROVE  IInv'
  <1>1. Types /\ FramesOK /\ OthersInvoke /\ Rings /\ Blocks /\ Walks /\ LockKept /\ GoneOK
    BY Zenon DEF IInv
  <1> DEFINE f == Top(t)
  <1> DEFINE last == ~owned /\ \A u \in Threads : stack'[u] = <<>>
  <1>2. /\ procs' = IF last THEN [k \in Keys |-> None] ELSE procs
        /\ stack[t] # <<>> /\ f.pc = "done"
        /\ m_lock' = m_lock \ {t} /\ UNCHANGED attributes
        /\ gone' = IF f.op = "clear" /\ ~f.cut THEN gone \cup f.present ELSE gone
    BY Zenon DEF Return, At
  <1>3. born' = born /\ tag' = tag /\ skip' = skip
    BY <1>2 DEF attributes
  <1>4. PICK p : p = procs' /\ DestroyLists(p, stack')
    BY Zenon DEF Return
  <1>5. procs \in [Keys -> Lists] /\ None \in Lists
    BY <1>1 DEF Types, Lists
  <1>6. FewerLists /\ procs' \in [Keys -> Lists]
    BY <1>2, <1>5 DEF FewerLists
  <1>7. PoppedOff(stack, stack', t) /\ stack \in [Threads -> Seq(FrameTypes)]
    BY <1>1, Zenon DEF Return, Pop, PoppedOff, Types
  <1>8. /\ stack' \in [Threads -> Seq(FrameTypes)]
        /\ Len(stack'[t]) = Len(stack[t]) - 1
        /\ \A u \in Threads : u # t => stack'[u] = stack[u]
        /\ \A u \in Threads : \A i \in DOMAIN stack'[u] : i \in DOMAIN stack[u] /\ stack'[u][i] = stack[u][i]
        /\ Frames(stack') \subseteq Frames(stack) /\ Frames(stack) \subseteq Frames(stack') \cup {f}
        /\ f \in Frames(stack) /\ f \in FrameTypes
    BY <1>2, <1>7, Popped DEF Top
  <1>9. Shape(f) /\ Known(f) /\ WalkOK(f)
    BY <1>1, <1>8, Zenon DEF FramesOK, Walks, WalkOK
  <1>10. Place(f) = "done" /\ f.el = None /\ f.dying = None
    BY <1>2, <1>9, Zenon DEF Shape, Place
  <1>11. Types'
    <2>1. ring' \in [Handlers -> Seq(Handlers)] /\ element' \subseteq element
      BY <1>1, <1>4, Destroyed, Zenon
    <2>2. gone' \subseteq 1 .. born
      BY <1>1, <1>2, <1>9 DEF Types, Known
    <2>3. m_lock' = {} \/ \E u \in Threads : m_lock' = {u}
      BY <1>1, <1>2 DEF Types
    <2> QED
      BY <1>1, <1>3, <1>6, <1>8, <2>1, <2>2, <2>3, Zenon DEF Types
  <1>12. FramesOK'
    BY <1>1, <1>3, <1>8, Zenon DEF FramesOK, Shape, Known, Place
  <1>13. OthersInvoke'
    <2> SUFFICES ASSUME NEW u \in Threads, NEW i \in DOMAIN stack'[u], i < Len(stack'[u])
                 PROVE  stack'[u][i].pc = "invoke"
      BY Zenon DEF OthersInvoke
    <2>1. stack[u] \in Seq(FrameTypes) /\ i \in DOMAIN stack[u] /\ stack'[u][i] = stack[u][i]
      BY <1>7, <1>8
    <2>2. i < Len(stack[u])
      BY <1>8, <2>1
    <2> QED
      BY <1>1, <2>1, <2>2, Zenon DEF OthersInvoke
  <1>14. LockKept'
    <2> SUFFICES ASSUME NEW u \in Threads, NEW i \in DOMAIN stack'[u],
                        stack'[u][i].op = "clear", stack'[u][i].pc # "lock"
                 PROVE  m_lock' = {u}
      BY Zenon DEF LockKept
    <2>1. i \in DOMAIN stack[u] /\ stack'[u][i] = stack[u][i] /\ stack'[u] \in Seq(FrameTypes)
      BY <1>8
    <2>2. stack[u][i].op = "clear" /\ stack[u][i].pc # "lock"
      BY <2>1
    <2>3. m_lock = {u} /\ i = Len(stack[u])
      BY <1>1, <2>1, <2>2, OneClear, Zenon
    <2>4. u # t
      BY <1>8, <2>1, <2>3
    <2> QED
      BY <1>2, <2>3, <2>4
  <1>15. Rings'
    BY <1>1, <1>2, <1>4, <1>6, DestroyedRings
  <1>16. Blocks'
    BY <1>1, <1>4, <1>8, <1>10, <1>11, <1>12, DestroyedBlocks, Zenon
  <1>17. Shrinks
    BY <1>1, <1>2, <1>4, DestroyedShrinks
  <1>18. Walks'
    <2> SUFFICES ASSUME NEW h \in Frames(stack') PROVE WalkOK(h)'
      BY Zenon DEF Walks, WalkOK
    <2>1. Known(h) /\ WalkOK(h) /\ h \in FrameTypes
      BY <1>1, <1>8, FramesTyped, Zenon DEF FramesOK, Walks, WalkOK
    <2>2. PICK u \in Threads : \E i \in DOMAIN stack'[u] : h = stack'[u][i]
      BY FramesAre
    <2>3. DOMAIN <<>> = {}
      OBVIOUS
    <2>4. procs' = procs
      BY <1>2, <2>2, <2>3, Zenon
    <2> QED
      BY <1>1, <1>17, <2>1, <2>4, OldWalk, Zenon
  <1>19. GoneOK'
    <2> SUFFICES ASSUME NEW b \in gone', NEW k \in Keys, b \in element', procs'[k] # None
                 PROVE  ~Linked(procs[k], b)'
      BY Zenon DEF GoneOK
    <2>1. CASE b \in gone
      BY <1>1, <1>4, <1>6, <2>1, GoneStays
    <2>2. CASE b \in f.present /\ f.op = "clear" /\ ~f.cut
      <3>1. procs'[k] = procs[k] /\ procs[k] # None /\ procs[k] \in Handlers
        BY <1>5, <1>6, NoneIsNoHandler, Zenon DEF FewerLists
      <3>2. ClearOK(f)
        BY <1>2, <1>9, <2>2, Zenon DEF WalkOK
      <3>3. Left(procs[k], f) = {}
        BY <1>10, <2>2, <3>1, <3>2 DEF ClearOK
      <3>4. b \in element /\ (b \in Range(ring'[procs[k]]) => b \in Range(ring[procs[k]]))
        BY <1>1, <1>4, <3>1, Destroyed, Zenon
      <3> QED
        BY <2>2, <3>1, <3>3, <3>4 DEF Left, Linked
    <2> QED
      BY <1>2, <2>1, <2>2
  <1> QED
    BY <1>11, <1>12, <1>13, <1>14, <1>15, <1>16, <1>18, <1>19, Zenon DEF IInv

-----------------------------------------------------------------------------
(* Steps of an operation that leave the table alone                        *)

\* Two states of an operation that differ in what unlinking needs.
SameButUnlinking(f, g) ==
    /\ g.op = f.op /\ g.tag = f.tag /\ g.key = f.key /\ g.todo = f.todo /\ g.list = f.list /\ g.name_list = f.name_list
    /\ g.type_list = f.type_list /\ g.call_type_handler = f.call_type_handler /\ g.el = f.el /\ g.called = f.called
    /\ g.present = f.present /\ g.barred = f.barred /\ g.cut = f.cut /\ Place(g) = Place(f)

\* A frame that only begins or ends to unlink has the same walk behind it.
LEMMA SameWalk ==
  ASSUME NEW f, NEW g, SameButUnlinking(f, g), f.pc # "invoke" /\ g.pc # "invoke", f.pc # "lock", WalkOK(f)
  PROVE  WalkOK(g)
  <1>1. \A b : Passed(g, b) <=> Passed(f, b)
    BY DEF SameButUnlinking, Passed
  <1>2. \A l : Left(l, g) = Left(l, f)
    BY DEF SameButUnlinking, Left
  <1>3. Walked(g)
    BY <1>1, <1>2 DEF SameButUnlinking, WalkOK, Walked
  <1>4. ASSUME f.op = "call" PROVE CallOK(g)
    <2>1. CallOrder(f) /\ CallWhole(f) /\ CallTypes(f) /\ CallBarred(f)
      BY <1>4 DEF WalkOK, CallOK
    <2>2. CallOrder(g)
      BY <1>1, <2>1 DEF SameButUnlinking, CallOrder, InOrder
    <2>3. CallWhole(g)
      BY <1>2, <2>1 DEF SameButUnlinking, CallWhole
    <2>4. CallTypes(g)
      BY <2>1 DEF SameButUnlinking, CallTypes
    <2>5. CallBarred(g)
      BY <2>1 DEF SameButUnlinking, CallBarred
    <2> QED
      BY <2>2, <2>3, <2>4, <2>5 DEF CallOK
  <1>5. ASSUME f.op = "clear" PROVE ClearOK(g)
    <2>1. ClearOK(f)
      BY <1>5 DEF WalkOK
    <2> QED
      BY <1>2, <2>1 DEF SameButUnlinking, ClearOK
  <1>6. g.op = f.op
    BY DEF SameButUnlinking
  <1> QED
    BY <1>3, <1>4, <1>5, <1>6, Zenon DEF WalkOK

\* It has the same shape.
LEMMA SameShape ==
  ASSUME NEW f \in FrameTypes, NEW g \in FrameTypes, SameButUnlinking(f, g), f.op # "add",
         f.pc \notin {"invoke", "lock"} /\ g.pc \notin {"invoke", "lock"}, Shape(f),
         g.pc = "unlink" => g.dying # None /\ g.after \in {"front", "element", "erase", "done"},
         g.pc # "unlink" => g.dying = None
  PROVE  Shape(g)
  BY DEF SameButUnlinking, Shape

\* It knows the same handlers.
LEMMA SameKnown ==
  ASSUME NEW f \in FrameTypes, NEW g \in FrameTypes, SameButUnlinking(f, g), Known(f), g.dying =< born
  PROVE  Known(g)
  BY DEF SameButUnlinking, Known

\* An operation that has a block to unlink.
Unlinks(h, b, g) == g = [h EXCEPT !.dying = b, !.pc = "unlink", !.after = h.pc]

\* Nothing else of it changes.
LEMMA ToUnlink ==
  ASSUME NEW h \in FrameTypes, h.pc \in {"front", "element", "erase", "done"}, h.op # "add", NEW b \in Handlers,
         b =< born, NEW g, Unlinks(h, b, g),
         Shape(h), Known(h), WalkOK(h)
  PROVE  /\ g \in FrameTypes /\ g.pc = "unlink" /\ g.dying = b /\ g.el = h.el /\ g.list = h.list /\ g.op = h.op
         /\ Shape(g) /\ Known(g) /\ WalkOK(g)
  <1>1. b \in Lists /\ "unlink" \in Pcs /\ h.pc \in Pcs /\ b # None
    BY Fields, NoneIsNoHandler DEF Lists, Pcs
  <1>2. g \in FrameTypes
    BY <1>1, Zenon DEF FrameTypes, Unlinks
  <1>3. g.pc = "unlink" /\ g.dying = b /\ g.after = h.pc /\ g.el = h.el /\ g.list = h.list /\ g.op = h.op
    BY DEF FrameTypes, Unlinks
  <1>4. SameButUnlinking(h, g)
    BY DEF FrameTypes, Unlinks, SameButUnlinking, Place
  <1>5. WalkOK(g)
    BY <1>3, <1>4, SameWalk
  <1>6. Shape(g)
    BY <1>1, <1>2, <1>3, <1>4, SameShape
  <1>7. Known(g)
    <2>1. g.dying =< born
      BY <1>3, Zenon
    <2> QED
      BY <1>2, <1>4, <2>1, SameKnown, Zenon
  <1> QED
    BY <1>2, <1>3, <1>5, <1>6, <1>7

\* The blocks after a step that leaves the table alone: the thread comes to a
\* block that is held, and what it no longer holds it has to unlink.
LEMMA TableBlocks ==
  ASSUME Types, Types', FramesOK, Blocks, NEW t \in Threads, stack[t] # <<>>, NEW g \in FrameTypes, SetTop(t, g),
         ring' = ring, element' = element, Top(t).dying = None,
         g.el # None => Held(g.el, stack) /\ Linked(g.list, g.el),
         g.dying # None => g.dying = Top(t).el /\ ~Held(g.dying, stack'),
         Top(t).el # None => Held(Top(t).el, stack') \/ g.dying = Top(t).el
  PROVE  Blocks'
  <1>1. /\ Frames(stack') \subseteq Frames(stack) \cup {g} /\ Frames(stack) \subseteq Frames(stack') \cup {Top(t)}
        /\ g \in Frames(stack') /\ Top(t) \in Frames(stack) /\ Top(t) \in FrameTypes
    BY SetTopFrames, Zenon
  <1>2. \A b \in Handlers : Held(b, stack)' <=> Held(b, stack')
    BY Zenon DEF Held
  <1>3. \A b \in Handlers : Held(b, stack)' => Held(b, stack)
    <2> TAKE b \in Handlers
    <2> SUFFICES ASSUME Held(b, stack)' PROVE Held(b, stack)
      OBVIOUS
    <2>1. CASE b \in element
      BY <2>1, Zenon DEF Held
    <2>2. CASE \E f \in Frames(stack') : f.el = b
      <3>1. PICK f \in Frames(stack') : f.el = b
        BY <2>2
      <3>2. CASE f = g
        BY <3>1, <3>2, NoneIsNoHandler
      <3>3. CASE f \in Frames(stack)
        BY <3>1, <3>3, Zenon DEF Held
      <3> QED
        BY <1>1, <3>2, <3>3, Zenon
    <2> QED
      BY <2>1, <2>2, Zenon DEF Held
  <1>4. \A b \in Handlers : Held(b, stack) => Held(b, stack)' \/ b = g.dying
    <2> TAKE b \in Handlers
    <2> SUFFICES ASSUME Held(b, stack) PROVE Held(b, stack)' \/ b = g.dying
      OBVIOUS
    <2>1. CASE b \in element
      BY <2>1, Zenon DEF Held
    <2>2. CASE \E f \in Frames(stack) : f.el = b
      <3>1. PICK f \in Frames(stack) : f.el = b
        BY <2>2
      <3>2. CASE f = Top(t)
        BY <1>2, <3>1, <3>2, NoneIsNoHandler
      <3>3. CASE f \in Frames(stack')
        BY <3>1, <3>3, Zenon DEF Held
      <3> QED
        BY <1>1, <3>2, <3>3, Zenon
    <2> QED
      BY <2>1, <2>2, Zenon DEF Held
  <1>5. (\A f \in Frames(stack) : f.el # None => Linked(f.list, f.el))'
    BY <1>1, Zenon DEF Blocks, Linked
  <1>6. (\A f \in Frames(stack) : f.dying # None => ~Held(f.dying, stack))'
    <2> SUFFICES ASSUME NEW f \in Frames(stack'), f.dying # None PROVE ~Held(f.dying, stack)'
      BY Zenon
    <2>1. f \in FrameTypes
      BY <1>1, FramesTyped, Zenon
    <2>2. f.dying \in Handlers
      BY <2>1, Fields, NoneIsNoHandler, Zenon
    <2>3. CASE f = g
      BY <1>2, <2>2, <2>3, Zenon
    <2>4. CASE f \in Frames(stack)
      BY <1>3, <2>2, <2>4, Zenon DEF Blocks
    <2> QED
      BY <1>1, <2>3, <2>4, Zenon
  <1>7. (\A v, w \in Threads : \A m \in DOMAIN stack[v], n \in DOMAIN stack[w] :
          stack[v][m].dying # None /\ stack[v][m].dying = stack[w][n].dying => v = w /\ m = n)'
    <2> DEFINE here(u, i) == u = t /\ i = Len(stack[t])
    <2>1. \A u \in Threads : \A i \in DOMAIN stack'[u] :
            /\ i \in DOMAIN stack[u]
            /\ here(u, i) => stack'[u][i] = g
            /\ ~here(u, i) => stack'[u][i] = stack[u][i]
      BY SetTopFacts
    <2>2. \A u \in Threads : \A i \in DOMAIN stack[u] : stack[u][i].dying # None =>
            stack[u][i].dying # g.dying
      <3> SUFFICES ASSUME NEW u \in Threads, NEW i \in DOMAIN stack[u], stack[u][i].dying # None,
                          stack[u][i].dying = g.dying
                   PROVE  FALSE
        OBVIOUS
      <3>1. g.dying = Top(t).el /\ g.dying # None
        OBVIOUS
      <3>2. Held(g.dying, stack)
        BY <1>1, <3>1, Zenon DEF Held
      <3>3. stack[u][i] \in Frames(stack)
        BY FramesTyped, Zenon
      <3>4. ~Held(stack[u][i].dying, stack)
        BY <3>3, Zenon DEF Blocks
      <3> QED
        BY <3>2, <3>4
    <2>3. \A v, w \in Threads : \A m \in DOMAIN stack[v], n \in DOMAIN stack[w] :
             stack[v][m].dying # None /\ stack[v][m].dying = stack[w][n].dying => v = w /\ m = n
      BY Zenon DEF Blocks
    <2> SUFFICES ASSUME NEW v \in Threads, NEW w \in Threads, NEW m \in DOMAIN stack'[v], NEW n \in DOMAIN stack'[w],
                        stack'[v][m].dying # None, stack'[v][m].dying = stack'[w][n].dying
                 PROVE  v = w /\ m = n
      OBVIOUS
    <2>4. m \in DOMAIN stack[v] /\ n \in DOMAIN stack[w] /\ stack'[w][n].dying # None
      BY <2>1
    <2>5. CASE here(v, m) /\ here(w, n)
      BY <2>5
    <2>6. CASE here(v, m) /\ ~here(w, n)
      <3>1. stack'[v][m] = g /\ stack'[w][n] = stack[w][n]
        BY <2>1, <2>6
      <3> QED
        BY <2>2, <2>4, <3>1
    <2>7. CASE ~here(v, m) /\ here(w, n)
      <3>1. stack'[w][n] = g /\ stack'[v][m] = stack[v][m]
        BY <2>1, <2>7
      <3> QED
        BY <2>2, <2>4, <3>1
    <2>8. CASE ~here(v, m) /\ ~here(w, n)
      <3>1. stack'[w][n] = stack[w][n] /\ stack'[v][m] = stack[v][m]
        BY <2>1, <2>8
      <3>2. stack[v][m].dying # None /\ stack[v][m].dying = stack[w][n].dying
        BY <3>1
      <3> QED
        BY <2>3, <2>4, <3>2
    <2> QED
      BY <2>5, <2>6, <2>7, <2>8
  <1>8. (\A l \in Handlers : \A b \in Range(ring[l]) : Held(b, stack) \/ \E f \in Frames(stack) : f.dying = b)'
    <2> SUFFICES ASSUME NEW l \in Handlers, NEW b \in Range(ring[l])
                 PROVE  Held(b, stack)' \/ \E f \in Frames(stack') : f.dying = b
      BY Zenon
    <2>1. b \in Handlers /\ b # None
      BY RingTypes, NoneIsNoHandler, Zenon
    <2>2. CASE Held(b, stack)
      BY <1>1, <1>4, <2>1, <2>2, Zenon
    <2>3. CASE \E f \in Frames(stack) : f.dying = b
      BY <1>1, <2>1, <2>3, Zenon
    <2> QED
      BY <2>2, <2>3, Zenon DEF Blocks
  <1> QED
    BY <1>5, <1>6, <1>7, <1>8, Zenon DEF Blocks

\* A step that leaves the table alone keeps the invariant, if it does for the
\* operation, the blocks and the lock.
LEMMA TableKept ==
  ASSUME IInv, NEW t \in Threads, stack[t] # <<>>, NEW g \in FrameTypes, SetTop(t, g),
         UNCHANGED <<table, attributes, gone>>, Shape(g), Known(g), WalkOK(g),
         g.el # None => Held(g.el, stack) /\ Linked(g.list, g.el), Top(t).dying = None,
         g.dying # None => g.dying = Top(t).el /\ ~Held(g.dying, stack'),
         Top(t).el # None => Held(Top(t).el, stack') \/ g.dying = Top(t).el,
         m_lock' = {} \/ \E u \in Threads : m_lock' = {u}, LockKept'
  PROVE  IInv'
  <1>1. /\ procs' = procs /\ ring' = ring /\ element' = element /\ tag' = tag /\ skip' = skip /\ born' = born
        /\ gone' = gone
    BY Zenon DEF table, attributes
  <1>2. Types /\ FramesOK /\ OthersInvoke /\ Rings /\ Blocks /\ Walks /\ LockKept /\ GoneOK /\ born \in Nat
    BY Zenon DEF IInv, Types
  <1>3. stack' \in [Threads -> Seq(FrameTypes)]
    BY <1>2, SetTopFacts
  <1>4. Types'
    BY <1>1, <1>2, <1>3, Zenon DEF Types
  <1>5. Shrinks
    BY <1>2, SameTable, Zenon
  <1>6. Known(g)'
    BY <1>1, Zenon DEF Known
  <1>7. WalkOK(g)'
    BY <1>1, <1>2, <1>5, OldWalk, Zenon
  <1>8. FramesOK'
    <2>1. born' \in Nat /\ born =< born'
      BY <1>1, <1>2
    <2> QED
      BY <1>2, <1>6, <2>1, SetFramesOK, Zenon
  <1>9. OthersInvoke'
    BY <1>2, SetOthersInvoke, Zenon
  <1>10. Rings'
    BY <1>1, <1>2, Zenon DEF Rings
  <1>11. Blocks'
    BY <1>1, <1>2, <1>4, TableBlocks, Zenon
  <1>12. Walks'
    BY <1>1, <1>2, <1>5, <1>7, SetWalks, Zenon
  <1>13. GoneOK'
    BY <1>1, <1>2, Zenon DEF GoneOK, Linked
  <1> QED
    BY <1>4, <1>8, <1>9, <1>10, <1>11, <1>12, <1>13, Zenon DEF IInv

-----------------------------------------------------------------------------
(* Walking                                                                 *)

\* Front(): no block of the list is before the first one.
LEMMA FirstIs ==
  ASSUME Types, Rings, NEW l \in Handlers
  PROVE  \/ FirstPointer(l) = None /\ Range(ring[l]) = {}
         \/ /\ FirstPointer(l) \in Handlers /\ Linked(l, FirstPointer(l))
            /\ \A x \in Range(ring[l]) : FirstPointer(l) =< x
  <1>1. ring[l] \in Seq(Handlers) /\ \A x \in Range(ring[l]) : x \in Handlers /\ \E i \in DOMAIN ring[l] : ring[l][i] = x
    BY RingTypes
  <1>2. CASE ring[l] = <<>>
    BY <1>2 DEF FirstPointer, Range
  <1>3. CASE ring[l] # <<>>
    <2>1. 1 \in DOMAIN ring[l] /\ FirstPointer(l) = ring[l][1]
      BY <1>1, <1>3 DEF FirstPointer
    <2>2. ring[l][1] \in Handlers /\ ring[l][1] \in Range(ring[l])
      BY <2>1, RingTypes
    <2>3. \A i, j \in DOMAIN ring[l] : i < j => ring[l][i] < ring[l][j]
      BY Zenon DEF Rings
    <2>4. ASSUME NEW x \in Range(ring[l]) PROVE FirstPointer(l) =< x
      <3>1. PICK i \in DOMAIN ring[l] : ring[l][i] = x
        BY <1>1
      <3>2. i \in Nat /\ i >= 1 /\ x \in Nat /\ ring[l][1] \in Nat
        BY <1>1, <2>2, <2>4 DEF Handlers
      <3>3. i = 1 \/ 1 < i
        BY <3>2
      <3> QED
        BY <2>1, <2>3, <3>1, <3>2, <3>3
    <2> QED
      BY <2>1, <2>2, <2>4 DEF Linked
  <1> QED
    BY <1>2, <1>3

\* GetNext(): no block of the list is between a block and the next one.
LEMMA NextIs ==
  ASSUME Types, Rings, NEW l \in Handlers, NEW b \in Range(ring[l])
  PROVE  \/ NextPointer(l, b) = None /\ \A x \in Range(ring[l]) : x =< b
         \/ /\ NextPointer(l, b) \in Handlers /\ Linked(l, NextPointer(l, b)) /\ b < NextPointer(l, b)
            /\ \A x \in Range(ring[l]) : x < NextPointer(l, b) => x =< b
  <1>1. /\ ring[l] \in Seq(Handlers)
        /\ \A i \in DOMAIN ring[l] : ring[l][i] \in Handlers /\ ring[l][i] \in Range(ring[l])
        /\ \A x \in Range(ring[l]) : x \in Handlers /\ \E i \in DOMAIN ring[l] : ring[l][i] = x
    BY RingTypes
  <1>2. \A i, j \in DOMAIN ring[l] : i < j => ring[l][i] < ring[l][j]
    BY Zenon DEF Rings
  <1> DEFINE i == CHOOSE j \in DOMAIN ring[l] : ring[l][j] = b
  <1>3. i \in DOMAIN ring[l] /\ ring[l][i] = b
    BY <1>1
  <1>4. NextPointer(l, b) = IF i = Len(ring[l]) THEN None ELSE ring[l][i + 1]
    BY DEF NextPointer, Linked
  <1> HIDE DEF i
  <1>5. \A x \in Handlers : x \in Nat
    BY DEF Handlers
  <1>6. CASE i = Len(ring[l])
    <2>1. ASSUME NEW x \in Range(ring[l]) PROVE x =< b
      <3>1. PICK j \in DOMAIN ring[l] : ring[l][j] = x
        BY <1>1
      <3>2. j < i \/ j = i
        BY <1>1, <1>6, <3>1
      <3> QED
        BY <1>1, <1>2, <1>3, <1>5, <3>1, <3>2
    <2> QED
      BY <1>4, <1>6, <2>1
  <1>7. CASE i # Len(ring[l])
    <2>1. i + 1 \in DOMAIN ring[l] /\ i < i + 1
      BY <1>1, <1>3, <1>7
    <2>2. NextPointer(l, b) = ring[l][i + 1]
      BY <1>4, <1>7
    <2>3. ring[l][i + 1] \in Handlers /\ ring[l][i + 1] \in Range(ring[l]) /\ b < ring[l][i + 1]
      BY <1>1, <1>2, <1>3, <2>1
    <2>4. ASSUME NEW x \in Range(ring[l]), x < ring[l][i + 1] PROVE x =< b
      <3>1. PICK j \in DOMAIN ring[l] : ring[l][j] = x
        BY <1>1
      <3>2. x \in Handlers /\ b \in Handlers
        BY <1>1, Zenon
      <3>3. x \in Nat /\ b \in Nat /\ ring[l][i + 1] \in Nat
        BY <1>5, <2>3, <3>2, Zenon
      <3>4. j \in Nat /\ i \in Nat
        BY <1>1, <1>3, <3>1
      <3>5. ~(i + 1 < j) /\ j # i + 1
        BY <1>2, <2>1, <2>4, <3>1, <3>3
      <3>6. j < i \/ j = i
        BY <3>4, <3>5
      <3> QED
        BY <1>2, <1>3, <3>1, <3>3, <3>6
    <2> QED
      BY <2>2, <2>3, <2>4 DEF Linked
  <1> QED
    BY <1>6, <1>7

\* next->curr.lock().
LEMMA LockIs ==
  ASSUME NEW b \in Lists, NEW s
  PROVE  /\ LockBlock(b, s) \in {None, b} /\ (LockBlock(b, s) # None => Held(b, s))
         /\ (b # None /\ Held(b, s) => LockBlock(b, s) = b)
  BY DEF LockBlock

\* A walk has dealt with everything up to where it goes on.
Reaches(f, e, c) ==
    /\ ~c /\ e = None => \A b \in Left(f.list, f) : Passed(f, b)
    /\ ~c /\ e # None => \A b \in Left(f.list, f) : b < e => Passed(f, b)
    /\ e # None => Linked(f.list, e) /\ \A b \in Range(f.called) : Passed(f, b) => b < e

\* Where it goes on.
GoesOn(f, e, c, g) == g = GoOn([f EXCEPT !.el = e, !.cut = c])

\* What GoOn changes.
LEMMA GoOnFields ==
  ASSUME NEW f \in FrameTypes, f.op # "add", f.pc \in {"front", "next"}, Shape(f),
         NEW e \in Lists, NEW c \in BOOLEAN, NEW g, GoesOn(f, e, c, g)
  PROVE  /\ g \in FrameTypes
         /\ g.op = f.op /\ g.tag = f.tag /\ g.key = f.key /\ g.todo = f.todo /\ g.name_list = f.name_list
         /\ g.type_list = f.type_list /\ g.call_type_handler = f.call_type_handler /\ g.el = e
         /\ g.called = f.called /\ g.present = f.present /\ g.barred = f.barred /\ g.cut = c /\ g.dying = None
         /\ \/ e # None /\ g.pc = "element" /\ g.list = f.list
            \/ e = None /\ f.op = "clear" /\ g.pc = "erase" /\ g.list = f.list
            \/ /\ e = None /\ f.op = "call" /\ f.call_type_handler /\ f.type_list \notin {None, f.list}
               /\ g.pc = "front" /\ g.list = f.type_list
            \/ /\ e = None /\ f.op = "call" /\ ~(f.call_type_handler /\ f.type_list \notin {None, f.list})
               /\ g.pc = "done" /\ g.list = f.list
  <1>1. PICK h : h = [f EXCEPT !.el = e, !.cut = c]
    OBVIOUS
  <1>2. h \in FrameTypes
    BY <1>1, Zenon DEF FrameTypes
  <1>3. /\ h.op = f.op /\ h.tag = f.tag /\ h.key = f.key /\ h.todo = f.todo /\ h.name_list = f.name_list
        /\ h.type_list = f.type_list /\ h.call_type_handler = f.call_type_handler /\ h.el = e /\ h.list = f.list
        /\ h.called = f.called /\ h.present = f.present /\ h.barred = f.barred /\ h.cut = c /\ h.dying = f.dying
    BY <1>1 DEF FrameTypes
  <1>4. f.dying = None
    BY DEF Shape
  <1>5. g = GoOn(h)
    BY <1>1 DEF GoesOn
  <1>6. f.op \in {"clear", "call"} /\ f.type_list \in Lists
    BY Fields
  <1>7. "element" \in Pcs /\ "erase" \in Pcs /\ "front" \in Pcs /\ "done" \in Pcs
    BY DEF Pcs
  <1>8. CASE e # None
    <2>1. g = [h EXCEPT !.pc = "element"]
      BY <1>3, <1>5, <1>8 DEF GoOn
    <2>2. g \in FrameTypes
      BY <1>2, <1>7, <2>1, Zenon DEF FrameTypes
    <2> QED
      BY <1>2, <1>3, <1>4, <1>8, <2>1, <2>2 DEF FrameTypes
  <1>9. CASE e = None /\ f.op = "clear"
    <2>1. g = [h EXCEPT !.pc = "erase"]
      BY <1>3, <1>5, <1>9 DEF GoOn, LoopEnd
    <2>2. g \in FrameTypes
      BY <1>2, <1>7, <2>1, Zenon DEF FrameTypes
    <2> QED
      BY <1>2, <1>3, <1>4, <1>9, <2>1, <2>2 DEF FrameTypes
  <1>10. CASE e = None /\ f.op = "call" /\ f.call_type_handler /\ f.type_list \notin {None, f.list}
    <2>1. g = [h EXCEPT !.pc = "front", !.list = f.type_list]
      BY <1>3, <1>5, <1>10 DEF GoOn, LoopEnd
    <2>2. g \in FrameTypes
      BY <1>2, <1>6, <1>7, <2>1, Zenon DEF FrameTypes
    <2>3. /\ g.op = h.op /\ g.tag = h.tag /\ g.key = h.key /\ g.todo = h.todo /\ g.name_list = h.name_list
          /\ g.type_list = h.type_list /\ g.call_type_handler = h.call_type_handler /\ g.el = h.el
          /\ g.called = h.called /\ g.present = h.present /\ g.barred = h.barred /\ g.cut = h.cut
          /\ g.dying = h.dying
      BY <1>2, <2>1 DEF FrameTypes
    <2>4. g.pc = "front" /\ g.list = f.type_list
      BY <1>2, <2>1 DEF FrameTypes
    <2> QED
      BY <1>3, <1>4, <1>10, <2>2, <2>3, <2>4, Zenon
  <1>11. CASE e = None /\ f.op = "call" /\ ~(f.call_type_handler /\ f.type_list \notin {None, f.list})
    <2>1. g = [h EXCEPT !.pc = "done"]
      BY <1>3, <1>5, <1>11 DEF GoOn, LoopEnd
    <2>2. g \in FrameTypes
      BY <1>2, <1>7, <2>1, Zenon DEF FrameTypes
    <2> QED
      BY <1>2, <1>3, <1>4, <1>11, <2>1, <2>2 DEF FrameTypes
  <1> QED
    BY <1>6, <1>8, <1>9, <1>10, <1>11

\* Reaching the next block keeps the walk right, cut short or not.
LEMMA GoOnOK ==
  ASSUME Types, NEW f \in FrameTypes, f.op # "add", f.pc \in {"front", "next"}, Shape(f), Known(f), WalkOK(f),
         NEW e \in Lists, NEW c \in BOOLEAN, f.cut => c, Reaches(f, e, c),
         NEW g, GoesOn(f, e, c, g)
  PROVE  /\ g \in FrameTypes /\ g.op = f.op /\ g.el = e /\ g.dying = None
         /\ g.pc \in {"front", "element", "erase", "done"} /\ (e # None => g.list = f.list)
         /\ Shape(g) /\ Known(g) /\ WalkOK(g)
  <1> DEFINE Cases ==
         \/ e # None /\ g.pc = "element" /\ g.list = f.list
         \/ e = None /\ f.op = "clear" /\ g.pc = "erase" /\ g.list = f.list
         \/ /\ e = None /\ f.op = "call" /\ f.call_type_handler /\ f.type_list \notin {None, f.list}
            /\ g.pc = "front" /\ g.list = f.type_list
         \/ /\ e = None /\ f.op = "call" /\ ~(f.call_type_handler /\ f.type_list \notin {None, f.list})
            /\ g.pc = "done" /\ g.list = f.list
  <1> DEFINE Same ==
         /\ g.op = f.op /\ g.tag = f.tag /\ g.key = f.key /\ g.todo = f.todo /\ g.name_list = f.name_list
         /\ g.type_list = f.type_list /\ g.call_type_handler = f.call_type_handler /\ g.el = e
         /\ g.called = f.called /\ g.present = f.present /\ g.barred = f.barred /\ g.cut = c /\ g.dying = None
  <1>1. g \in FrameTypes /\ Cases /\ Same
    BY GoOnFields
  <1>2. f.op \in {"clear", "call"} /\ f.list # None /\ f.type_list \in Lists
    BY Fields DEF Shape, Place

  <1>3. Shape(g)
    BY <1>1, <1>2 DEF Shape, Place
  <1>4. Known(g)
    <2>1. g.dying =< born
      BY <1>1, SMT DEF None, Types
    <2> QED
      BY <1>1, <2>1, Zenon DEF Known
  <1>5. \A l : Left(l, g) = Left(l, f)
    BY <1>1 DEF Left
  <1>6. Place(g) = g.pc /\ Place(f) = f.pc
    BY <1>1 DEF Place
  <1>7. Walked(f)
    BY Zenon DEF WalkOK
  <1>8. ~c => ~f.cut
    OBVIOUS
  <1>9. ~c /\ e = None => Left(f.list, f) \subseteq Range(f.called)
    BY <1>7, <1>8, Zenon DEF Walked, Reaches
  <1>10. \A b : Passed(g, b) <=> (g.pc = "element" /\ b < e) \/ g.pc \in {"erase", "done"}
    BY <1>1, <1>6 DEF Passed
  <1>11. Walked(g)
    <2> SUFFICES ASSUME ~c, NEW b \in Left(g.list, f), Passed(g, b) PROVE b \in Range(f.called)
      BY <1>1, <1>5, Zenon DEF Walked
    <2>1. CASE g.pc = "element"
      BY <1>1, <1>7, <1>8, <1>10, <2>1 DEF Reaches, Walked
    <2>2. CASE g.pc \in {"erase", "done"}
      BY <1>1, <1>9, <2>2
    <2> QED
      BY <1>10, <2>1, <2>2
  <1>12. ASSUME f.op = "call" PROVE CallOK(g)
    <2>1. CallOrder(f) /\ CallWhole(f) /\ CallTypes(f) /\ CallBarred(f)
      BY <1>12, Zenon DEF WalkOK, CallOK
    <2>2. CallOrder(g)
      <3>1. InOrder(g.name_list, g) /\ InOrder(g.type_list, g)
        BY <1>1, <2>1 DEF CallOrder, InOrder
      <3>2. \A i, j \in DOMAIN g.called : g.called[i] = g.called[j] => i = j
        BY <1>1, <2>1 DEF CallOrder
      <3>3. \A b \in Range(g.called) : g.list # None /\ Linked(g.list, b) => Passed(g, b)
        BY <1>1, <1>2, <1>10, <2>1 DEF CallOrder, Reaches
      <3>4. g.list # g.type_list => \A b \in Range(g.called) : g.type_list # None => ~Linked(g.type_list, b)
        BY <1>1, <2>1 DEF CallOrder
      <3> QED
        BY <3>1, <3>2, <3>3, <3>4, Zenon DEF CallOrder
    <2>3. CallWhole(g)
      <3>1. f.list # f.type_list => f.list = f.name_list
        BY <1>2, <1>12 DEF Shape
      <3>2. Left(None, f) = {}
        BY DEF Left
      <3>3. ~c /\ (g.list = f.type_list \/ g.pc = "done") => Left(f.name_list, f) \subseteq Range(f.called)
        <4> SUFFICES ASSUME ~c, g.list = f.type_list \/ g.pc = "done"
                     PROVE  Left(f.name_list, f) \subseteq Range(f.called)
          OBVIOUS
        <4>1. CASE f.list = f.type_list
          BY <1>8, <2>1, <4>1, Zenon DEF CallWhole
        <4>2. CASE f.list # f.type_list
          <5>1. e = None
            BY <1>1, <4>2
          <5> QED
            BY <1>9, <3>1, <4>2, <5>1, Zenon
        <4> QED
          BY <4>1, <4>2
      <3>4. ~c /\ f.call_type_handler /\ g.pc = "done" => Left(f.type_list, f) \subseteq Range(f.called)
        <4> SUFFICES ASSUME ~c, f.call_type_handler, g.pc = "done"
                     PROVE  Left(f.type_list, f) \subseteq Range(f.called)
          OBVIOUS
        <4>1. e = None /\ (f.type_list = None \/ f.type_list = f.list)
          BY <1>1
        <4> QED
          BY <1>9, <3>2, <4>1, Zenon
      <3> QED
        BY <1>1, <1>5, <1>6, <3>3, <3>4, Zenon DEF CallWhole
    <2>4. CallTypes(g)
      <3>1. g.pc # "invoke" /\ f.pc # "invoke"
        BY <1>1
      <3>2. g.list # None /\ g.list = g.type_list => g.call_type_handler
        BY <1>1, <1>2, <2>1 DEF CallTypes
      <3> QED
        BY <1>1, <2>1, <3>1, <3>2, Zenon DEF CallTypes
    <2>5. CallBarred(g)
      BY <1>1, <2>1, Zenon DEF CallBarred
    <2> QED
      BY <2>2, <2>3, <2>4, <2>5, Zenon DEF CallOK
  <1>13. ASSUME f.op = "clear" PROVE ClearOK(g)
    <2>1. ClearOK(f)
      BY <1>13, Zenon DEF WalkOK
    <2>2. Place(g) # "done" /\ Place(f) # "done" /\ g.list = f.list
      BY <1>1, <1>6, <1>13
    <2> QED
      BY <1>1, <1>5, <1>8, <2>1, <2>2, Zenon DEF ClearOK
  <1>14. g.pc \in {"front", "element", "erase", "done"} /\ (e # None => g.list = f.list)
    BY <1>1
  <1>15. WalkOK(g)
    BY <1>1, <1>11, <1>12, <1>13, Zenon DEF WalkOK
  <1> QED
    BY <1>1, <1>3, <1>4, <1>14, <1>15

\* A thread that lets go of a block has to unlink it, or somebody holds it.
LEMMA Released ==
  ASSUME Types, NEW t \in Threads, stack[t] # <<>>, NEW h \in FrameTypes, Release(t, h), NEW old, old = Top(t).el
  PROVE  \E g : /\ SetTop(t, g)
                /\ \/ g = h /\ Held(old, stack')
                   \/ Unlinks(h, old, g) /\ ~Held(old, stack')
  <1>1. PICK s : s = [stack EXCEPT ![t][Len(stack[t])] = h]
    OBVIOUS
  <1>2. CASE Held(old, s)
    <2>1. SetTop(t, h) /\ stack' = s
      BY <1>1, <1>2 DEF Release, SetTop
    <2> QED
      BY <1>2, <2>1
  <1>3. CASE ~Held(old, s)
    <2>1. PICK g : g = [h EXCEPT !.dying = old, !.pc = "unlink", !.after = h.pc]
      OBVIOUS
    <2>2. SetTop(t, g)
      BY <1>1, <1>3, <2>1 DEF Release
    <2>3. TopSet(stack, stack', t, g) /\ TopSet(stack, s, t, h)
      BY <1>1, <2>2, Zenon DEF SetTop, TopSet
    <2>4. g.el = h.el
      BY <2>1 DEF FrameTypes
    <2>5. \A u \in Threads : \A i \in DOMAIN stack'[u] : stack'[u][i].el = s[u][i].el /\ i \in DOMAIN s[u]
      <3>1. old \in Lists /\ "unlink" \in Pcs /\ h.pc \in Pcs
        BY TopIs, Fields DEF Pcs
      <3>2. g \in FrameTypes /\ stack \in [Threads -> Seq(FrameTypes)]
        BY <2>1, <3>1, Zenon DEF FrameTypes, Types
      <3>3. /\ \A u \in Threads : DOMAIN stack'[u] = DOMAIN stack[u]
            /\ stack'[t][Len(stack[t])] = g
            /\ \A u \in Threads : \A i \in DOMAIN stack[u] : u # t \/ i # Len(stack[t]) => stack'[u][i] = stack[u][i]
        BY <2>3, <3>2, TopChanged
      <3>4. /\ \A u \in Threads : DOMAIN s[u] = DOMAIN stack[u]
            /\ s[t][Len(stack[t])] = h
            /\ \A u \in Threads : \A i \in DOMAIN stack[u] : u # t \/ i # Len(stack[t]) => s[u][i] = stack[u][i]
        BY <2>3, <3>2, TopChanged
      <3> TAKE u \in Threads
      <3> TAKE i \in DOMAIN stack'[u]
      <3>5. i \in DOMAIN stack[u] /\ i \in DOMAIN s[u]
        BY <3>3, <3>4, Zenon
      <3>6. CASE u = t /\ i = Len(stack[t])
        BY <2>4, <3>3, <3>4, <3>5, <3>6, Zenon
      <3>7. CASE ~(u = t /\ i = Len(stack[t]))
        <4>1. stack'[u][i] = stack[u][i]
          BY <3>3, <3>5, <3>7
        <4>2. s[u][i] = stack[u][i]
          BY <3>4, <3>5, <3>7
        <4> QED
          BY <3>5, <4>1, <4>2
      <3> QED
        BY <3>6, <3>7
    <2>6. ~Held(old, stack')
      <3>1. old \notin element /\ ~\E f \in Frames(s) : f.el = old
        BY <1>3, Zenon DEF Held
      <3>2. ASSUME NEW f \in Frames(stack'), f.el = old PROVE FALSE
        <4>1. PICK u \in Threads : \E i \in DOMAIN stack'[u] : f = stack'[u][i]
          BY FramesAre
        <4>2. PICK i \in DOMAIN stack'[u] : f = stack'[u][i]
          BY <4>1
        <4>3. s[u][i] \in Frames(s) /\ s[u][i].el = old
          BY <2>5, <3>2, <4>2, FramesAre, Zenon
        <4> QED
          BY <3>1, <4>3, Zenon
      <3> QED
        BY <3>1, <3>2, Zenon DEF Held
    <2> QED
      BY <2>1, <2>2, <2>6, Zenon DEF Unlinks
  <1> QED
    BY <1>2, <1>3

\* What holds of the innermost operation of a thread.
LEMMA TopOK ==
  ASSUME IInv, NEW t \in Threads, stack[t] # <<>>
  PROVE  /\ Top(t) \in Frames(stack) /\ Top(t) \in FrameTypes /\ Shape(Top(t)) /\ Known(Top(t)) /\ WalkOK(Top(t))
         /\ (Top(t).el # None => Linked(Top(t).list, Top(t).el) /\ Top(t).list \in Handlers /\ Top(t).el \in Handlers
                                 /\ Top(t).el \in Range(ring[Top(t).list]) /\ Top(t).el =< born)
         /\ (Top(t).op = "clear" /\ Top(t).pc # "lock" => m_lock = {t})
  <1>1. Types /\ FramesOK /\ Walks /\ Blocks /\ Rings /\ LockKept
    BY Zenon DEF IInv
  <1>2. Top(t) \in Frames(stack) /\ Top(t) \in FrameTypes /\ Len(stack[t]) \in DOMAIN stack[t] /\ Top(t) = stack[t][Len(stack[t])]
    BY <1>1, TopIs
  <1>3. Shape(Top(t)) /\ Known(Top(t)) /\ WalkOK(Top(t))
    BY <1>1, <1>2, Zenon DEF FramesOK, Walks, WalkOK
  <1>4. ASSUME Top(t).el # None
        PROVE  Linked(Top(t).list, Top(t).el) /\ Top(t).list \in Handlers /\ Top(t).el \in Handlers
               /\ Top(t).el \in Range(ring[Top(t).list]) /\ Top(t).el =< born
    <2>1. Top(t).list \in Handlers
      BY <1>2, <1>3, <1>4, ElHasList
    <2>2. Linked(Top(t).list, Top(t).el)
      BY <1>1, <1>2, <1>4, Zenon DEF Blocks
    <2>3. Top(t).el \in Handlers
      BY <1>2, <1>4, Fields, NoneIsNoHandler, Zenon
    <2> QED
      BY <1>1, <2>1, <2>2, <2>3, Zenon DEF Rings, Linked
  <1>5. Top(t).op = "clear" /\ Top(t).pc # "lock" => m_lock = {t}
    BY <1>1, <1>2, Zenon DEF LockKept
  <1> QED
    BY <1>2, <1>3, <1>4, <1>5, Zenon

\* The lock stays as it is.
LEMMA LockStays ==
  ASSUME IInv, NEW t \in Threads, stack[t] # <<>>, NEW g \in FrameTypes, SetTop(t, g), m_lock' = m_lock,
         g.op = Top(t).op, g.op = "clear" => Top(t).pc # "lock"
  PROVE  LockKept' /\ (m_lock' = {} \/ \E u \in Threads : m_lock' = {u})
  <1>1. Types /\ LockKept
    BY Zenon DEF IInv
  <1>2. LockKept'
    BY <1>1, SetLockKept
  <1> QED
    BY <1>1, <1>2, Zenon DEF Types

\* The return of a handler keeps the invariant.
LEMMA HandlerReturnsKeeps ==
  ASSUME IInv, NEW t \in Threads, HandlerReturns(t)
  PROVE  IInv'
  <1>1. PICK f : f = Top(t)
    OBVIOUS
  <1>2. PICK g : g = [f EXCEPT !.pc = "next", !.call_type_handler = TypeHandlerWanted(f)]
    OBVIOUS
  <1>3. /\ stack[t] # <<>> /\ f.pc = "invoke" /\ SetTop(t, g) /\ m_lock' = m_lock
        /\ UNCHANGED <<table, attributes, gone>>
    BY <1>1, <1>2 DEF HandlerReturns, At
  <1>4. /\ f \in Frames(stack) /\ f \in FrameTypes /\ Shape(f) /\ Known(f) /\ WalkOK(f)
        /\ (f.el # None => Linked(f.list, f.el))
    BY <1>1, <1>3, TopOK, Zenon
  <1>5. TypeHandlerWanted(f) \in BOOLEAN /\ "next" \in Pcs
    BY DEF Pcs, TypeHandlerWanted
  <1>6. g \in FrameTypes
    BY <1>2, <1>4, <1>5, Zenon DEF FrameTypes
  <1>7. /\ g.op = f.op /\ g.tag = f.tag /\ g.key = f.key /\ g.todo = f.todo /\ g.list = f.list /\ g.name_list = f.name_list
        /\ g.type_list = f.type_list /\ g.el = f.el /\ g.called = f.called
        /\ g.present = f.present /\ g.barred = f.barred /\ g.cut = f.cut /\ g.dying = f.dying /\ g.pc = "next"
    BY <1>2, <1>4 DEF FrameTypes
  <1>8. g.call_type_handler = TypeHandlerWanted(f)
    BY <1>2, <1>4, Zenon DEF FrameTypes
  <1>9. f.op = "call" /\ f.el # None /\ f.dying = None /\ f.called # <<>> /\ f.el = Last(f.called)
    BY <1>3, <1>4, Fields DEF Shape, Place
  <1>10. Shape(g)
    BY <1>3, <1>4, <1>7, <1>9 DEF Shape, Place
  <1>11. Known(g)
    BY <1>4, <1>7, Zenon DEF Known
  <1>12. \A b : Passed(g, b) <=> Passed(f, b)
    BY <1>3, <1>7 DEF Passed, Place
  <1>13. \A l : Left(l, g) = Left(l, f)
    BY <1>7 DEF Left
  <1>14. Place(g) # "done" /\ Place(f) # "done"
    BY <1>3, <1>7 DEF Place
  <1>15. Walked(f) /\ CallOrder(f) /\ CallWhole(f) /\ CallTypes(f) /\ CallBarred(f)
    BY <1>3, <1>4, <1>9 DEF WalkOK, CallOK
  <1>16. Walked(g)
    BY <1>7, <1>12, <1>13, <1>15, Zenon DEF Walked
  <1>17. CallOrder(g)
    BY <1>7, <1>12, <1>15 DEF CallOrder, InOrder
  <1>18. CallWhole(g)
    BY <1>7, <1>13, <1>14, <1>15, Zenon DEF CallWhole
  <1>19. CallTypes(g)
    <2>1. f.called \in Seq(Handlers)
      BY <1>4, Called
    <2>2. Len(f.called) \in DOMAIN f.called /\ f.called[Len(f.called)] = f.el /\ f.el \in Range(f.called)
      BY <1>9, <2>1 DEF Last, Range
    <2>3. TypeHandlerWanted(f) <=> f.call_type_handler \/ ~skip[f.el]
      BY DEF TypeHandlerWanted
    <2>4. ASSUME NEW i \in DOMAIN g.called, ~skip[g.called[i]] PROVE g.call_type_handler
      <3>1. i < Len(f.called) \/ i = Len(f.called)
        BY <1>7, <2>1
      <3> QED
        BY <1>7, <1>8, <1>15, <2>2, <2>3, <2>4, <3>1, Zenon DEF CallTypes
    <2>5. g.name_list = None => g.call_type_handler
      BY <1>7, <1>8, <1>15, <2>3, Zenon DEF CallTypes
    <2>6. g.list # None /\ g.list = g.type_list => g.call_type_handler
      BY <1>7, <1>8, <1>15, <2>3, Zenon DEF CallTypes
    <2>7. g.call_type_handler => g.name_list = None \/ \E b \in Range(g.called) : ~skip[b]
      BY <1>7, <1>8, <1>15, <2>2, <2>3, Zenon DEF CallTypes
    <2> QED
      BY <2>4, <2>5, <2>6, <2>7, Zenon DEF CallTypes
  <1>20. CallBarred(g)
    BY <1>7, <1>15, Zenon DEF CallBarred
  <1>21. WalkOK(g)
    BY <1>7, <1>9, <1>16, <1>17, <1>18, <1>19, <1>20 DEF WalkOK, CallOK
  <1>22. Held(f.el, stack) /\ Held(g.el, stack')
    <2>1. g \in Frames(stack')
      BY <1>3, <1>6, SetTopFrames, Zenon DEF IInv
    <2> QED
      BY <1>4, <2>1, Zenon DEF Held
  <1>23. LockKept' /\ (m_lock' = {} \/ \E u \in Threads : m_lock' = {u})
    BY <1>1, <1>3, <1>6, <1>7, <1>9, LockStays
  <1> QED
    BY <1>1, <1>3, <1>4, <1>6, <1>7, <1>9, <1>10, <1>11, <1>21, <1>22, <1>23, TableKept

\* A thread that lets go of a block keeps the invariant, wherever it goes on.
LEMMA ReleaseKept ==
  ASSUME IInv, NEW t \in Threads, stack[t] # <<>>, NEW h \in FrameTypes, Release(t, h),
         UNCHANGED <<table, attributes, gone>>, m_lock' = m_lock,
         Top(t).el # None, Top(t).dying = None, Top(t).op # "add", Top(t).pc # "lock",
         h.pc \in {"front", "element", "erase", "done"}, h.op = Top(t).op, h.dying = None,
         h.el # None => Held(h.el, stack) /\ Linked(h.list, h.el), Shape(h), Known(h), WalkOK(h)
  PROVE  IInv'
  <1>1. PICK old : old = Top(t).el
    OBVIOUS
  <1>2. old \in Handlers /\ old =< born
    BY <1>1, TopOK, Zenon
  <1>3. Types
    BY Zenon DEF IInv
  <1>4. PICK g : /\ SetTop(t, g)
                 /\ \/ g = h /\ Held(old, stack')
                    \/ Unlinks(h, old, g) /\ ~Held(old, stack')
    BY <1>1, <1>3, Released
  <1>5. CASE g = h /\ Held(old, stack')
    <2>1. SetTop(t, h)
      BY <1>4, <1>5
    <2>2. LockKept' /\ (m_lock' = {} \/ \E u \in Threads : m_lock' = {u})
      BY <2>1, LockStays
    <2> QED
      BY <1>1, <1>5, <2>1, <2>2, TableKept
  <1>6. CASE Unlinks(h, old, g) /\ ~Held(old, stack')
    <2>1. /\ g \in FrameTypes /\ g.pc = "unlink" /\ g.dying = old /\ g.el = h.el /\ g.list = h.list /\ g.op = h.op
          /\ Shape(g) /\ Known(g) /\ WalkOK(g)
      BY <1>2, <1>6, ToUnlink
    <2>2. LockKept' /\ (m_lock' = {} \/ \E u \in Threads : m_lock' = {u})
      BY <1>4, <2>1, LockStays
    <2>3. g.el # None => Held(g.el, stack) /\ Linked(g.list, g.el)
      BY <2>1
    <2> QED
      BY <1>1, <1>4, <1>6, <2>1, <2>2, <2>3, TableKept
  <1> QED
    BY <1>4, <1>5, <1>6

\* Front keeps the invariant.
LEMMA WalkFrontKeeps ==
  ASSUME IInv, NEW t \in Threads, WalkFront(t)
  PROVE  IInv'
  <1>1. PICK f : f = Top(t)
    OBVIOUS
  <1>2. PICK p : p = FirstPointer(f.list)
    OBVIOUS
  <1>3. PICK e : e = LockBlock(p, stack)
    OBVIOUS
  <1>4. PICK c \in BOOLEAN : c = (f.cut \/ e # p)
    OBVIOUS
  <1>5. PICK g : g = GoOn([f EXCEPT !.el = e, !.cut = c])
    OBVIOUS
  <1>6. /\ stack[t] # <<>> /\ f.pc = "front" /\ SetTop(t, g) /\ m_lock' = m_lock
        /\ UNCHANGED <<table, attributes, gone>>
    BY <1>1, <1>2, <1>3, <1>4, <1>5 DEF WalkFront, At
  <1>7. f \in Frames(stack) /\ f \in FrameTypes /\ Shape(f) /\ Known(f) /\ WalkOK(f)
    BY <1>1, <1>6, TopOK, Zenon
  <1>8. Types /\ Rings
    BY Zenon DEF IInv
  <1>9. f.op # "add" /\ f.list \in Handlers /\ f.el = None /\ f.dying = None
    BY <1>6, <1>7, Fields, NoneIsNoHandler DEF Shape, Place
  <1>10. \/ p = None /\ Range(ring[f.list]) = {}
         \/ p \in Handlers /\ Linked(f.list, p) /\ \A x \in Range(ring[f.list]) : p =< x
    BY <1>2, <1>8, <1>9, FirstIs
  <1>11. p \in Lists
    BY <1>10 DEF Lists
  <1>12. e \in {None, p} /\ (e # None => Held(e, stack)) /\ (~c => e = p)
    BY <1>3, <1>4, <1>11, LockIs
  <1>13. e \in Lists
    BY <1>11, <1>12 DEF Lists
  <1>14. Reaches(f, e, c)
    <2>1. \A b \in Left(f.list, f) : b \in Range(ring[f.list]) /\ b \in Handlers
      BY <1>8, <1>9, RingTypes DEF Left, Linked
    <2>2. \A b : ~Passed(f, b)
      BY <1>6 DEF Passed, Place
    <2>3. ~c /\ e = None => Left(f.list, f) = {}
      BY <1>10, <1>12, <2>1, NoneIsNoHandler
    <2>4. ~c /\ e # None => \A b \in Left(f.list, f) : ~(b < e)
      <3> SUFFICES ASSUME ~c, e # None, NEW b \in Left(f.list, f) PROVE ~(b < e)
        OBVIOUS
      <3>1. e = p /\ p \in Handlers /\ p =< b /\ b \in Handlers
        BY <1>10, <1>12, <2>1
      <3> QED
        BY <3>1 DEF Handlers
    <2>5. e # None => Linked(f.list, e)
      BY <1>10, <1>12
    <2> QED
      BY <2>2, <2>3, <2>4, <2>5 DEF Reaches
  <1>15. GoesOn(f, e, c, g)
    BY <1>5 DEF GoesOn
  <1>16. f.cut => c
    BY <1>4
  <1>17. /\ g \in FrameTypes /\ g.op = f.op /\ g.el = e /\ g.dying = None
         /\ g.pc \in {"front", "element", "erase", "done"} /\ (e # None => g.list = f.list)
         /\ Shape(g) /\ Known(g) /\ WalkOK(g)
    BY <1>6, <1>7, <1>8, <1>9, <1>13, <1>14, <1>15, <1>16, GoOnOK
  <1>18. LockKept' /\ (m_lock' = {} \/ \E u \in Threads : m_lock' = {u})
    BY <1>1, <1>6, <1>17, LockStays
  <1>19. g.el # None => Held(g.el, stack) /\ Linked(g.list, g.el)
    BY <1>12, <1>14, <1>17 DEF Reaches
  <1> QED
    BY <1>1, <1>6, <1>9, <1>17, <1>18, <1>19, TableKept

\* GetNext keeps the invariant.
LEMMA WalkNextKeeps ==
  ASSUME IInv, NEW t \in Threads, WalkNext(t)
  PROVE  IInv'
  <1>1. PICK f : f = Top(t)
    OBVIOUS
  <1>2. PICK p : p = NextPointer(f.list, f.el)
    OBVIOUS
  <1>3. PICK e : e = LockBlock(p, stack)
    OBVIOUS
  <1>4. PICK c \in BOOLEAN : c = (f.cut \/ e # p)
    OBVIOUS
  <1>5. PICK h : h = GoOn([f EXCEPT !.el = e, !.cut = c])
    OBVIOUS
  <1>6. /\ stack[t] # <<>> /\ f.pc = "next" /\ Release(t, h) /\ m_lock' = m_lock
        /\ UNCHANGED <<table, attributes, gone>>
    BY <1>1, <1>2, <1>3, <1>4, <1>5 DEF WalkNext, At
  <1>7. f \in Frames(stack) /\ f \in FrameTypes /\ Shape(f) /\ Known(f) /\ WalkOK(f)
    BY <1>1, <1>6, TopOK, Zenon
  <1>8. Types /\ Rings
    BY Zenon DEF IInv
  <1>9. f.op # "add" /\ f.el # None /\ f.dying = None
    BY <1>6, <1>7 DEF Shape, Place
  <1>10. f.list \in Handlers /\ f.el \in Range(ring[f.list]) /\ f.el \in Handlers /\ f.el =< born
    BY <1>1, <1>6, <1>9, TopOK, Zenon
  <1>11. \/ p = None /\ \A x \in Range(ring[f.list]) : x =< f.el
         \/ /\ p \in Handlers /\ Linked(f.list, p) /\ f.el < p
            /\ \A x \in Range(ring[f.list]) : x < p => x =< f.el
    BY <1>2, <1>8, <1>10, NextIs
  <1>12. p \in Lists
    BY <1>11 DEF Lists
  <1>13. e \in {None, p} /\ (e # None => Held(e, stack)) /\ (~c => e = p)
    BY <1>3, <1>4, <1>12, LockIs
  <1>14. e \in Lists
    BY <1>12, <1>13 DEF Lists
  <1>15. Reaches(f, e, c)
    <2>1. \A b \in Left(f.list, f) : b \in Range(ring[f.list])
      BY DEF Left, Linked
    <2>2. \A b : Passed(f, b) <=> b =< f.el
      BY <1>6 DEF Passed, Place
    <2>3. ~c /\ e = None => \A b \in Left(f.list, f) : b =< f.el
      BY <1>11, <1>13, <2>1, NoneIsNoHandler
    <2>4. ~c /\ e # None => \A b \in Left(f.list, f) : b < e => b =< f.el
      BY <1>11, <1>13, <2>1
    <2>5. e # None => Linked(f.list, e) /\ f.el < e /\ e \in Handlers
      BY <1>11, <1>13
    <2>6. e # None => \A b \in Range(f.called) : b =< f.el => b < e
      <3> SUFFICES ASSUME e # None, NEW b \in Range(f.called), b =< f.el PROVE b < e
        OBVIOUS
      <3>1. b \in Handlers
        BY <1>7, Called
      <3> QED
        BY <1>10, <2>5, <3>1 DEF Handlers
    <2> QED
      BY <2>2, <2>3, <2>4, <2>5, <2>6 DEF Reaches
  <1>16. GoesOn(f, e, c, h)
    BY <1>5 DEF GoesOn
  <1>17. f.cut => c
    BY <1>4
  <1>18. /\ h \in FrameTypes /\ h.op = f.op /\ h.el = e /\ h.dying = None
         /\ h.pc \in {"front", "element", "erase", "done"} /\ (e # None => h.list = f.list)
         /\ Shape(h) /\ Known(h) /\ WalkOK(h)
    BY <1>6, <1>7, <1>8, <1>9, <1>14, <1>15, <1>16, <1>17, GoOnOK
  <1>19. h.el # None => Held(h.el, stack) /\ Linked(h.list, h.el)
    BY <1>13, <1>15, <1>18 DEF Reaches
  <1> QED
    BY <1>1, <1>6, <1>9, <1>10, <1>18, <1>19, ReleaseKept

-----------------------------------------------------------------------------
(* Looking up the lists                                                    *)

\* CallName, looking up both lists, keeps the invariant.
LEMMA CallNameKeeps ==
  ASSUME IInv, NEW t \in Threads, CallName(t)
  PROVE  IInv'
  <1>1. PICK f : f = Top(t)
    OBVIOUS
  <1>2. PICK name : name = procs[f.key]
    OBVIOUS
  <1>3. PICK type : type = procs[TypeKey(f.key)]
    OBVIOUS
  <1>4. PICK c \in BOOLEAN : c = (name = None)
    OBVIOUS
  <1>5. PICK h : h = [f EXCEPT !.name_list = name, !.type_list = type, !.call_type_handler = c,
                               !.present = LiveOf(name) \cup LiveOf(type), !.barred = gone]
    OBVIOUS
  <1>6. PICK g : g = CASE name # None -> [h EXCEPT !.list = name, !.pc = "front"]
                       [] name = None /\ type # None -> [h EXCEPT !.list = type, !.pc = "front"]
                       [] OTHER -> [h EXCEPT !.pc = "done"]
    OBVIOUS
  <1>7. /\ stack[t] # <<>> /\ f.pc = "lock" /\ f.op = "call" /\ m_lock' = m_lock /\ SetTop(t, g)
        /\ UNCHANGED <<table, attributes, gone>>
    BY <1>1, <1>2, <1>3, <1>4, <1>5, <1>6 DEF CallName, At, LookupLock
  <1>8. f \in Frames(stack) /\ f \in FrameTypes /\ Shape(f) /\ Known(f)
    BY <1>1, <1>7, TopOK, Zenon
  <1>9. Types /\ Rings /\ GoneOK
    BY Zenon DEF IInv
  <1>10. f.key \in Events /\ f.key \in Keys /\ TypeKey(f.key) \in Keys /\ f.key # TypeKey(f.key)
    BY <1>7, <1>8, EventHandlerMapNames DEF Shape, Keys
  <1>11. name \in Lists /\ type \in Lists /\ (name # None => name # type)
    BY <1>2, <1>3, <1>9, <1>10 DEF Types, Rings
  <1>12. /\ f.list = None /\ f.called = <<>> /\ f.el = None /\ f.dying = None
    BY <1>7, <1>8 DEF Shape, Place
  <1>13. \A l \in Lists : LiveOf(l) \subseteq element
    BY DEF LiveOf, Live
  <1>14. LiveOf(name) \cup LiveOf(type) \in SUBSET Handlers /\ gone \in SUBSET Handlers
    BY <1>9, <1>11, <1>13 DEF Types
  <1>15. h \in FrameTypes
    BY <1>5, <1>8, <1>11, <1>14, Zenon DEF FrameTypes
  <1>16. /\ h.op = f.op /\ h.key = f.key /\ h.list = f.list /\ h.name_list = name
         /\ h.type_list = type /\ h.el = f.el /\ h.called = f.called /\ h.dying = f.dying
         /\ h.present = LiveOf(name) \cup LiveOf(type) /\ h.barred = gone /\ h.call_type_handler = c
    BY <1>5, <1>8 DEF FrameTypes
  <1>17. "front" \in Pcs /\ "done" \in Pcs
    BY DEF Pcs
  <1>18. PICK l \in Lists : l = IF name # None THEN name ELSE type
    BY <1>11
  <1>19. PICK q \in Pcs : q = IF l = None THEN "done" ELSE "front"
    BY <1>17
  <1>20. g = [h EXCEPT !.list = l, !.pc = q]
    <2>1. CASE l = None
      <3>1. g = [h EXCEPT !.pc = "done"] /\ h.list = l
        BY <1>6, <1>12, <1>16, <1>18, <2>1
      <3> QED
        BY <1>15, <1>19, <2>1, <3>1 DEF FrameTypes
    <2>2. CASE l # None
      BY <1>6, <1>18, <1>19, <2>2
    <2> QED
      BY <2>1, <2>2
  <1>21. g \in FrameTypes
    BY <1>15, <1>18, <1>19, <1>20, Zenon DEF FrameTypes
  <1>22. /\ g.op = "call" /\ g.key = f.key /\ g.list = l /\ g.name_list = name /\ g.pc = q
         /\ g.type_list = type /\ g.el = None /\ g.called = <<>> /\ g.dying = None
         /\ g.present = LiveOf(name) \cup LiveOf(type) /\ g.barred = gone /\ g.call_type_handler = c
    BY <1>7, <1>12, <1>15, <1>16, <1>20 DEF FrameTypes
  <1>23. Place(g) = q
    BY <1>19, <1>22 DEF Place
  <1>24. Shape(g)
    BY <1>10, <1>11, <1>18, <1>19, <1>22, <1>23 DEF Shape
  <1>25. Range(<<>>) = {} /\ DOMAIN <<>> = {}
    BY DEF Range
  <1>26. Known(g)
    <2>1. None =< born /\ name =< born /\ type =< born
      BY <1>2, <1>3, <1>9, <1>10, SMT DEF Rings, None, Types
    <2>2. l =< born
      BY <1>18, <2>1
    <2>3. LiveOf(name) \cup LiveOf(type) \subseteq 1 .. born /\ gone \subseteq 1 .. born
      BY <1>9, <1>11, <1>13 DEF Types
    <2> QED
      BY <1>22, <1>25, <2>1, <2>2, <2>3, Zenon DEF Known
  <1>27. Left(None, g) = {}
    BY DEF Left
  <1>28. Walked(g)
    <2>1. q = "done" \/ q = "front"
      BY <1>19
    <2>2. q = "front" => \A b : ~Passed(g, b)
      BY <1>23 DEF Passed
    <2>3. q = "done" => Left(g.list, g) = {}
      BY <1>19, <1>22, <1>27
    <2> QED
      BY <2>1, <2>2, <2>3, Zenon DEF Walked
  <1>29. CallOrder(g)
    BY <1>22, <1>25 DEF CallOrder, InOrder
  <1>30. CallWhole(g)
    <2>1. g.list = g.type_list \/ Place(g) = "done" => name = None
      BY <1>11, <1>18, <1>19, <1>22, <1>23
    <2>2. Place(g) = "done" => type = None
      BY <1>18, <1>19, <1>23
    <2>3. g.list = g.type_list \/ Place(g) = "done" => Left(g.name_list, g) = {}
      BY <1>22, <1>27, <2>1, Zenon
    <2>4. Place(g) = "done" => Left(g.type_list, g) = {}
      BY <1>22, <1>27, <2>2, Zenon
    <2> QED
      BY <2>3, <2>4, Zenon DEF CallWhole
  <1>31. CallTypes(g)
    <2>1. g.call_type_handler <=> name = None
      BY <1>4, <1>22, Zenon
    <2>2. g.list # None /\ g.list = g.type_list => name = None
      BY <1>11, <1>18, <1>22
    <2> QED
      BY <1>22, <1>25, <2>1, <2>2, Zenon DEF CallTypes
  <1>32. CallBarred(g)
    BY <1>2, <1>3, <1>9, <1>10, <1>22, <1>25, Zenon DEF CallBarred, GoneOK
  <1>33. WalkOK(g)
    BY <1>22, <1>28, <1>29, <1>30, <1>31, <1>32 DEF WalkOK, CallOK
  <1>34. LockKept' /\ (m_lock' = {} \/ \E u \in Threads : m_lock' = {u})
    BY <1>1, <1>7, <1>21, <1>22, LockStays
  <1> QED
    BY <1>1, <1>7, <1>12, <1>21, <1>22, <1>24, <1>26, <1>33, <1>34, TableKept

-----------------------------------------------------------------------------
(* Clearing the lists one after the other                                  *)

\* Where a clear goes on that has some lists left.
LEMMA NextKeyIs ==
  ASSUME Types, NEW f \in FrameTypes, NEW todo \in SUBSET Keys, NEW g \in NextKey(f, todo)
  PROVE  /\ g \in FrameTypes
         /\ g.op = f.op /\ g.tag = f.tag /\ g.name_list = f.name_list /\ g.type_list = f.type_list
         /\ g.called = f.called /\ g.present = f.present /\ g.barred = f.barred /\ g.cut = f.cut
         /\ g.dying = f.dying /\ g.el = None
         /\ \/ g.pc = "done" /\ g.todo = {} /\ g.list = f.list /\ \A k \in todo : procs[k] = None
            \/ /\ g.pc = "front" /\ g.key \in todo /\ g.list = procs[g.key] /\ g.list # None /\ g.key \notin g.todo
               /\ g.todo \subseteq todo /\ \A k \in todo : procs[k] # None => k \in g.todo \/ k = g.key
  <1> DEFINE used == {k \in todo : procs[k] # None}
  <1> DEFINE next == IF used \cap Events # {} THEN used \cap Events ELSE used
  <1>1. next \subseteq used
    OBVIOUS
  <1>2. g \in IF used = {} THEN {[f EXCEPT !.pc = "done", !.todo = {}, !.el = None]}
              ELSE {[f EXCEPT !.pc = "front", !.key = k, !.todo = used \ {k}, !.list = procs[k], !.el = None] : k \in next}
    BY DEF NextKey
  <1>3. used \subseteq todo /\ used \subseteq Keys /\ (\A k \in used : procs[k] # None)
        /\ (\A k \in todo : procs[k] # None => k \in used)
    OBVIOUS
  <1> HIDE DEF used, next
  <1>4. None \in Lists /\ "done" \in Pcs /\ "front" \in Pcs /\ {} \in SUBSET Keys
    BY DEF Lists, Pcs
  <1>5. CASE used = {}
    <2>1. g = [f EXCEPT !.pc = "done", !.todo = {}, !.el = None]
      BY <1>2, <1>5
    <2>2. g \in FrameTypes
      BY <1>4, <2>1, Zenon DEF FrameTypes
    <2>3. \A k \in todo : procs[k] = None
      BY <1>3, <1>5
    <2> QED
      BY <2>1, <2>2, <2>3 DEF FrameTypes
  <1>6. CASE used # {}
    <2>1. PICK k \in next : g = [f EXCEPT !.pc = "front", !.key = k, !.todo = used \ {k}, !.list = procs[k], !.el = None]
      BY <1>2, <1>6
    <2>2. k \in used /\ k \in Keys \cup {<<>>} /\ used \ {k} \in SUBSET Keys
      BY <1>1, <1>3
    <2>3. procs[k] \in Lists
      BY <1>3, <2>2 DEF Types
    <2>4. g \in FrameTypes
      BY <1>4, <2>1, <2>2, <2>3, Zenon DEF FrameTypes
    <2>5. /\ g.op = f.op /\ g.tag = f.tag /\ g.name_list = f.name_list /\ g.type_list = f.type_list
          /\ g.called = f.called /\ g.present = f.present /\ g.barred = f.barred /\ g.cut = f.cut
          /\ g.dying = f.dying /\ g.el = None /\ g.pc = "front" /\ g.key = k /\ g.todo = used \ {k} /\ g.list = procs[k]
      BY <2>1, <2>4 DEF FrameTypes
    <2> QED
      BY <1>3, <2>2, <2>4, <2>5
  <1> QED
    BY <1>5, <1>6

\* A clear that goes on to the next key has a frame of its kind.
LEMMA NextKeyOK ==
  ASSUME Types, Rings, NEW f \in FrameTypes, f.op = "clear", f.list = None, f.dying = None,
         f.name_list = None, f.type_list = None, f.called = <<>>, f.barred = {}, f.present \subseteq 1 .. born,
         NEW todo \in SUBSET Keys, NEW g \in NextKey(f, todo)
  PROVE  g \in FrameTypes /\ g.op = "clear" /\ g.el = None /\ g.dying = None /\ g.pc \in {"front", "done"} /\ Shape(g) /\ Known(g)
  <1> DEFINE Same == /\ g.op = f.op /\ g.tag = f.tag /\ g.name_list = f.name_list /\ g.type_list = f.type_list
                     /\ g.called = f.called /\ g.present = f.present /\ g.barred = f.barred /\ g.cut = f.cut
                     /\ g.dying = f.dying /\ g.el = None
  <1> DEFINE Cases ==
            \/ g.pc = "done" /\ g.todo = {} /\ g.list = f.list /\ \A k \in todo : procs[k] = None
            \/ /\ g.pc = "front" /\ g.key \in todo /\ g.list = procs[g.key] /\ g.list # None /\ g.key \notin g.todo
               /\ g.todo \subseteq todo /\ \A k \in todo : procs[k] # None => k \in g.todo \/ k = g.key
  <1>1. g \in FrameTypes /\ Same /\ Cases
    BY NextKeyIs
  <1>2. g.pc \in {"front", "done"} /\ (g.pc = "done" => g.list = None) /\ (g.pc = "front" => g.list # None)
    BY <1>1
  <1>3. Shape(g)
    BY <1>1, <1>2 DEF Shape, Place
  <1>4. None =< born /\ Range(<<>>) = {}
    BY SMT DEF None, Types, Range
  <1>5. g.list =< born
    BY <1>1, <1>4 DEF Rings
  <1>6. Known(g)
    BY <1>1, <1>4, <1>5 DEF Known
  <1> QED
    BY <1>1, <1>2, <1>3, <1>6

\* The lists a clear has behind it are clear of the tag.
LEMMA NextKeyClear ==
  ASSUME Types, NEW f \in FrameTypes, f.op = "clear", f.list = None, \A b \in f.present : tag[b] = f.tag,
         NEW todo \in SUBSET Keys, NEW g \in NextKey(f, todo),
         ~f.cut => \A k \in Keys : procs[k] # None /\ k \notin todo => Left(procs[k], f) = {}
  PROVE  WalkOK(g)
  <1> DEFINE Same == /\ g.op = f.op /\ g.tag = f.tag
                     /\ g.called = f.called /\ g.present = f.present /\ g.cut = f.cut
  <1> DEFINE Cases ==
            \/ g.pc = "done" /\ g.todo = {} /\ g.list = f.list /\ \A k \in todo : procs[k] = None
            \/ /\ g.pc = "front" /\ g.key \in todo /\ g.list = procs[g.key] /\ g.list # None /\ g.key \notin g.todo
               /\ g.todo \subseteq todo /\ \A k \in todo : procs[k] # None => k \in g.todo \/ k = g.key
  <1>1. g \in FrameTypes /\ Same /\ Cases
    BY NextKeyIs
  <1>2. Place(g) = g.pc
    BY <1>1 DEF Place
  <1>3. \A l : Left(l, g) = Left(l, f)
    BY <1>1 DEF Left
  <1>4. Walked(g)
    <2>1. CASE g.pc = "done"
      <3>1. Left(g.list, g) = {}
        BY <1>1, <2>1 DEF Left
      <3> QED
        BY <3>1, Zenon DEF Walked
    <2>2. CASE g.pc = "front"
      <3>1. \A b : ~Passed(g, b)
        BY <1>2, <2>2 DEF Passed
      <3> QED
        BY <3>1, Zenon DEF Walked
    <2> QED
      BY <1>1, <2>1, <2>2
  <1>5. ClearOK(g)
    <2>1. \A b \in g.present : tag[b] = g.tag
      BY <1>1
    <2>2. Place(g) # "done" => g.key \in Keys \ g.todo /\ procs[g.key] = g.list
      BY <1>1, <1>2
    <2>3. Place(g) = "done" => g.todo = {}
      BY <1>1, <1>2
    <2>4. ASSUME ~g.cut, NEW k \in Keys, procs[k] # None, k \notin g.todo, k = g.key => Place(g) = "done"
          PROVE  Left(procs[k], g) = {}
      <3>1. k \notin todo
        BY <1>1, <1>2, <2>4
      <3> QED
        BY <1>1, <1>3, <2>4, <3>1, Zenon
    <2> QED
      BY <2>1, <2>2, <2>3, <2>4, Zenon DEF ClearOK
  <1> QED
    BY <1>1, <1>4, <1>5 DEF WalkOK

\* ClearHandlersWithTag keeps the invariant.
LEMMA ClearHandlersWithTagKeeps ==
  ASSUME IInv, NEW t \in Threads, ClearHandlersWithTag(t)
  PROVE  IInv'
  <1>1. PICK f : f = Top(t)
    OBVIOUS
  <1>2. PICK h : h = [f EXCEPT !.present = {b \in 1 .. born : tag[b] = f.tag}]
    OBVIOUS
  <1>3. PICK g \in NextKey(h, Keys) : SetTop(t, g)
    BY <1>1, <1>2 DEF ClearHandlersWithTag, ClearKeys
  <1>4. /\ stack[t] # <<>> /\ f.pc = "lock" /\ f.op = "clear" /\ m_lock = {} /\ m_lock' = {t}
        /\ UNCHANGED <<table, attributes, gone>>
    BY <1>1 DEF ClearHandlersWithTag, At, Lockable
  <1>5. f \in Frames(stack) /\ f \in FrameTypes /\ Shape(f) /\ Known(f)
    BY <1>1, <1>4, TopOK, Zenon
  <1>6. Types /\ FramesOK /\ OthersInvoke /\ LockKept /\ Rings
    BY Zenon DEF IInv
  <1>7. {b \in 1 .. born : tag[b] = f.tag} \in SUBSET Handlers
    BY <1>6, Zenon DEF Types
  <1>8. h \in FrameTypes
    BY <1>2, <1>5, <1>7, Zenon DEF FrameTypes
  <1>9. /\ h.op = "clear" /\ h.tag = f.tag /\ h.list = None /\ h.dying = None /\ h.name_list = None /\ h.type_list = None
        /\ h.called = <<>> /\ h.barred = {} /\ h.present = {b \in 1 .. born : tag[b] = f.tag} /\ h.cut = f.cut
    BY <1>2, <1>4, <1>5 DEF FrameTypes, Shape
  <1>10. h.present \subseteq 1 .. born /\ \A b \in h.present : tag[b] = h.tag
    BY <1>9
  <1>11. /\ g \in FrameTypes /\ g.op = "clear" /\ g.el = None /\ g.dying = None /\ g.pc \in {"front", "done"}
         /\ Shape(g) /\ Known(g)
    BY <1>3, <1>6, <1>8, <1>9, <1>10, NextKeyOK
  <1>12. WalkOK(g)
    BY <1>3, <1>6, <1>8, <1>9, <1>10, NextKeyClear
  <1>13. f.el = None /\ f.dying = None
    BY <1>4, <1>5 DEF Shape, Place
  <1>14. LockKept'
    <2> SUFFICES ASSUME NEW u \in Threads, NEW i \in DOMAIN stack'[u],
                        stack'[u][i].op = "clear", stack'[u][i].pc # "lock"
                 PROVE  u = t
      BY <1>4, Zenon DEF LockKept
    <2>1. i \in DOMAIN stack[u]
      BY <1>1, <1>3, <1>4, <1>6, <1>11, SetTopFacts
    <2>2. u # t => stack'[u][i] = stack[u][i] /\ stack[u][i] \in Frames(stack)
      BY <1>1, <1>3, <1>4, <1>6, <1>11, <2>1, SetTopFacts, FramesTyped, Zenon
    <2>3. \A k \in Frames(stack) : k.op # "clear" \/ k.pc = "lock"
      BY <1>4, <1>6, NoClear, Zenon
    <2> QED
      BY <2>2, <2>3
  <1>15. m_lock' = {} \/ \E u \in Threads : m_lock' = {u}
    BY <1>4
  <1> QED
    BY <1>1, <1>3, <1>4, <1>11, <1>12, <1>13, <1>14, <1>15, TableKept

\* A clear that has walked through a list has left none of its handlers there.
LEMMA ClearBehind ==
  ASSUME NEW f \in FrameTypes, f.op = "clear", Shape(f), WalkOK(f), f.pc \in {"erase", "keep"}, ~f.cut
  PROVE  /\ Left(f.list, f) = {}
         /\ \A k \in Keys : procs[k] # None /\ k \notin f.todo => Left(procs[k], f) = {}
  <1>1. Place(f) = f.pc
    BY DEF Place
  <1>2. f.called = <<>> /\ Range(<<>>) = {}
    BY DEF Shape, Range
  <1>3. \A b : Passed(f, b)
    BY <1>1 DEF Passed
  <1>4. Left(f.list, f) = {}
    BY <1>2, <1>3 DEF WalkOK, Walked
  <1>5. ClearOK(f)
    BY DEF WalkOK
  <1>6. procs[f.key] = f.list
    BY <1>1, <1>5 DEF ClearOK
  <1>7. ASSUME NEW k \in Keys, procs[k] # None, k \notin f.todo PROVE Left(procs[k], f) = {}
    <2>1. CASE k = f.key
      BY <1>4, <1>6, <2>1
    <2>2. CASE k # f.key
      BY <1>5, <1>7, <2>2, Zenon DEF ClearOK
    <2> QED
      BY <2>1, <2>2
  <1> QED
    BY <1>4, <1>7

\* Keeping a list that has handlers keeps the invariant.
LEMMA KeepListKeeps ==
  ASSUME IInv, NEW t \in Threads, KeepList(t)
  PROVE  IInv'
  <1>1. PICK f : f = Top(t)
    OBVIOUS
  <1>2. PICK h : h = [f EXCEPT !.el = None, !.list = None]
    OBVIOUS
  <1>3. PICK g \in NextKey(h, f.todo) : Release(t, g)
    BY <1>1, <1>2 DEF KeepList
  <1>4. /\ stack[t] # <<>> /\ f.pc = "keep" /\ m_lock' = m_lock /\ UNCHANGED <<table, attributes, gone>>
    BY <1>1 DEF KeepList, At
  <1>5. f \in Frames(stack) /\ f \in FrameTypes /\ Shape(f) /\ Known(f) /\ WalkOK(f)
    BY <1>1, <1>4, TopOK, Zenon
  <1>6. Types /\ Rings
    BY Zenon DEF IInv
  <1>7. f.op = "clear" /\ f.el # None /\ f.dying = None /\ f.todo \in SUBSET Keys
    BY <1>4, <1>5, Fields DEF Shape, Place
  <1>8. None \in Lists
    BY DEF Lists
  <1>9. h \in FrameTypes
    BY <1>2, <1>5, <1>8, Zenon DEF FrameTypes
  <1>10. /\ h.op = "clear" /\ h.tag = f.tag /\ h.list = None /\ h.dying = None /\ h.name_list = None /\ h.type_list = None
         /\ h.called = <<>> /\ h.barred = {} /\ h.present = f.present /\ h.cut = f.cut
    BY <1>2, <1>5, <1>7 DEF FrameTypes, Shape
  <1>11. \A l : Left(l, h) = Left(l, f)
    BY <1>10 DEF Left
  <1>12. h.present \subseteq 1 .. born /\ \A b \in h.present : tag[b] = h.tag
    <2>1. ClearOK(f)
      BY <1>4, <1>5, <1>7 DEF WalkOK
    <2> QED
      BY <1>5, <1>10, <2>1 DEF Known, ClearOK
  <1>13. ~h.cut => \A k \in Keys : procs[k] # None /\ k \notin f.todo => Left(procs[k], h) = {}
    BY <1>4, <1>5, <1>7, <1>10, <1>11, ClearBehind, Zenon
  <1>14. /\ g \in FrameTypes /\ g.op = "clear" /\ g.el = None /\ g.dying = None /\ g.pc \in {"front", "done"}
         /\ Shape(g) /\ Known(g)
    BY <1>3, <1>6, <1>7, <1>9, <1>10, <1>12, NextKeyOK
  <1>15. WalkOK(g)
    BY <1>3, <1>6, <1>7, <1>9, <1>10, <1>12, <1>13, NextKeyClear
  <1> QED
    BY <1>1, <1>3, <1>4, <1>7, <1>14, <1>15, ReleaseKept

-----------------------------------------------------------------------------
(* Steps that change the table                                             *)

\* The blocks after a step of an operation that stays at its block.
LEMMA SetBlocks ==
  ASSUME Types, Types', FramesOK, Blocks, NEW t \in Threads, stack[t] # <<>>, NEW g \in FrameTypes, SetTop(t, g),
         g.el = Top(t).el, g.el # None => g.list = Top(t).list, g.dying = None,
         \A h \in Frames(stack) : h.el # None => Linked(h.list, h.el)',
         \A h \in Frames(stack) : h.dying # None /\ Held(h.dying, stack)' => Held(h.dying, stack),
         \A l \in Handlers : \A b \in Range(ring'[l]) : Held(b, stack)' \/ \E h \in Frames(stack') : h.dying = b
  PROVE  Blocks'
  <1>1. Frames(stack') \subseteq Frames(stack) \cup {g} /\ Top(t) \in Frames(stack)
    BY SetTopFrames, Zenon
  <1>2. (\A f \in Frames(stack) : f.el # None => Linked(f.list, f.el))'
    <2> SUFFICES ASSUME NEW f \in Frames(stack'), f.el # None PROVE Linked(f.list, f.el)'
      BY Zenon
    <2>1. CASE f = g
      <3>1. PICK f0 \in Frames(stack) : f0 = Top(t)
        BY <1>1, Zenon
      <3>2. f.list = f0.list /\ f.el = f0.el
        BY <2>1, <3>1
      <3>3. f.el # None => Linked(f0.list, f0.el)'
        BY <3>2, Zenon
      <3> QED
        BY <3>2, <3>3, Zenon DEF Linked
    <2> QED
      BY <1>1, <2>1, Zenon
  <1>3. (\A f \in Frames(stack) : f.dying # None => ~Held(f.dying, stack))'
    BY <1>1, Zenon DEF Blocks
  <1>4. \A u \in Threads : \A i \in DOMAIN stack'[u] : stack'[u][i].dying # None =>
            i \in DOMAIN stack[u] /\ stack[u][i] = stack'[u][i]
    <2> SUFFICES ASSUME NEW u \in Threads, NEW i \in DOMAIN stack'[u], stack'[u][i].dying # None
                 PROVE  i \in DOMAIN stack[u] /\ stack[u][i] = stack'[u][i]
      OBVIOUS
    <2>1. i \in DOMAIN stack[u] /\ stack'[t][Len(stack[t])] = g
      BY SetTopFacts, Zenon
    <2>2. ~(u = t /\ i = Len(stack[t]))
      BY <2>1
    <2>3. \A v \in Threads : \A j \in DOMAIN stack[v] : v # t \/ j # Len(stack[t]) => stack'[v][j] = stack[v][j]
      BY SetTopFacts, Zenon
    <2>4. stack'[u][i] = stack[u][i]
      BY <2>1, <2>2, <2>3, Zenon
    <2> QED
      BY <2>1, <2>4
  <1>5. (\A v, w \in Threads : \A m \in DOMAIN stack[v], n \in DOMAIN stack[w] :
          stack[v][m].dying # None /\ stack[v][m].dying = stack[w][n].dying => v = w /\ m = n)'
    BY <1>4, SameDying, Zenon
  <1> QED
    BY <1>2, <1>3, <1>5, Zenon DEF Blocks

AddedLast(s, b, r) == r = Append(s, b)

\* A block at the end of a list.
LEMMA PushedBack ==
  ASSUME NEW s \in Seq(Handlers), NEW b \in Handlers, NEW r, AddedLast(s, b, r)
  PROVE  /\ r \in Seq(Handlers) /\ Range(r) = Range(s) \cup {b}
         /\ \A i \in DOMAIN r : (i \in DOMAIN s /\ r[i] = s[i]) \/ (i = Len(s) + 1 /\ r[i] = b)
         /\ Len(s) \in Nat /\ DOMAIN s = 1 .. Len(s)
  <1>1. r \in Seq(Handlers) /\ Len(r) = Len(s) + 1 /\ DOMAIN r = 1 .. Len(s) + 1 /\ Len(s) \in Nat /\ DOMAIN s = 1 .. Len(s)
    BY DEF AddedLast
  <1>2. \A i \in DOMAIN s : i \in DOMAIN r /\ r[i] = s[i]
    BY <1>1 DEF AddedLast
  <1>3. Len(s) + 1 \in DOMAIN r /\ r[Len(s) + 1] = b
    BY <1>1 DEF AddedLast
  <1>4. \A i \in DOMAIN r : (i \in DOMAIN s /\ r[i] = s[i]) \/ (i = Len(s) + 1 /\ r[i] = b)
    BY <1>1, <1>2, <1>3
  <1>5. Range(r) = Range(s) \cup {b}
    BY <1>2, <1>3, <1>4 DEF Range
  <1> QED
    BY <1>1, <1>4, <1>5

\* Handler b is added to list l, the one of key k.
Adds(k, b, l, tg, s) ==
    /\ b = born + 1 /\ l = (IF procs[k] # None THEN procs[k] ELSE b)
    /\ born' = b /\ procs' = [procs EXCEPT ![k] = l] /\ ring' = [ring EXCEPT ![l] = Append(@, b)]
    /\ element' = element \cup {b} /\ tag' = [tag EXCEPT ![b] = tg] /\ skip' = [skip EXCEPT ![b] = s]

\* What it does to the table.
Added(k, b, l) ==
    /\ Shrinks /\ Rings' /\ l \in Handlers
    /\ born' \in Nat /\ 1 .. born \subseteq 1 .. born' /\ 1 .. born' \subseteq Handlers /\ element' \subseteq 1 .. born'
    /\ procs' \in [Keys -> Lists] /\ ring' \in [Handlers -> Seq(Handlers)]
    /\ tag' \in [Handlers -> Tags] /\ skip' \in [Handlers -> BOOLEAN]
    /\ \A m \in Handlers : \A x \in Range(ring[m]) : x \in Range(ring'[m])
    /\ \A m \in Handlers : \A x \in Range(ring'[m]) : x = b \/ x \in Range(ring[m])
    /\ procs'[k] = l /\ \A j \in Keys : j # k => procs'[j] = procs[j]
    /\ l = procs[k] \/ (l = b /\ procs[k] = None)

\* What adding a handler does to the lists.
LEMMA AddedTable ==
  ASSUME Types, Rings, NEW k \in Keys, NEW b \in Handlers, NEW l, NEW tg \in Tags, NEW s \in BOOLEAN,
         Adds(k, b, l, tg, s)
  PROVE  Added(k, b, l)
  <1>0. born' = b /\ element' = element \cup {b}
    BY DEF Adds
  <1>1. born \in Nat /\ b \in Nat /\ born < b /\ procs \in [Keys -> Lists] /\ ring \in [Handlers -> Seq(Handlers)]
    BY DEF Types, Adds
  <1>2. l \in Handlers /\ (l = procs[k] \/ (l = b /\ procs[k] = None))
    BY <1>1, NoneIsNoHandler DEF Adds
  <1>3. 1 .. born \subseteq 1 .. b /\ 1 .. b \subseteq Handlers /\ element' \subseteq 1 .. b
    <2>1. 1 .. b \subseteq Handlers
      BY <1>1, EventHandlerMapConstants DEF Handlers
    <2>2. 1 .. born \subseteq 1 .. b /\ b \in 1 .. b
      BY <1>1
    <2>3. element \subseteq 1 .. born
      BY DEF Types
    <2> QED
      BY <1>0, <2>1, <2>2, <2>3, Zenon
  <1>4. PICK r : AddedLast(ring[l], b, r)
    BY DEF AddedLast
  <1>5. ring[l] \in Seq(Handlers)
    BY <1>1, <1>2
  <1>6. /\ r \in Seq(Handlers) /\ Range(r) = Range(ring[l]) \cup {b}
        /\ \A i \in DOMAIN r : (i \in DOMAIN ring[l] /\ r[i] = ring[l][i]) \/ (i = Len(ring[l]) + 1 /\ r[i] = b)
        /\ Len(ring[l]) \in Nat /\ DOMAIN ring[l] = 1 .. Len(ring[l])
    BY <1>4, <1>5, PushedBack
  <1>7. ring' = [ring EXCEPT ![l] = r]
    BY <1>4 DEF AddedLast, Adds
  <1>8. ring'[l] = r /\ \A m \in Handlers : m # l => ring'[m] = ring[m]
    BY <1>1, <1>2, <1>7
  <1>9. ring' \in [Handlers -> Seq(Handlers)]
    BY <1>1, <1>6, <1>7
  <1>10. l \in Lists /\ procs' \in [Keys -> Lists] /\ procs'[k] = l /\ \A j \in Keys : j # k => procs'[j] = procs[j]
    BY <1>1, <1>2 DEF Lists, Adds
  <1>11. tag' \in [Handlers -> Tags] /\ skip' \in [Handlers -> BOOLEAN]
    BY Zenon DEF Types, Adds
  <1>12. \A m \in Handlers : \A x \in Range(ring[m]) : x \in Range(ring'[m])
    BY <1>6, <1>8, Zenon
  <1>13. \A m \in Handlers : \A x \in Range(ring'[m]) : x = b \/ x \in Range(ring[m])
    <2> TAKE m \in Handlers
    <2>1. CASE m = l
      BY <1>6, <1>8, <2>1, Zenon
    <2>2. CASE m # l
      BY <1>8, <2>2, Zenon
    <2> QED
      BY <2>1, <2>2
  <1>14. b \notin 1 .. born
    BY <1>1
  <1>15. Shrinks
    <2>1. born' \in Nat /\ born =< born'
      BY <1>0, <1>1
    <2>2. \A x \in 1 .. born : x \in element' => x \in element
      BY <1>0, <1>14
    <2>3. \A m \in Handlers : \A x \in 1 .. born : x \in Range(ring'[m]) => x \in Range(ring[m])
      BY <1>13, <1>14, Zenon
    <2>4. \A x \in 1 .. born : x \in Handlers /\ x # b
      BY <1>3, <1>14
    <2>5. \A x \in 1 .. born : tag'[x] = tag[x] /\ skip'[x] = skip[x]
      BY <2>4 DEF Types, Adds
    <2>6. born' \in Nat /\ born =< born' /\ born \in Nat
      BY <1>1, <2>1
    <2> QED
      BY <2>2, <2>3, <2>5, <2>6 DEF Shrinks
  <1>16. \A m \in Handlers : \A x \in Range(ring[m]) : m =< born /\ x =< born /\ x \in Nat
    <2> TAKE m \in Handlers
    <2> TAKE x \in Range(ring[m])
    <2>1. x \in Handlers
      BY RingTypes
    <2> QED
      BY <2>1 DEF Rings, Handlers
  <1>17. Rings'
    <2>1. (\A m \in Handlers : \A i, j \in DOMAIN ring[m] : i < j => ring[m][i] < ring[m][j])'
      <3>1. \A m \in Handlers : \A i, j \in DOMAIN ring[m] : i < j => ring[m][i] < ring[m][j]
        BY Zenon DEF Rings
      <3>2. ASSUME NEW i \in DOMAIN r, NEW j \in DOMAIN r, i < j PROVE r[i] < r[j]
        <4>1. CASE i \in DOMAIN ring[l] /\ j \in DOMAIN ring[l]
          <5>1. r[i] = ring[l][i] /\ r[j] = ring[l][j]
            BY <1>6, <4>1
          <5> QED
            BY <1>2, <3>1, <3>2, <4>1, <5>1
        <4>2. CASE j = Len(ring[l]) + 1 /\ i \in DOMAIN ring[l]
          <5>1. r[i] = ring[l][i] /\ r[j] = b
            BY <1>6, <4>2
          <5>2. ring[l][i] \in Range(ring[l])
            BY <1>2, <4>2, RingTypes
          <5> QED
            BY <1>1, <1>2, <1>16, <5>1, <5>2
        <4>3. CASE i = Len(ring[l]) + 1
          <5>1. j \in Nat /\ j =< Len(ring[l]) + 1
            BY <1>6
          <5> QED
            BY <1>6, <3>2, <4>3, <5>1
        <4> QED
          BY <1>6, <4>1, <4>2, <4>3
      <3> QED
        BY <1>8, <3>1, <3>2, Zenon
    <2>2. (\A m \in Handlers : \A x \in Range(ring[m]) : m =< born /\ x =< born)'
      <3> SUFFICES ASSUME NEW m \in Handlers, NEW x \in Range(ring'[m]) PROVE m =< b /\ x =< b
        BY <1>0, Zenon
      <3>1. CASE x \in Range(ring[m])
        BY <1>1, <1>16, <3>1 DEF Handlers
      <3>2. CASE x \notin Range(ring[m])
        <4>1. x = b /\ m = l
          BY <1>8, <1>13, <3>2, Zenon
        <4>2. l =< b
          BY <1>1, <1>2, SMT DEF Rings, Handlers
        <4> QED
          BY <1>1, <4>1, <4>2
      <3> QED
        BY <3>1, <3>2
    <2>3. (\A m, n \in Handlers : \A x \in Range(ring[m]) : x \in Range(ring[n]) => m = n)'
      <3> SUFFICES ASSUME NEW m \in Handlers, NEW n \in Handlers, NEW x \in Range(ring'[m]), x \in Range(ring'[n]) PROVE m = n
        BY Zenon
      <3>1. CASE x = b
        <4>1. \A o \in Handlers : b \notin Range(ring[o])
          BY <1>1, <1>16
        <4> QED
          BY <1>8, <3>1, <4>1, Zenon
      <3>2. CASE x # b
        BY <1>13, <3>2, Zenon DEF Rings
      <3> QED
        BY <3>1, <3>2
    <2>4. (\A j \in Keys : procs[j] =< born)'
      <3> SUFFICES ASSUME NEW j \in Keys PROVE procs'[j] =< b
        BY <1>0, Zenon
      <3>1. procs[j] =< born /\ procs[j] \in Int
        BY <1>1 DEF Rings, Lists, Handlers, None
      <3>2. procs'[j] = procs[j] \/ procs'[j] = b
        BY <1>2, <1>10, Zenon
      <3> QED
        BY <1>1, <3>1, <3>2
    <2>5. (\A j, n \in Keys : procs[j] = procs[n] /\ procs[j] # None => j = n)'
      <3>1. \A j \in Keys : procs[j] # b
        BY <1>1 DEF Rings
      <3>2. \A j, n \in Keys : procs[j] = procs[n] /\ procs[j] # None => j = n
        BY Zenon DEF Rings
      <3> QED
        BY <1>2, <1>10, <3>1, <3>2
    <2> QED
      BY <2>1, <2>2, <2>3, <2>4, <2>5, Zenon DEF Rings
  <1> QED
    BY <1>0, <1>1, <1>2, <1>3, <1>9, <1>10, <1>11, <1>12, <1>13, <1>15, <1>17 DEF Added

\* The blocks that threads are at and have to unlink, after such a step.
LEMMA SameEls ==
  ASSUME Types, NEW t \in Threads, stack[t] # <<>>, NEW g \in FrameTypes, SetTop(t, g), g.el = Top(t).el
  PROVE  \A b : (\E h \in Frames(stack') : h.el = b) <=> (\E h \in Frames(stack) : h.el = b)
  <1>1. /\ Frames(stack') \subseteq Frames(stack) \cup {g} /\ Frames(stack) \subseteq Frames(stack') \cup {Top(t)}
        /\ g \in Frames(stack') /\ Top(t) \in Frames(stack)
    BY SetTopFrames, Zenon
  <1> QED
    BY <1>1, Zenon

\* A block that is to be unlinked still is when another frame changes.
LEMMA SameToUnlink ==
  ASSUME Types, NEW t \in Threads, stack[t] # <<>>, NEW g \in FrameTypes, SetTop(t, g), Top(t).dying = None,
         NEW b, b # None, NEW h \in Frames(stack), h.dying = b
  PROVE  \E k \in Frames(stack') : k.dying = b
  <1>1. Frames(stack) \subseteq Frames(stack') \cup {Top(t)}
    BY SetTopFrames, Zenon
  <1> QED
    BY <1>1

\* What is left to show of such a step.
LEMMA SetKept ==
  ASSUME IInv, NEW t \in Threads, stack[t] # <<>>, NEW g \in FrameTypes, SetTop(t, g), Types', Shrinks,
         Shape(g), Known(g)', WalkOK(g)',
         procs' = procs \/ (\A f \in Frames(stack') : f = g \/ f.op # "clear" \/ f.pc = "lock"),
         Rings', Blocks', GoneOK', LockKept'
  PROVE  IInv'
  <1>1. Types /\ FramesOK /\ OthersInvoke /\ Walks
    BY Zenon DEF IInv
  <1>2. born' \in Nat /\ born =< born'
    BY DEF Shrinks
  <1>3. FramesOK'
    BY <1>1, <1>2, SetFramesOK, Zenon
  <1>4. OthersInvoke'
    BY <1>1, SetOthersInvoke, Zenon
  <1>5. Walks'
    BY <1>1, SetWalks, Zenon
  <1> QED
    BY <1>3, <1>4, <1>5, Zenon DEF IInv

\* AddHandlerProc keeps the invariant.
LEMMA AddHandlerProcKeeps ==
  ASSUME IInv, NEW t \in Threads, AddHandlerProc(t)
  PROVE  IInv'
  <1>1. PICK f : f = Top(t)
    OBVIOUS
  <1>2. PICK g : g = [f EXCEPT !.pc = "done"]
    OBVIOUS
  <1>3. PICK b, l : b \in Handlers /\ Adds(f.key, b, l, f.tag, f.skip)
    <2>1. born + 1 \in Handlers /\ Adds(f.key, born + 1, IF procs[f.key] # None THEN procs[f.key] ELSE born + 1, f.tag, f.skip)
      BY <1>1 DEF AddHandlerProc, Adds, PushBack, AddBefore
    <2> QED
      BY <2>1
  <1>4. /\ stack[t] # <<>> /\ f.pc = "lock" /\ f.op = "add" /\ m_lock = {} /\ m_lock' = m_lock /\ SetTop(t, g) /\ gone' = gone
    BY <1>1, <1>2 DEF AddHandlerProc, At, Lockable
  <1>5. f \in Frames(stack) /\ f \in FrameTypes /\ Shape(f) /\ Known(f)
    BY <1>1, <1>4, TopOK, Zenon
  <1>6. Types /\ FramesOK /\ OthersInvoke /\ LockKept /\ Rings /\ Blocks /\ GoneOK
    BY Zenon DEF IInv
  <1>7. f.key \in Keys /\ f.tag \in Tags
    BY <1>4, <1>5, Fields DEF Shape
  <1>8. f.skip \in BOOLEAN
    BY <1>5, Flags, Zenon
  <1>0. Added(f.key, b, l)
    BY <1>3, <1>6, <1>7, <1>8, AddedTable
  <1>9. /\ Shrinks /\ Rings' /\ l \in Handlers
        /\ born' \in Nat /\ 1 .. born \subseteq 1 .. born' /\ 1 .. born' \subseteq Handlers /\ element' \subseteq 1 .. born'
        /\ procs' \in [Keys -> Lists] /\ ring' \in [Handlers -> Seq(Handlers)]
        /\ tag' \in [Handlers -> Tags] /\ skip' \in [Handlers -> BOOLEAN]
        /\ \A m \in Handlers : \A x \in Range(ring[m]) : x \in Range(ring'[m])
        /\ \A m \in Handlers : \A x \in Range(ring'[m]) : x = b \/ x \in Range(ring[m])
        /\ procs'[f.key] = l /\ \A j \in Keys : j # f.key => procs'[j] = procs[j]
        /\ l = procs[f.key] \/ (l = b /\ procs[f.key] = None)
    BY <1>0 DEF Added
  <1>10. "done" \in Pcs
    BY DEF Pcs
  <1>11. g \in FrameTypes
    BY <1>2, <1>5, <1>10, Zenon DEF FrameTypes
  <1>12. /\ g.op = f.op /\ g.key = f.key /\ g.list = f.list /\ g.name_list = f.name_list /\ g.type_list = f.type_list
         /\ g.el = f.el /\ g.called = f.called /\ g.present = f.present /\ g.barred = f.barred /\ g.dying = f.dying
         /\ g.pc = "done"
    BY <1>2, <1>5 DEF FrameTypes
  <1>13. f.el = None /\ f.dying = None /\ f.list = None
    BY <1>4, <1>5 DEF Shape, Place
  <1>14. Shape(g)
    BY <1>4, <1>5, <1>12, <1>13 DEF Shape, Place
  <1>15. Known(g)
    BY <1>5, <1>12, Zenon DEF Known
  <1>16. Known(g)'
    BY <1>9, <1>11, <1>15, OldKnown DEF Shrinks
  <1>17. WalkOK(g)'
    <2>1. Left(None, g)' = {}
      BY DEF Left
    <2>2. Walked(g)'
      BY <1>12, <1>13, <2>1, Zenon DEF Walked
    <2>3. g.op # "call" /\ g.op # "clear"
      BY <1>4, <1>12
    <2> QED
      BY <2>2, <2>3, Zenon DEF WalkOK
  <1>18. \A h \in Frames(stack') : h = g \/ h.op # "clear" \/ h.pc = "lock"
    <2>1. \A h \in Frames(stack) : h.op # "clear" \/ h.pc = "lock"
      BY <1>4, <1>6, NoClear, Zenon
    <2>2. Frames(stack') \subseteq Frames(stack) \cup {g}
      BY <1>4, <1>6, <1>11, SetTopFrames, Zenon
    <2> QED
      BY <2>1, <2>2, Zenon
  <1>19. Types'
    <2>1. stack' \in [Threads -> Seq(FrameTypes)]
      BY <1>4, <1>6, <1>11, SetTopFacts, Zenon
    <2>2. gone' \subseteq 1 .. born'
      BY <1>4, <1>6, <1>9, Zenon DEF Types
    <2> QED
      BY <1>4, <1>9, <2>1, <2>2, Zenon DEF Types
  <1>20. b \notin 1 .. born /\ element' = element \cup {b} /\ b # None
    BY <1>3, <1>6, NoneIsNoHandler DEF Adds, Types
  <1>21. g.el = Top(t).el /\ Top(t).dying = None
    BY <1>1, <1>12, <1>13
  <1>22. \A x : (\E h \in Frames(stack') : h.el = x) <=> (\E h \in Frames(stack) : h.el = x)
    BY <1>4, <1>6, <1>11, <1>21, SameEls, Zenon
  <1>23. Blocks'
    <2>1. \A h \in Frames(stack) : h.el # None => Linked(h.list, h.el)'
      <3> SUFFICES ASSUME NEW h \in Frames(stack), h.el # None PROVE Linked(h.list, h.el)'
        BY Zenon
      <3>1. h \in FrameTypes /\ Shape(h) /\ Linked(h.list, h.el)
        BY <1>6, FramesTyped, Zenon DEF FramesOK, Blocks
      <3>2. h.list \in Handlers
        BY <3>1, ElHasList
      <3> QED
        BY <1>9, <3>1, <3>2, Zenon DEF Linked
    <2>2. \A h \in Frames(stack) : h.dying # None /\ Held(h.dying, stack)' => Held(h.dying, stack)
      <3> SUFFICES ASSUME NEW h \in Frames(stack), h.dying # None, Held(h.dying, stack)' PROVE Held(h.dying, stack)
        BY Zenon
      <3>1. h \in FrameTypes /\ Known(h)
        BY <1>6, FramesTyped, Zenon DEF FramesOK
      <3>2. h.dying \in 1 .. born
        <4>1. h.dying \in Handlers /\ h.dying =< born
          BY <3>1, Fields, NoneIsNoHandler DEF Known
        <4> QED
          BY <1>6, <4>1 DEF Handlers, Types
      <3> QED
        BY <1>20, <1>22, <3>2, Zenon DEF Held
    <2>3. \A m \in Handlers : \A x \in Range(ring'[m]) : Held(x, stack)' \/ \E h \in Frames(stack') : h.dying = x
      <3> SUFFICES ASSUME NEW m \in Handlers, NEW x \in Range(ring'[m])
                   PROVE  Held(x, stack)' \/ \E h \in Frames(stack') : h.dying = x
        BY Zenon
      <3>1. CASE x = b
        BY <1>20, <3>1, Zenon DEF Held
      <3>2. CASE x \in Range(ring[m])
        <4>1. x # None
          BY <1>6, <3>2, RingTypes, NoneIsNoHandler, Zenon
        <4>2. CASE Held(x, stack)
          BY <1>20, <1>22, <4>2, Zenon DEF Held
        <4>3. CASE \E h \in Frames(stack) : h.dying = x
          BY <1>4, <1>6, <1>11, <1>21, <4>1, <4>3, SameToUnlink, Zenon
        <4> QED
          BY <1>6, <3>2, <4>2, <4>3, Zenon DEF Blocks
      <3> QED
        BY <1>9, <3>1, <3>2, Zenon
    <2>4. g.dying = None /\ (g.el # None => g.list = Top(t).list)
      BY <1>12, <1>13
    <2> QED
      BY <1>4, <1>6, <1>11, <1>19, <1>21, <2>1, <2>2, <2>3, <2>4, SetBlocks
  <1>24. GoneOK'
    <2> SUFFICES ASSUME NEW x \in gone, NEW k \in Keys, x \in element', procs'[k] # None PROVE ~Linked(procs[k], x)'
      BY <1>4, Zenon DEF GoneOK
    <2>1. PICK m \in Handlers : m = procs'[k]
      BY <1>9, NoneIsNoHandler, Zenon
    <2>2. x \in 1 .. born
      BY <1>6, Zenon DEF Types
    <2>3. x # b /\ x \in element
      BY <1>20, <2>2, Zenon
    <2>4. CASE m = procs[k]
      <3>1. x \notin Range(ring[m])
        BY <1>6, <2>1, <2>3, <2>4, Zenon DEF GoneOK, Linked
      <3> QED
        BY <1>9, <2>1, <2>3, <3>1, Zenon DEF Linked
    <2>5. CASE m # procs[k]
      <3>1. m = b
        BY <1>9, <2>1, <2>5, Zenon
      <3>2. x \notin Range(ring[m])
        BY <1>3, <1>6, <3>1 DEF Rings, Adds, Types
      <3> QED
        BY <1>9, <2>1, <2>3, <3>2, Zenon DEF Linked
    <2> QED
      BY <2>4, <2>5
  <1>25. LockKept'
    <2>1. g.op = Top(t).op /\ g.op # "clear"
      BY <1>1, <1>4, <1>12
    <2> QED
      BY <1>4, <1>11, <2>1, LockStays
  <1> QED
    BY <1>4, <1>9, <1>11, <1>14, <1>16, <1>17, <1>18, <1>19, <1>23, <1>24, <1>25, SetKept, Zenon

RunsNext(f, g) == g = [f EXCEPT !.pc = "invoke", !.called = Append(@, f.el)]

\* A call runs the handler it is at.
LEMMA CallsNext ==
  ASSUME IInv, NEW f \in FrameTypes, f.op = "call", f.pc = "element", Shape(f), Known(f), WalkOK(f),
         f.list \in Handlers, f.el \in Handlers, Linked(f.list, f.el), f.el =< born, f.el \in element,
         NEW g, RunsNext(f, g)
  PROVE  /\ g \in FrameTypes /\ g.op = f.op /\ g.el = f.el /\ g.list = f.list /\ g.dying = None
         /\ Shape(g) /\ Known(g) /\ WalkOK(g)
  <1>1. f.called \in Seq(Handlers) /\ f.dying = None /\ f.el # None
    BY Called, NoneIsNoHandler DEF Shape
  <1>2. PICK c : AddedLast(f.called, f.el, c)
    BY DEF AddedLast
  <1>3. /\ c \in Seq(Handlers) /\ Range(c) = Range(f.called) \cup {f.el}
        /\ \A i \in DOMAIN c : (i \in DOMAIN f.called /\ c[i] = f.called[i]) \/ (i = Len(f.called) + 1 /\ c[i] = f.el)
        /\ Len(f.called) \in Nat /\ DOMAIN f.called = 1 .. Len(f.called)
    BY <1>1, <1>2, PushedBack
  <1>4. g = [f EXCEPT !.pc = "invoke", !.called = c]
    BY <1>2 DEF AddedLast, RunsNext
  <1>5. "invoke" \in Pcs
    BY DEF Pcs
  <1>6. g \in FrameTypes
    BY <1>3, <1>4, <1>5, Zenon DEF FrameTypes
  <1>7. /\ g.op = f.op /\ g.tag = f.tag /\ g.key = f.key /\ g.todo = f.todo /\ g.list = f.list /\ g.name_list = f.name_list
        /\ g.type_list = f.type_list /\ g.el = f.el /\ g.called = c
        /\ g.present = f.present /\ g.barred = f.barred /\ g.dying = f.dying /\ g.pc = "invoke"
    BY <1>4 DEF FrameTypes
  <1>8. g.cut = f.cut /\ g.call_type_handler = f.call_type_handler
    BY <1>4, Zenon DEF FrameTypes
  <1>9. Len(c) = Len(f.called) + 1 /\ c # <<>> /\ Last(c) = f.el /\ DOMAIN c = 1 .. Len(f.called) + 1
    BY <1>1, <1>2 DEF AddedLast, Last
  <1>10. Shape(g)
    <2>1. Place(g) = "invoke" /\ Place(f) = "element"
      BY <1>7 DEF Place
    <2> QED
      BY <1>1, <1>7, <1>9, <2>1 DEF Shape
  <1>11. Known(g)
    <2>1. f.el \in 1 .. born
      BY DEF Handlers, IInv, Types
    <2>2. Range(g.called) \subseteq 1 .. born
      BY <1>3, <1>7, <2>1, Zenon DEF Known
    <2> QED
      BY <1>7, <2>2, Zenon DEF Known
  <1>12. \A b : Passed(f, b) <=> b < f.el
    BY DEF Passed, Place
  <1>13. \A b : Passed(g, b) <=> b =< f.el
    BY <1>7 DEF Passed, Place
  <1>14. \A l : Left(l, g) = Left(l, f)
    BY <1>7 DEF Left
  <1>15. Walked(f) /\ CallOrder(f) /\ CallWhole(f) /\ CallTypes(f) /\ CallBarred(f)
    BY DEF WalkOK, CallOK
  <1>16. \A b \in Range(f.called) : b \in Handlers
    BY Called
  <1>17. \A l \in Handlers : Linked(l, f.el) => l = f.list
    BY Zenon DEF IInv, Rings, Linked
  <1>18. \A b \in Range(f.called) : Linked(f.list, b) => b < f.el
    BY <1>12, <1>15, NoneIsNoHandler, Zenon DEF CallOrder
  <1>19. f.el \in Int /\ ~(f.el < f.el) /\ f.el =< f.el
    BY DEF Handlers
  <1>20. Walked(g)
    <2> SUFFICES ASSUME ~f.cut, NEW b \in Left(f.list, f), b =< f.el PROVE b \in Range(c)
      BY <1>7, <1>8, <1>13, <1>14, Zenon DEF Walked
    <2>1. b \in Handlers
      BY Fields DEF Left
    <2>2. b < f.el \/ b = f.el
      BY <2>1 DEF Handlers
    <2> QED
      BY <1>3, <1>12, <1>15, <2>2, Zenon DEF Walked
  <1>21. \A i \in DOMAIN f.called : f.called[i] \in Range(f.called)
    BY Called
  <1>22. ASSUME NEW l \in Lists, InOrder(l, f) PROVE InOrder(l, g)
    <2> SUFFICES ASSUME NEW i \in DOMAIN c, NEW j \in DOMAIN c, i < j, l # None, Linked(l, c[i]), Linked(l, c[j])
                 PROVE  c[i] < c[j]
      BY <1>7, Zenon DEF InOrder
    <2>1. i \in DOMAIN f.called /\ c[i] = f.called[i]
      BY <1>3, <1>9
    <2>2. CASE j \in DOMAIN f.called /\ c[j] = f.called[j]
      BY <1>22, <2>1, <2>2, Zenon DEF InOrder
    <2>3. CASE c[j] = f.el
      <3>1. l = f.list
        BY <1>17, <2>3, NoneIsNoHandler, Zenon
      <3> QED
        BY <1>18, <1>21, <2>1, <2>3, <3>1, Zenon
    <2> QED
      BY <1>3, <2>2, <2>3, Zenon
  <1>23. CallOrder(g)
    <2>1. InOrder(g.name_list, g) /\ InOrder(g.type_list, g)
      BY <1>7, <1>15, <1>22, Fields, Zenon DEF CallOrder
    <2>2. \A i, j \in DOMAIN c : c[i] = c[j] => i = j
      <3> SUFFICES ASSUME NEW i \in DOMAIN c, NEW j \in DOMAIN c, c[i] = c[j] PROVE i = j
        BY Zenon
      <3>1. \A k \in DOMAIN f.called : f.called[k] # f.el
        BY <1>18, <1>19, <1>21, Zenon
      <3>2. CASE i \in DOMAIN f.called /\ c[i] = f.called[i] /\ j \in DOMAIN f.called /\ c[j] = f.called[j]
        BY <1>15, <3>2, Zenon DEF CallOrder
      <3> QED
        BY <1>3, <3>1, <3>2, Zenon
    <2>3. \A b \in Range(c) : Linked(f.list, b) => b =< f.el
      <3>1. \A b \in Range(f.called) : Linked(f.list, b) => b =< f.el
        BY <1>16, <1>18 DEF Handlers
      <3> QED
        BY <1>3, <1>19, <3>1, Zenon
    <2>4. f.list # f.type_list => \A b \in Range(c) : f.type_list # None => ~Linked(f.type_list, b)
      <3>1. f.type_list # None => f.type_list \in Handlers
        BY Fields, NoneIsNoHandler, Zenon
      <3> QED
        BY <1>3, <1>15, <1>17, <3>1, Zenon DEF CallOrder
    <2>5. \A b \in Range(g.called) : g.list # None /\ Linked(g.list, b) => Passed(g, b)
      BY <1>7, <1>13, <2>3, Zenon
    <2> QED
      BY <1>7, <2>1, <2>2, <2>4, <2>5, Zenon DEF CallOrder
  <1>24. CallWhole(g)
    <2>1. Place(g) # "done"
      BY <1>7 DEF Place
    <2>2. ~f.cut /\ f.list = f.type_list => Left(f.name_list, f) \subseteq Range(f.called)
      BY <1>15, Zenon DEF CallWhole
    <2>3. ~g.cut /\ g.list = g.type_list => Left(g.name_list, g) \subseteq Range(g.called)
      BY <1>3, <1>7, <1>8, <1>14, <2>2, Zenon
    <2> QED
      BY <2>1, <2>3, Zenon DEF CallWhole
  <1>25. CallTypes(g)
    <2>1. ASSUME NEW i \in DOMAIN c, i < Len(c), ~skip[c[i]] PROVE f.call_type_handler
      <3>1. i \in DOMAIN f.called /\ c[i] = f.called[i]
        BY <1>3, <1>9, <2>1
      <3>2. f.pc # "invoke"
        OBVIOUS
      <3> QED
        BY <1>15, <2>1, <3>1, <3>2, Zenon DEF CallTypes
    <2> QED
      BY <1>3, <1>7, <1>8, <1>15, <2>1, Zenon DEF CallTypes
  <1>26. CallBarred(g)
    <2>1. f.list = f.name_list \/ f.list = f.type_list
      BY NoneIsNoHandler DEF Shape
    <2>2. f.el \notin f.barred
      BY <1>15, <2>1, NoneIsNoHandler, Zenon DEF CallBarred
    <2> QED
      BY <1>3, <1>7, <1>15, <2>2, Zenon DEF CallBarred
  <1> QED
    BY <1>1, <1>6, <1>7, <1>10, <1>11, <1>20, <1>23, <1>24, <1>25, <1>26, Zenon DEF WalkOK, CallOK

Passes(f, g) == g = [f EXCEPT !.pc = "next"]

\* An operation goes past the block it is at.
LEMMA PassesFields ==
  ASSUME NEW f \in FrameTypes, f.pc = "element", f.op # "add", Shape(f), Known(f), NEW g, Passes(f, g)
  PROVE  /\ g \in FrameTypes /\ g.op = f.op /\ g.tag = f.tag /\ g.key = f.key /\ g.todo = f.todo /\ g.list = f.list
         /\ g.name_list = f.name_list /\ g.type_list = f.type_list /\ g.el = f.el /\ g.called = f.called
         /\ g.present = f.present /\ g.barred = f.barred /\ g.dying = None /\ f.dying = None /\ g.pc = "next"
         /\ g.cut = f.cut /\ g.call_type_handler = f.call_type_handler /\ Shape(g) /\ Known(g)
  <1>1. "next" \in Pcs
    BY DEF Pcs
  <1>2. g \in FrameTypes
    BY <1>1, Zenon DEF Passes, FrameTypes
  <1>3. /\ g.op = f.op /\ g.tag = f.tag /\ g.key = f.key /\ g.todo = f.todo /\ g.list = f.list /\ g.name_list = f.name_list
        /\ g.type_list = f.type_list /\ g.el = f.el /\ g.called = f.called
        /\ g.present = f.present /\ g.barred = f.barred /\ g.dying = f.dying /\ g.pc = "next"
    BY DEF Passes, FrameTypes
  <1>4. g.cut = f.cut /\ g.call_type_handler = f.call_type_handler
    BY Zenon DEF Passes, FrameTypes
  <1>5. f.dying = None
    BY DEF Shape
  <1>6. Place(g) = "next" /\ Place(f) = "element"
    BY <1>3 DEF Place
  <1>7. Shape(g)
    BY <1>3, <1>6 DEF Shape
  <1>8. Known(g)
    BY <1>3, Zenon DEF Known
  <1> QED
    BY <1>2, <1>3, <1>4, <1>5, <1>7, <1>8

\* Its handler was not there at the start, or it is not any more.
LEMMA PassesWalk ==
  ASSUME NEW f \in FrameTypes, f.pc = "element", f.op # "add", Shape(f), Known(f), WalkOK(f)', NEW g, Passes(f, g),
         f.el \notin Left(f.list, f)', f.el \in Handlers
  PROVE  WalkOK(g)'
  <1>1. /\ g \in FrameTypes /\ g.op = f.op /\ g.tag = f.tag /\ g.key = f.key /\ g.todo = f.todo /\ g.list = f.list
        /\ g.name_list = f.name_list /\ g.type_list = f.type_list /\ g.el = f.el /\ g.called = f.called
        /\ g.present = f.present /\ g.barred = f.barred /\ g.pc = "next"
        /\ g.cut = f.cut /\ g.call_type_handler = f.call_type_handler
    BY PassesFields
  <1>2. \A l : Left(l, g)' = Left(l, f)'
    BY <1>1, Zenon DEF Left
  <1>3. \A b : Passed(f, b) <=> b < f.el
    BY DEF Passed, Place
  <1>4. \A b : Passed(g, b) <=> b =< f.el
    BY <1>1 DEF Passed, Place
  <1>5. Place(f) = "element" /\ Place(g) = "next" /\ f.pc # "lock" /\ f.pc # "invoke" /\ g.pc # "invoke"
    BY <1>1 DEF Place
  <1>6. Walked(g)'
    <2> SUFFICES ASSUME ~f.cut, NEW b \in Left(f.list, f)', b =< f.el PROVE b \in Range(f.called)
      BY <1>1, <1>2, <1>4, Zenon DEF Walked
    <2>1. b \in Handlers
      BY Fields DEF Left
    <2>2. b < f.el
      BY <2>1 DEF Handlers
    <2> QED
      BY <1>3, <1>5, <2>2, Zenon DEF WalkOK, Walked
  <1>7. ASSUME f.op = "call" PROVE CallOK(g)'
    <2>1. CallOrder(f)' /\ CallWhole(f)' /\ CallTypes(f)' /\ CallBarred(f)'
      BY <1>5, <1>7, Zenon DEF WalkOK, CallOK
    <2>2. CallOrder(g)'
      <3>1. (InOrder(f.name_list, f) /\ InOrder(f.type_list, f))'
        BY <2>1, Zenon DEF CallOrder
      <3>2. (InOrder(g.name_list, g) /\ InOrder(g.type_list, g))'
        BY <1>1, <3>1, Zenon DEF InOrder
      <3>3. \A i, j \in DOMAIN g.called : g.called[i] = g.called[j] => i = j
        BY <1>1, <2>1, Zenon DEF CallOrder
      <3>4. (\A b \in Range(g.called) : g.list # None /\ Linked(g.list, b) => Passed(g, b))'
        <4> SUFFICES ASSUME NEW b \in Range(f.called), f.list # None, Linked(f.list, b)' PROVE b =< f.el
          BY <1>1, <1>4, Zenon DEF Linked
        <4>1. b < f.el
          BY <1>3, <2>1, Zenon DEF CallOrder
        <4>2. b \in Handlers
          BY Called
        <4> QED
          BY <4>1, <4>2 DEF Handlers
      <3>5. (g.list # g.type_list => \A b \in Range(g.called) : g.type_list # None => ~Linked(g.type_list, b))'
        BY <1>1, <2>1, Zenon DEF CallOrder, Linked
      <3> QED
        BY <3>2, <3>3, <3>4, <3>5, Zenon DEF CallOrder
    <2>3. CallWhole(g)'
      <3>1. ~f.cut /\ f.list = f.type_list => Left(f.name_list, f)' \subseteq Range(f.called)
        BY <2>1, Zenon DEF CallWhole
      <3>2. ~g.cut /\ g.list = g.type_list => Left(g.name_list, g)' \subseteq Range(g.called)
        BY <1>1, <1>2, <3>1, Zenon
      <3>3. Place(g) # "done"
        BY <1>5
      <3> QED
        BY <3>2, <3>3, Zenon DEF CallWhole
    <2>4. CallTypes(g)'
      BY <1>1, <1>5, <2>1, Zenon DEF CallTypes
    <2>5. CallBarred(g)'
      BY <1>1, <2>1, Zenon DEF CallBarred, Linked
    <2> QED
      BY <2>2, <2>3, <2>4, <2>5, Zenon DEF CallOK
  <1>8. ASSUME f.op = "clear" PROVE ClearOK(g)'
    <2>1. ClearOK(f)'
      BY <1>5, <1>8, Zenon DEF WalkOK
    <2>2. Place(g) # "done" /\ Place(f) # "done"
      BY <1>5
    <2> QED
      BY <1>1, <1>2, <2>1, <2>2, Zenon DEF ClearOK
  <1> QED
    BY <1>1, <1>6, <1>7, <1>8, Zenon DEF WalkOK

\* The handler an operation is at does not run: it is removed by a clear, or
\* passed over.
LEMMA PassesKeeps ==
  ASSUME IInv, NEW t \in Threads, stack[t] # <<>>, NEW f, f = Top(t), f.pc = "element", NEW g, Passes(f, g), SetTop(t, g),
         UNCHANGED <<procs, ring, m_lock, attributes, gone>>,
         element' \subseteq element, \A b \in element : b \in element' \/ b = f.el,
         f.el \in element' => f.op = "clear" /\ tag[f.el] # f.tag
  PROVE  IInv'
  <1>1. /\ f \in Frames(stack) /\ f \in FrameTypes /\ Shape(f) /\ Known(f) /\ WalkOK(f)
        /\ (f.el # None => Linked(f.list, f.el) /\ f.list \in Handlers /\ f.el \in Handlers)
    BY TopOK, Zenon
  <1>2. f.op # "add" /\ f.el # None
    BY <1>1 DEF Shape, Place
  <1>3. /\ g \in FrameTypes /\ g.op = f.op /\ g.list = f.list
        /\ g.el = f.el /\ g.dying = None /\ f.dying = None /\ Shape(g) /\ Known(g)
    BY <1>1, <1>2, PassesFields
  <1>4. /\ Types /\ FramesOK /\ Rings /\ Blocks /\ GoneOK /\ tag' = tag /\ skip' = skip /\ born' = born
        /\ procs' = procs /\ ring' = ring /\ m_lock' = m_lock /\ gone' = gone
    BY Zenon DEF IInv, attributes
  <1>5. Shrinks
    <2>1. born \in Nat /\ born =< born
      BY <1>4 DEF Types
    <2> QED
      BY <1>4, <2>1 DEF Shrinks
  <1>6. WalkOK(f)'
    BY <1>1, <1>4, <1>5, OldWalk, Zenon
  <1>7. f.el \notin Left(f.list, f)'
    <2> SUFFICES ASSUME f.el \in f.present, f.el \in element' PROVE FALSE
      BY Zenon DEF Left
    <2>1. ClearOK(f)
      BY <1>1 DEF WalkOK
    <2> QED
      BY <2>1, Zenon DEF ClearOK
  <1>8. WalkOK(g)'
    BY <1>1, <1>2, <1>6, <1>7, PassesWalk, Zenon
  <1>9. Known(g)'
    BY <1>3, <1>4, Zenon DEF Known
  <1>10. Types'
    <2>1. stack' \in [Threads -> Seq(FrameTypes)]
      BY <1>3, <1>4, SetTopFacts, Zenon
    <2>2. element' \subseteq 1 .. born
      BY <1>4, Zenon DEF Types
    <2> QED
      BY <1>4, <2>1, <2>2, Zenon DEF Types
  <1>11. g.el = Top(t).el /\ Top(t).dying = None
    BY <1>3
  <1>12. \A x : (\E h \in Frames(stack') : h.el = x) <=> (\E h \in Frames(stack) : h.el = x)
    BY <1>3, <1>4, <1>11, SameEls, Zenon
  <1>13. Blocks'
    <2>1. \A h \in Frames(stack) : h.el # None => Linked(h.list, h.el)'
      BY <1>4, Zenon DEF Blocks, Linked
    <2>2. \A h \in Frames(stack) : h.dying # None /\ Held(h.dying, stack)' => Held(h.dying, stack)
      BY <1>12, Zenon DEF Held
    <2>3. \A m \in Handlers : \A x \in Range(ring'[m]) : Held(x, stack)' \/ \E h \in Frames(stack') : h.dying = x
      <3> SUFFICES ASSUME NEW m \in Handlers, NEW x \in Range(ring[m])
                   PROVE  Held(x, stack)' \/ \E h \in Frames(stack') : h.dying = x
        BY <1>4, Zenon
      <3>1. x # None
        BY <1>4, RingTypes, NoneIsNoHandler, Zenon
      <3>2. CASE Held(x, stack)
        BY <1>1, <1>12, <3>2, Zenon DEF Held
      <3>3. CASE \E h \in Frames(stack) : h.dying = x
        BY <1>3, <1>4, <1>11, <3>1, <3>3, SameToUnlink, Zenon
      <3> QED
        BY <1>4, <3>2, <3>3, Zenon DEF Blocks
    <2>4. g.dying = None /\ (g.el # None => g.list = Top(t).list)
      BY <1>3
    <2> QED
      BY <1>3, <1>4, <1>10, <1>11, <2>1, <2>2, <2>3, <2>4, SetBlocks
  <1>14. Rings'
    BY <1>4, Zenon DEF Rings
  <1>15. GoneOK'
    BY <1>4, Zenon DEF GoneOK, Linked
  <1>16. LockKept'
    <2>1. g.op = Top(t).op /\ Top(t).pc # "lock"
      BY <1>3
    <2> QED
      BY <1>3, <1>4, <2>1, LockStays
  <1> QED
    BY <1>3, <1>4, <1>5, <1>8, <1>9, <1>10, <1>13, <1>14, <1>15, <1>16, SetKept, Zenon

\* Looking at a handler keeps the invariant.
LEMMA WalkElementKeeps ==
  ASSUME IInv, NEW t \in Threads, WalkElement(t)
  PROVE  IInv'
  <1>1. PICK f : f = Top(t)
    OBVIOUS
  <1>2. PICK match \in BOOLEAN : match = (f.el \in element /\ (f.op = "call" \/ tag[f.el] = f.tag))
    OBVIOUS
  <1>3. /\ stack[t] # <<>> /\ f.pc = "element" /\ UNCHANGED <<procs, ring, m_lock, attributes, gone>>
        /\ element' = IF match /\ f.op = "clear" THEN element \ {f.el} ELSE element
        /\ SetTop(t, IF match /\ f.op = "call" THEN [f EXCEPT !.pc = "invoke", !.called = Append(@, f.el)]
                     ELSE [f EXCEPT !.pc = "next"])
    BY <1>1, <1>2 DEF WalkElement, At
  <1>4. /\ f \in Frames(stack) /\ f \in FrameTypes /\ Shape(f) /\ Known(f) /\ WalkOK(f)
        /\ (f.el # None => Linked(f.list, f.el) /\ f.list \in Handlers /\ f.el \in Handlers /\ f.el =< born)
    BY <1>1, <1>3, TopOK, Zenon
  <1>5. f.op \in {"call", "clear"} /\ f.el # None /\ f.dying = None
    BY <1>3, <1>4, Fields DEF Shape, Place
  <1>6. CASE match /\ f.op = "call"
    <2>1. PICK g : RunsNext(f, g) /\ SetTop(t, g)
      BY <1>3, <1>6 DEF RunsNext
    <2>2. f.el \in element
      BY <1>2, <1>6
    <2>3. /\ g \in FrameTypes /\ g.op = f.op /\ g.el = f.el /\ g.list = f.list /\ g.dying = None
          /\ Shape(g) /\ Known(g) /\ WalkOK(g)
      BY <1>3, <1>4, <1>5, <1>6, <2>1, <2>2, CallsNext
    <2>4. Types /\ UNCHANGED <<table, attributes, gone>> /\ m_lock' = m_lock
      BY <1>3, <1>6 DEF IInv, table
    <2>5. Held(f.el, stack) /\ Held(f.el, stack')
      BY <2>2, Zenon DEF Held
    <2>6. g.op = Top(t).op /\ g.op # "clear"
      BY <1>1, <1>6, <2>3
    <2>7. LockKept' /\ (m_lock' = {} \/ \E u \in Threads : m_lock' = {u})
      BY <1>3, <2>1, <2>3, <2>4, <2>6, LockStays
    <2> QED
      BY <1>1, <1>3, <1>4, <1>5, <2>1, <2>3, <2>4, <2>5, <2>7, TableKept
  <1>7. CASE ~(match /\ f.op = "call")
    <2>1. PICK g : Passes(f, g) /\ SetTop(t, g)
      BY <1>3, <1>7 DEF Passes
    <2>2. element' \subseteq element /\ \A b \in element : b \in element' \/ b = f.el
      BY <1>3, Zenon
    <2>3. f.el \in element' => f.op = "clear" /\ tag[f.el] # f.tag
      BY <1>2, <1>3, <1>5, <1>7
    <2> QED
      BY <1>1, <1>3, <2>1, <2>2, <2>3, PassesKeeps
  <1> QED
    BY <1>6, <1>7

-----------------------------------------------------------------------------
(* Unlinking                                                               *)

TakenOut(s, b, r) == r = Unlinked(s, b)

\* A list without one of its blocks is in order.
LEMMA TakenOutIs ==
  ASSUME NEW s \in Seq(Handlers), \A i, j \in DOMAIN s : i < j => s[i] < s[j], NEW b, NEW r, TakenOut(s, b, r)
  PROVE  /\ r \in Seq(Handlers) /\ Range(r) = Range(s) \ {b}
         /\ \A i, j \in DOMAIN r : i < j => r[i] < r[j]
  <1>1. CASE b \notin Range(s)
    BY <1>1 DEF TakenOut, Unlinked
  <1>2. CASE b \in Range(s)
    <2>1. \E i \in DOMAIN s : s[i] = b
      BY <1>2 DEF Range
    <2>2. PICK i \in DOMAIN s : s[i] = b /\ r = [j \in 1 .. Len(s) - 1 |-> IF j < i THEN s[j] ELSE s[j + 1]]
      BY <1>2, <2>1 DEF TakenOut, Unlinked
    <2>3. Len(s) \in Nat /\ DOMAIN s = 1 .. Len(s) /\ Len(s) >= 1 /\ i \in 1 .. Len(s)
      BY <2>2
    <2>4. \A j \in DOMAIN s : s[j] \in Handlers /\ s[j] \in Int
      <3>1. \A j \in DOMAIN s : s[j] \in Handlers
        OBVIOUS
      <3> QED
        BY <3>1 DEF Handlers
    <2>5. DOMAIN r = 1 .. Len(s) - 1 /\ \A j \in 1 .. Len(s) - 1 : r[j] = IF j < i THEN s[j] ELSE s[j + 1]
      BY <2>2
    <2>6. \A j \in 1 .. Len(s) - 1 : r[j] \in Handlers
      BY <2>3, <2>4, <2>5
    <2>7. r \in Seq(Handlers)
      BY <2>2, <2>3, <2>5, <2>6
    <2>8. \A j, k \in DOMAIN r : j < k => r[j] < r[k]
      <3> SUFFICES ASSUME NEW j \in DOMAIN r, NEW k \in DOMAIN r, j < k PROVE r[j] < r[k]
        OBVIOUS
      <3>1. CASE k < i
        BY <2>3, <2>5, <3>1
      <3>2. CASE ~(k < i) /\ j < i
        BY <2>3, <2>5, <3>2
      <3>3. CASE ~(j < i)
        BY <2>3, <2>5, <3>3
      <3> QED
        BY <2>3, <2>5, <3>1, <3>2, <3>3
    <2>9. \A x \in Range(r) : x \in Range(s) /\ x # b
      <3> SUFFICES ASSUME NEW j \in DOMAIN r PROVE r[j] \in Range(s) /\ r[j] # b
        BY DEF Range
      <3>1. CASE j < i
        BY <2>2, <2>3, <2>4, <2>5, <3>1 DEF Range
      <3>2. CASE ~(j < i)
        BY <2>2, <2>3, <2>4, <2>5, <3>2 DEF Range
      <3> QED
        BY <3>1, <3>2
    <2>10. \A x \in Range(s) : x # b => x \in Range(r)
      <3> SUFFICES ASSUME NEW j \in DOMAIN s, s[j] # b PROVE s[j] \in Range(r)
        BY DEF Range
      <3>1. CASE j < i
        <4>1. j \in DOMAIN r /\ r[j] = s[j]
          BY <2>3, <2>5, <3>1
        <4> QED
          BY <4>1 DEF Range
      <3>2. CASE j > i
        <4>1. j - 1 \in DOMAIN r /\ r[j - 1] = s[j]
          BY <2>3, <2>5, <3>2
        <4> QED
          BY <4>1 DEF Range
      <3> QED
        BY <2>2, <2>3, <3>1, <3>2
    <2> QED
      BY <2>7, <2>8, <2>9, <2>10
  <1> QED
    BY <1>1, <1>2

\* The destructor of a block, which unlinks it, keeps the invariant.
LEMMA UnlinkKeeps ==
  ASSUME IInv, NEW t \in Threads, Unlink(t)
  PROVE  IInv'
  <1>1. PICK f : f = Top(t)
    OBVIOUS
  <1>2. PICK b : b = f.dying
    OBVIOUS
  <1>3. PICK g : g = [f EXCEPT !.dying = None, !.pc = f.after]
    OBVIOUS
  <1>4. /\ stack[t] # <<>> /\ f.pc = "unlink" /\ SetTop(t, g) /\ ring' = [l \in Handlers |-> Unlinked(ring[l], b)]
        /\ UNCHANGED <<procs, m_lock, element, attributes, gone>>
    BY <1>1, <1>2, <1>3 DEF Unlink, At
  <1>5. f \in Frames(stack) /\ f \in FrameTypes /\ Shape(f) /\ Known(f) /\ WalkOK(f)
    BY <1>1, <1>4, TopOK, Zenon
  <1>6. b # None /\ f.after \in {"front", "element", "erase", "done"} /\ f.op # "add"
    BY <1>2, <1>4, <1>5 DEF Shape
  <1>7. f.after \in Pcs /\ None \in Lists
    BY <1>5, Fields DEF Lists
  <1>8. g \in FrameTypes
    BY <1>3, <1>5, <1>7, Zenon DEF FrameTypes
  <1>9. /\ g.op = f.op /\ g.tag = f.tag /\ g.key = f.key /\ g.todo = f.todo /\ g.list = f.list /\ g.name_list = f.name_list
        /\ g.type_list = f.type_list /\ g.el = f.el /\ g.called = f.called
        /\ g.present = f.present /\ g.barred = f.barred /\ g.dying = None /\ g.pc = f.after
    BY <1>3, <1>5 DEF FrameTypes
  <1>10. g.cut = f.cut /\ g.call_type_handler = f.call_type_handler
    BY <1>3, <1>5, Zenon DEF FrameTypes
  <1>11. SameButUnlinking(f, g)
    <2>1. Place(g) = Place(f)
      BY <1>4, <1>6, <1>9 DEF Place
    <2> QED
      BY <1>9, <1>10, <2>1 DEF SameButUnlinking
  <1>12. f.pc \notin {"invoke", "lock"} /\ g.pc \notin {"invoke", "lock", "unlink"}
    BY <1>4, <1>6, <1>9
  <1>13. /\ Types /\ FramesOK /\ Rings /\ Blocks /\ GoneOK /\ tag' = tag /\ skip' = skip /\ born' = born
         /\ procs' = procs /\ element' = element /\ m_lock' = m_lock /\ gone' = gone
    BY <1>4, Zenon DEF IInv, attributes
  <1>14. g.dying =< born
    BY <1>9, <1>13 DEF None, Types
  <1>15. Shape(g) /\ Known(g)
    BY <1>5, <1>6, <1>8, <1>9, <1>11, <1>12, <1>14, SameShape, SameKnown
  <1>16. WalkOK(g)
    BY <1>5, <1>11, <1>12, SameWalk
  <1>17. ASSUME NEW l \in Handlers
         PROVE  /\ ring'[l] \in Seq(Handlers) /\ Range(ring'[l]) = Range(ring[l]) \ {b}
                /\ \A i, j \in DOMAIN ring'[l] : i < j => ring'[l][i] < ring'[l][j]
    <2>1. PICK r : r = ring'[l]
      OBVIOUS
    <2>2. TakenOut(ring[l], b, r)
      BY <1>4, <2>1 DEF TakenOut
    <2>3. ring[l] \in Seq(Handlers)
      BY <1>13, RingTypes
    <2>4. \A i, j \in DOMAIN ring[l] : i < j => ring[l][i] < ring[l][j]
      BY <1>13, Zenon DEF Rings
    <2>5. /\ r \in Seq(Handlers) /\ Range(r) = Range(ring[l]) \ {b}
          /\ \A i, j \in DOMAIN r : i < j => r[i] < r[j]
      BY <2>2, <2>3, <2>4, TakenOutIs
    <2> QED
      BY <2>1, <2>5
  <1>18. \A l \in Handlers : \A x : x \in Range(ring'[l]) <=> x \in Range(ring[l]) /\ x # b
    BY <1>17
  <1>19. ring' \in [Handlers -> Seq(Handlers)]
    BY <1>4, <1>17
  <1>20. Shrinks
    <2>1. born \in Nat /\ born =< born
      BY <1>13 DEF Types
    <2>2. \A l \in Handlers : \A x \in 1 .. born : x \in Range(ring'[l]) => x \in Range(ring[l])
      BY <1>18, Zenon
    <2> QED
      BY <1>13, <2>1, <2>2, Zenon DEF Shrinks
  <1>21. WalkOK(g)'
    BY <1>8, <1>13, <1>15, <1>16, <1>20, OldWalk, Zenon
  <1>22. Known(g)'
    BY <1>13, <1>15, Zenon DEF Known
  <1>23. Types'
    <2>1. stack' \in [Threads -> Seq(FrameTypes)]
      BY <1>4, <1>8, <1>13, SetTopFacts, Zenon
    <2> QED
      BY <1>13, <1>19, <2>1, Zenon DEF Types
  <1>24. g.el = Top(t).el
    BY <1>1, <1>9
  <1>25. \A x : (\E h \in Frames(stack') : h.el = x) <=> (\E h \in Frames(stack) : h.el = x)
    BY <1>4, <1>8, <1>13, <1>24, SameEls, Zenon
  <1>26. \A x : Held(x, stack)' <=> Held(x, stack)
    BY <1>13, <1>25, Zenon DEF Held
  <1>27. Blocks'
    <2>1. \A h \in Frames(stack) : h.el # None => Linked(h.list, h.el)'
      <3> SUFFICES ASSUME NEW h \in Frames(stack), h.el # None PROVE Linked(h.list, h.el)'
        BY Zenon
      <3>1. h \in FrameTypes /\ Shape(h) /\ Linked(h.list, h.el)
        BY <1>13, FramesTyped, Zenon DEF FramesOK, Blocks
      <3>2. h.list \in Handlers
        BY <3>1, ElHasList
      <3>3. h.el # b
        BY <1>2, <1>5, <1>6, <1>13, Zenon DEF Blocks, Held
      <3> QED
        BY <1>18, <3>1, <3>2, <3>3, Zenon DEF Linked
    <2>2. \A h \in Frames(stack) : h.dying # None /\ Held(h.dying, stack)' => Held(h.dying, stack)
      BY <1>26, Zenon
    <2>3. \A m \in Handlers : \A x \in Range(ring'[m]) : Held(x, stack)' \/ \E h \in Frames(stack') : h.dying = x
      <3> SUFFICES ASSUME NEW m \in Handlers, NEW x \in Range(ring[m]), x # b
                   PROVE  Held(x, stack)' \/ \E h \in Frames(stack') : h.dying = x
        BY <1>18, Zenon
      <3>1. Frames(stack) \subseteq Frames(stack') \cup {f}
        BY <1>1, <1>4, <1>8, <1>13, SetTopFrames, Zenon
      <3>2. Held(x, stack) \/ \E h \in Frames(stack) : h.dying = x
        BY <1>13, Zenon DEF Blocks
      <3> QED
        BY <1>2, <1>26, <3>1, <3>2, Zenon
    <2>4. g.dying = None /\ (g.el # None => g.list = Top(t).list)
      BY <1>1, <1>9
    <2> QED
      BY <1>4, <1>8, <1>13, <1>23, <1>24, <2>1, <2>2, <2>3, <2>4, SetBlocks
  <1>28. Rings'
    <2>1. (\A l \in Handlers : \A i, j \in DOMAIN ring[l] : i < j => ring[l][i] < ring[l][j])'
      BY <1>17, Zenon
    <2> QED
      BY <1>13, <1>18, <2>1, Zenon DEF Rings
  <1>29. GoneOK'
    <2> SUFFICES ASSUME NEW x \in gone, NEW k \in Keys, x \in element, procs[k] # None PROVE ~Linked(procs[k], x)'
      BY <1>13, Zenon DEF GoneOK
    <2>1. procs[k] \in Handlers
      BY <1>13, NoneIsNoHandler, Zenon DEF Types
    <2>2. x \notin Range(ring[procs[k]])
      BY <1>13, Zenon DEF GoneOK, Linked
    <2> QED
      BY <1>13, <1>18, <2>1, <2>2, Zenon DEF Linked
  <1>30. LockKept'
    <2>1. g.op = Top(t).op /\ Top(t).pc # "lock"
      BY <1>1, <1>9, <1>12
    <2> QED
      BY <1>4, <1>8, <1>13, <2>1, LockStays
  <1> QED
    BY <1>4, <1>8, <1>13, <1>15, <1>20, <1>21, <1>22, <1>23, <1>27, <1>28, <1>29, <1>30, SetKept, Zenon

-----------------------------------------------------------------------------
(* Erasing                                                                 *)

KeepsList(f, e, g) == g = [f EXCEPT !.el = e, !.pc = "keep"]

\* A clear finds a block in its list.
LEMMA KeepsListOK ==
  ASSUME NEW f \in FrameTypes, f.op = "clear", f.pc = "erase", Shape(f), Known(f), WalkOK(f), NEW e \in Handlers,
         NEW g, KeepsList(f, e, g)
  PROVE  /\ g \in FrameTypes /\ g.op = "clear" /\ g.el = e /\ g.list = f.list /\ g.dying = None /\ f.dying = None /\ f.el = None
         /\ Shape(g) /\ Known(g) /\ WalkOK(g)
  <1>1. "keep" \in Pcs /\ e \in Lists /\ e # None
    BY NoneIsNoHandler DEF Pcs, Lists
  <1>2. g \in FrameTypes
    BY <1>1, Zenon DEF KeepsList, FrameTypes
  <1>3. /\ g.op = f.op /\ g.tag = f.tag /\ g.key = f.key /\ g.todo = f.todo /\ g.list = f.list /\ g.name_list = f.name_list
        /\ g.type_list = f.type_list /\ g.el = e /\ g.called = f.called
        /\ g.present = f.present /\ g.barred = f.barred /\ g.dying = f.dying /\ g.pc = "keep"
    BY DEF KeepsList, FrameTypes
  <1>4. g.cut = f.cut
    BY Zenon DEF KeepsList, FrameTypes
  <1>5. Place(g) = "keep" /\ Place(f) = "erase" /\ f.dying = None /\ f.el = None
    BY <1>3 DEF Place, Shape
  <1>6. Shape(g)
    BY <1>1, <1>3, <1>5 DEF Shape
  <1>7. Known(g)
    BY <1>3, Zenon DEF Known
  <1>8. (\A b : Passed(f, b)) /\ (\A b : Passed(g, b))
    BY <1>5 DEF Passed
  <1>9. \A l : Left(l, g) = Left(l, f)
    BY <1>3 DEF Left
  <1>10. Walked(g)
    BY <1>3, <1>4, <1>8, <1>9 DEF WalkOK, Walked
  <1>11. ClearOK(g)
    <2>1. ClearOK(f)
      BY DEF WalkOK
    <2>2. Place(g) # "done" /\ Place(f) # "done"
      BY <1>5
    <2> QED
      BY <1>3, <1>4, <1>9, <2>1, <2>2, Zenon DEF ClearOK
  <1> QED
    BY <1>2, <1>3, <1>5, <1>6, <1>7, <1>10, <1>11 DEF WalkOK

\* The list is kept.
LEMMA EraseKeeps ==
  ASSUME IInv, NEW t \in Threads, stack[t] # <<>>, Top(t).pc = "erase", Top(t).op = "clear",
         NEW e \in Handlers, Held(e, stack), Linked(Top(t).list, e), NEW g, KeepsList(Top(t), e, g), SetTop(t, g),
         UNCHANGED <<table, attributes, gone>>, m_lock' = m_lock
  PROVE  IInv'
  <1>1. PICK f : f = Top(t)
    OBVIOUS
  <1>2. f \in FrameTypes /\ Shape(f) /\ Known(f) /\ WalkOK(f)
    BY <1>1, TopOK, Zenon
  <1>3. /\ g \in FrameTypes /\ g.op = "clear" /\ g.el = e /\ g.list = f.list /\ g.dying = None /\ f.dying = None /\ f.el = None
        /\ Shape(g) /\ Known(g) /\ WalkOK(g)
    BY <1>1, <1>2, KeepsListOK
  <1>4. g.op = Top(t).op /\ Top(t).pc # "lock"
    BY <1>3
  <1>5. LockKept' /\ (m_lock' = {} \/ \E u \in Threads : m_lock' = {u})
    BY <1>3, <1>4, LockStays
  <1> QED
    BY <1>1, <1>3, <1>5, TableKept

LeavesTo(f, c, h) == h = [f EXCEPT !.list = None, !.cut = c]

\* A clear goes on from a list it has walked through.
LEMMA LeavesList ==
  ASSUME IInv, NEW f \in FrameTypes, f.op = "clear", f.pc = "erase", Shape(f), Known(f), WalkOK(f),
         NEW c \in BOOLEAN, f.cut => c, NEW h, LeavesTo(f, c, h), NEW g \in NextKey(h, f.todo)
  PROVE  /\ g \in FrameTypes /\ g.op = "clear" /\ g.el = None /\ g.dying = None /\ g.pc \in {"front", "done"}
         /\ Shape(g) /\ Known(g) /\ WalkOK(g) /\ (g.pc # "done" => g.key # f.key) /\ f.el = None /\ f.dying = None
  <1>1. Types /\ Rings /\ f.todo \in SUBSET Keys /\ None \in Lists
    BY Fields, Zenon DEF IInv, Lists
  <1>2. h \in FrameTypes
    BY <1>1, Zenon DEF LeavesTo, FrameTypes
  <1>3. f.dying = None /\ f.name_list = None /\ f.type_list = None /\ f.called = <<>> /\ f.barred = {} /\ f.el = None
    BY DEF Shape, Place
  <1>4. /\ h.op = "clear" /\ h.tag = f.tag /\ h.list = None /\ h.dying = None /\ h.name_list = None /\ h.type_list = None
        /\ h.called = <<>> /\ h.barred = {} /\ h.present = f.present
    BY <1>3 DEF LeavesTo, FrameTypes
  <1>5. h.cut = c
    BY Zenon DEF LeavesTo, FrameTypes
  <1>6. \A l : Left(l, h) = Left(l, f)
    BY <1>4 DEF Left
  <1>7. ClearOK(f) /\ Place(f) = "erase"
    BY DEF WalkOK, Place
  <1>8. h.present \subseteq 1 .. born /\ \A b \in h.present : tag[b] = h.tag
    BY <1>4, <1>7 DEF Known, ClearOK
  <1>9. ~h.cut => \A k \in Keys : procs[k] # None /\ k \notin f.todo => Left(procs[k], h) = {}
    BY <1>5, <1>6, ClearBehind, Zenon
  <1>10. /\ g \in FrameTypes /\ g.op = "clear" /\ g.el = None /\ g.dying = None /\ g.pc \in {"front", "done"}
         /\ Shape(g) /\ Known(g)
    BY <1>1, <1>2, <1>4, <1>8, NextKeyOK
  <1>11. WalkOK(g)
    BY <1>1, <1>2, <1>4, <1>8, <1>9, NextKeyClear
  <1>12. g.pc # "done" => g.key \in f.todo
    BY <1>1, <1>2, NextKeyIs
  <1>13. f.key \notin f.todo
    BY <1>7 DEF ClearOK
  <1> QED
    BY <1>3, <1>10, <1>11, <1>12, <1>13

\* The operations that are not the innermost one of the thread.
LEMMA OtherFrames ==
  ASSUME Types, NEW t \in Threads, stack[t] # <<>>, NEW g \in FrameTypes, SetTop(t, g),
         NEW k \in Frames(stack'), k # g
  PROVE  \E u \in Threads : \E i \in DOMAIN stack[u] : k = stack[u][i] /\ ~(u = t /\ i = Len(stack[t]))
  <1>1. PICK s : s = stack'
    OBVIOUS
  <1>2. \A x : x \in Frames(s) <=> \E u \in Threads : \E i \in DOMAIN s[u] : x = s[u][i]
    BY FramesAre, Zenon
  <1>3. PICK u \in Threads : \E i \in DOMAIN s[u] : k = s[u][i]
    BY <1>1, <1>2
  <1>4. PICK i \in DOMAIN s[u] : k = s[u][i]
    BY <1>3
  <1>5. /\ DOMAIN stack'[u] = DOMAIN stack[u] /\ stack'[t][Len(stack[t])] = g
        /\ \A v \in Threads : \A j \in DOMAIN stack[v] : v # t \/ j # Len(stack[t]) => stack'[v][j] = stack[v][j]
    BY SetTopFacts, Zenon
  <1>6. i \in DOMAIN stack[u] /\ ~(u = t /\ i = Len(stack[t]))
    BY <1>1, <1>4, <1>5
  <1>7. k = stack[u][i]
    BY <1>1, <1>4, <1>5, <1>6, Zenon
  <1> QED
    BY <1>6, <1>7

\* The list is erased.
LEMMA EraseErases ==
  ASSUME IInv, NEW t \in Threads, stack[t] # <<>>, NEW f, f = Top(t), f.pc = "erase", f.op = "clear",
         NEW c \in BOOLEAN, f.cut => c, NEW h, LeavesTo(f, c, h),
         NEW g \in NextKey(h, f.todo), SetTop(t, g),
         procs' = [procs EXCEPT ![f.key] = None], DestroyLists(procs', stack'),
         UNCHANGED <<m_lock, attributes, gone>>
  PROVE  IInv'
  <1>1. /\ f \in Frames(stack) /\ f \in FrameTypes /\ Shape(f) /\ Known(f) /\ WalkOK(f) /\ m_lock = {t}
    BY TopOK, Zenon
  <1>2. /\ g \in FrameTypes /\ g.op = "clear" /\ g.el = None /\ g.dying = None /\ g.pc \in {"front", "done"}
        /\ Shape(g) /\ Known(g) /\ WalkOK(g) /\ (g.pc # "done" => g.key # f.key) /\ f.el = None /\ f.dying = None
    BY <1>1, LeavesList
  <1>3. /\ Types /\ FramesOK /\ OthersInvoke /\ LockKept /\ Rings /\ Blocks /\ GoneOK
        /\ tag' = tag /\ skip' = skip /\ born' = born /\ m_lock' = m_lock /\ gone' = gone /\ born \in Nat
    BY Zenon DEF IInv, attributes, Types
  <1>4. PICK p : p = procs'
    OBVIOUS
  <1>5. PICK s : s = stack'
    OBVIOUS
  <1>6. DestroyLists(p, s)
    BY <1>4, <1>5, Zenon
  <1>7. None \in Lists /\ procs' \in [Keys -> Lists]
    BY <1>3 DEF Types, Lists
  <1>8. FewerLists /\ \A k \in Keys : k # f.key => procs'[k] = procs[k]
    BY <1>3 DEF FewerLists, Types
  <1>9. Shrinks
    BY <1>3, <1>6, DestroyedShrinks
  <1>10. /\ ring' \in [Handlers -> Seq(Handlers)] /\ element' \subseteq element
    BY <1>3, <1>6, Destroyed, Zenon
  <1>11. Types'
    <2>1. stack' \in [Threads -> Seq(FrameTypes)]
      BY <1>2, <1>3, SetTopFacts, Zenon
    <2>2. element' \subseteq 1 .. born
      BY <1>3, <1>10, Zenon DEF Types
    <2> QED
      BY <1>3, <1>7, <1>10, <2>1, <2>2, Zenon DEF Types
  <1>12. Known(g)'
    BY <1>2, <1>3, Zenon DEF Known
  <1>13. WalkOK(g)'
    <2>1. Place(g) = g.pc /\ g.pc # "lock"
      BY <1>2 DEF Place
    <2>2. Walked(g) /\ ClearOK(g)
      BY <1>2, <2>1 DEF WalkOK
    <2>3. Walked(g)'
      BY <1>2, <1>9, <2>2, OldWalked, Zenon
    <2>4. Place(g) # "done" => procs'[g.key] = procs[g.key]
      BY <1>2, <1>8, <2>1, <2>2 DEF ClearOK
    <2>5. procs \in [Keys -> Lists]
      BY <1>3, Zenon DEF Types
    <2>6. ClearOK(g)'
      BY <1>2, <1>8, <1>9, <2>2, <2>4, <2>5, OldClear
    <2> QED
      BY <1>2, <2>3, <2>6, Zenon DEF WalkOK
  <1>14. FramesOK'
    <2>1. born' \in Nat /\ born =< born'
      BY <1>3
    <2> QED
      BY <1>2, <1>3, <1>12, <2>1, SetFramesOK, Zenon
  <1>15. /\ Frames(stack') \subseteq Frames(stack) \cup {g} /\ Frames(stack) \subseteq Frames(stack') \cup {f}
    BY <1>2, <1>3, SetTopFrames, Zenon
  <1>16. /\ \A u \in Threads : DOMAIN stack'[u] = DOMAIN stack[u]
         /\ stack'[t][Len(stack[t])] = g
         /\ \A u \in Threads : \A i \in DOMAIN stack[u] : u # t \/ i # Len(stack[t]) => stack'[u][i] = stack[u][i]
    BY <1>2, <1>3, SetTopFacts, Zenon
  <1>17. Blocks'
    <2>1. \A k \in Frames(stack') : (k.el # None \/ k.dying # None) => k \in Frames(stack)
      BY <1>2, <1>15, Zenon
    <2>2. \A k \in Frames(stack) : (k.el # None \/ k.dying # None) => k \in Frames(stack')
      BY <1>2, <1>15, Zenon
    <2>3. \A u \in Threads : \A i \in DOMAIN stack'[u] : stack'[u][i].dying # None =>
            i \in DOMAIN stack[u] /\ stack[u][i] = stack'[u][i]
      <3> SUFFICES ASSUME NEW u \in Threads, NEW i \in DOMAIN stack'[u], stack'[u][i].dying # None
                   PROVE  i \in DOMAIN stack[u] /\ stack[u][i] = stack'[u][i]
        BY Zenon
      <3>1. i \in DOMAIN stack[u] /\ ~(u = t /\ i = Len(stack[t]))
        BY <1>2, <1>16
      <3> QED
        BY <1>16, <3>1, Zenon
    <2>4. DestroyLists(p, stack')
      BY <1>4, Zenon
    <2> QED
      BY <1>3, <1>11, <1>14, <2>1, <2>2, <2>3, <2>4, DestroyedBlocks
  <1>18. Rings'
    BY <1>3, <1>6, <1>8, DestroyedRings
  <1>19. GoneOK'
    BY <1>3, <1>6, <1>8, GoneStays, Zenon DEF GoneOK
  <1>20. LockKept'
    <2>1. g.op = Top(t).op /\ Top(t).pc # "lock"
      BY <1>2
    <2> QED
      BY <1>2, <1>3, <2>1, LockStays
  <1>21. \A k \in Frames(stack') : k = g \/ k.op # "clear" \/ k.pc = "lock"
    <2> SUFFICES ASSUME NEW k \in Frames(stack'), k # g, k.op = "clear", k.pc # "lock" PROVE FALSE
      BY Zenon
    <2>1. PICK u \in Threads : \E i \in DOMAIN stack[u] : k = stack[u][i] /\ ~(u = t /\ i = Len(stack[t]))
      BY <1>2, <1>3, OtherFrames, Zenon
    <2>2. PICK i \in DOMAIN stack[u] : k = stack[u][i] /\ ~(u = t /\ i = Len(stack[t]))
      BY <2>1
    <2>3. m_lock = {u} /\ i = Len(stack[u])
      BY <1>3, <2>2, OneClear
    <2> QED
      BY <1>1, <2>2, <2>3
  <1> QED
    BY <1>2, <1>9, <1>11, <1>12, <1>13, <1>17, <1>18, <1>19, <1>20, <1>21, SetKept, Zenon

\* Erasing a list that is taken for empty keeps the invariant.
LEMMA EraseEmptyKeeps ==
  ASSUME IInv, NEW t \in Threads, EraseEmpty(t)
  PROVE  IInv'
  <1>1. PICK f : f = Top(t)
    OBVIOUS
  <1>2. PICK p : p = FirstPointer(f.list)
    OBVIOUS
  <1>3. PICK first : first = LockBlock(p, stack)
    OBVIOUS
  <1>4. PICK c : c = (f.cut \/ Live(f.list) # {})
    OBVIOUS
  <1>5. PICK h : LeavesTo(f, c, h)
    BY DEF LeavesTo
  <1>6. stack[t] # <<>> /\ f.pc = "erase"
    BY <1>1 DEF EraseEmpty, At
  <1>7. f \in Frames(stack) /\ f \in FrameTypes /\ Shape(f) /\ Known(f) /\ WalkOK(f)
    BY <1>1, <1>6, TopOK, Zenon
  <1>8. f.op = "clear" /\ f.list # None
    BY <1>6, <1>7, Fields DEF Shape, Place
  <1>9. f.list \in Handlers
    BY <1>7, <1>8, Fields, NoneIsNoHandler, Zenon
  <1>10. Types /\ Rings
    BY Zenon DEF IInv
  <1>11. c \in BOOLEAN /\ (f.cut => c)
    BY <1>4, <1>7, Flags, Zenon
  <1>12. CASE first = None
    <2>1. /\ procs' = [procs EXCEPT ![f.key] = None] /\ DestroyLists(procs', stack') /\ UNCHANGED <<m_lock, attributes, gone>>
          /\ \E g \in NextKey(h, f.todo) : SetTop(t, g)
      BY <1>1, <1>2, <1>3, <1>4, <1>5, <1>12 DEF EraseEmpty, Emptied, LeavesTo
    <2>2. PICK g \in NextKey(h, f.todo) : SetTop(t, g)
      BY <2>1
    <2> QED
      BY <1>1, <1>5, <1>6, <1>8, <1>11, <2>1, <2>2, EraseErases
  <1>13. CASE first # None
    <2>1. UNCHANGED <<table, attributes, gone>> /\ m_lock' = m_lock /\ SetTop(t, [f EXCEPT !.el = first, !.pc = "keep"])
      BY <1>1, <1>2, <1>3, <1>13 DEF EraseEmpty, Emptied
    <2>2. PICK g : KeepsList(f, first, g) /\ SetTop(t, g)
      BY <2>1 DEF KeepsList
    <2>3. \/ p = None
          \/ p \in Handlers /\ Linked(f.list, p)
      BY <1>2, <1>9, <1>10, FirstIs, Zenon
    <2>4. p \in Lists
      BY <2>3 DEF Lists
    <2>5. first = p /\ Held(p, stack)
      BY <1>3, <1>13, <2>4, LockIs, Zenon
    <2>6. first \in Handlers /\ Held(first, stack) /\ Linked(f.list, first)
      BY <1>13, <2>3, <2>5
    <2> QED
      BY <1>1, <1>6, <1>8, <2>1, <2>2, <2>6, EraseKeeps
  <1> QED
    BY <1>12, <1>13

-----------------------------------------------------------------------------
(* The invariant                                                           *)

\* The invariant holds at the start.
LEMMA InitIInv == Init => IInv
  <1> SUFFICES ASSUME Init PROVE IInv
    OBVIOUS
  <1>1. /\ procs = [k \in Keys |-> None] /\ ring = [l \in Handlers |-> <<>>] /\ element = {} /\ born = 0 /\ gone = {}
        /\ stack = [t \in Threads |-> <<>>] /\ m_lock = {}
    BY DEF Init
  <1>2. \A t \in Threads : stack[t] = <<>> /\ DOMAIN stack[t] = {} /\ Len(stack[t]) = 0
    BY <1>1
  <1>3. Frames(stack) = {}
    BY <1>2, FramesAre, Zenon
  <1>4. \A l \in Handlers : ring[l] = <<>> /\ DOMAIN ring[l] = {} /\ Range(ring[l]) = {}
    BY <1>1 DEF Range
  <1>5. \A k \in Keys : procs[k] = None
    BY <1>1
  <1>6. Types
    <2>1. tag \in [Handlers -> Tags]
      <3>1. (CHOOSE g \in Tags : TRUE) \in Tags
        BY EventHandlerMapNames
      <3> QED
        BY <3>1 DEF Init
    <2>2. skip \in [Handlers -> BOOLEAN]
      BY Zenon DEF Init
    <2>3. procs \in [Keys -> Lists] /\ ring \in [Handlers -> Seq(Handlers)] /\ stack \in [Threads -> Seq(FrameTypes)]
      BY <1>1 DEF Lists
    <2>4. born \in Nat /\ 1 .. born = {}
      BY <1>1
    <2> QED
      BY <1>1, <2>1, <2>2, <2>3, <2>4, Zenon DEF Types
  <1>7. FramesOK /\ OthersInvoke /\ LockKept /\ Walks
    BY <1>2, <1>3, Zenon DEF FramesOK, OthersInvoke, LockKept, Walks
  <1>8. Rings
    <2>1. None =< born
      BY <1>1 DEF None
    <2> QED
      BY <1>4, <1>5, <2>1, Zenon DEF Rings
  <1>9. Blocks
    BY <1>2, <1>3, <1>4, Zenon DEF Blocks
  <1>10. GoneOK
    BY <1>1, Zenon DEF GoneOK
  <1> QED
    BY <1>6, <1>7, <1>8, <1>9, <1>10 DEF IInv

\* Nothing changes the invariant when nothing happens.
LEMMA StutterKeeps ==
  ASSUME IInv, UNCHANGED vars
  PROVE  IInv'
  <1>1. /\ procs' = procs /\ ring' = ring /\ element' = element /\ tag' = tag /\ skip' = skip /\ born' = born
        /\ gone' = gone /\ stack' = stack /\ m_lock' = m_lock
    BY Zenon DEF vars, table, attributes
  <1>2. Types /\ FramesOK /\ OthersInvoke /\ Rings /\ Blocks /\ Walks /\ LockKept /\ GoneOK
    BY Zenon DEF IInv
  <1>3. Types'
    BY <1>1, <1>2, Zenon DEF Types
  <1>4. FramesOK'
    BY <1>1, <1>2, Zenon DEF FramesOK, Known
  <1>5. OthersInvoke' /\ LockKept'
    BY <1>1, <1>2, Zenon DEF OthersInvoke, LockKept
  <1>6. Rings'
    BY <1>1, <1>2, Zenon DEF Rings
  <1>7. Blocks'
    <2>1. HeldSame
      BY <1>1, Zenon DEF HeldSame, Held
    <2> QED
      BY <1>1, <1>2, <1>3, <2>1, SameBlocks, Zenon
  <1>8. Walks'
    <2> SUFFICES ASSUME NEW f \in Frames(stack) PROVE WalkOK(f)'
      BY <1>1, Zenon DEF Walks, WalkOK
    <2>1. Known(f) /\ WalkOK(f) /\ f \in FrameTypes
      BY <1>2, FramesTyped, Zenon DEF FramesOK, Walks, WalkOK
    <2>2. Shrinks
      BY <1>1, <1>2, SameTable DEF table, attributes
    <2> QED
      BY <1>1, <1>2, <2>1, <2>2, OldWalk, Zenon
  <1>9. GoneOK'
    BY <1>1, <1>2, Zenon DEF GoneOK, Linked
  <1> QED
    BY <1>3, <1>4, <1>5, <1>6, <1>7, <1>8, <1>9 DEF IInv

\* The actions of a step.
LEMMA NextCases ==
  ASSUME [Next]_vars
  PROVE  \/ \E t \in Threads : \/ AddHandlerProc(t) \/ ClearHandlersWithTag(t) \/ CallName(t) \/ WalkFront(t)
                               \/ WalkElement(t) \/ HandlerReturns(t) \/ WalkNext(t) \/ Unlink(t) \/ EraseEmpty(t)
                               \/ KeepList(t) \/ Return(t)
         \/ \E t \in Threads, k \in Keys, g \in Tags, s \in Skips : BeginAdd(t, k, g, s)
         \/ \E t \in Threads, k \in Keys : ClearHandlerName(t, k)
         \/ \E t \in Threads, g \in Tags : BeginClear(t, g)
         \/ \E t \in Threads, e \in Events : BeginCall(t, e)
         \/ DropMap \/ UNCHANGED vars
  <1>1. Events \subseteq Keys
    BY DEF Keys
  <1>2. ASSUME NEW t \in Threads, Start(t, Events, Tags, Skips)
        PROVE  \/ \E k \in Keys, g \in Tags, s \in Skips : BeginAdd(t, k, g, s)
               \/ \E k \in Keys : ClearHandlerName(t, k)
               \/ \E g \in Tags : BeginClear(t, g)
               \/ \E e \in Events : BeginCall(t, e)
    BY <1>1, <1>2, Zenon DEF Start, Keys
  <1> QED
    BY <1>2, Zenon DEF Next, Step

\* Every step keeps the invariant.
LEMMA IInvKept == IInv /\ [Next]_vars => IInv'
  <1> SUFFICES ASSUME IInv, [Next]_vars PROVE IInv'
    OBVIOUS
  <1>1. ASSUME NEW t \in Threads, AddHandlerProc(t) PROVE IInv'
    BY <1>1, AddHandlerProcKeeps
  <1>2. ASSUME NEW t \in Threads, ClearHandlersWithTag(t) PROVE IInv'
    BY <1>2, ClearHandlersWithTagKeeps
  <1>3. ASSUME NEW t \in Threads, CallName(t) PROVE IInv'
    BY <1>3, CallNameKeeps
  <1>4. ASSUME NEW t \in Threads, WalkFront(t) PROVE IInv'
    BY <1>4, WalkFrontKeeps
  <1>5. ASSUME NEW t \in Threads, WalkElement(t) PROVE IInv'
    BY <1>5, WalkElementKeeps
  <1>6. ASSUME NEW t \in Threads, HandlerReturns(t) PROVE IInv'
    BY <1>6, HandlerReturnsKeeps
  <1>7. ASSUME NEW t \in Threads, WalkNext(t) PROVE IInv'
    BY <1>7, WalkNextKeeps
  <1>8. ASSUME NEW t \in Threads, Unlink(t) PROVE IInv'
    BY <1>8, UnlinkKeeps
  <1>9. ASSUME NEW t \in Threads, EraseEmpty(t) PROVE IInv'
    BY <1>9, EraseEmptyKeeps
  <1>10. ASSUME NEW t \in Threads, KeepList(t) PROVE IInv'
    BY <1>10, KeepListKeeps
  <1>11. ASSUME NEW t \in Threads, Return(t) PROVE IInv'
    BY <1>11, ReturnKeeps
  <1>12. ASSUME NEW t \in Threads, NEW k \in Keys, NEW g \in Tags, NEW s \in Skips, BeginAdd(t, k, g, s) PROVE IInv'
    BY <1>12, BeginAddKeeps
  <1>13. ASSUME NEW t \in Threads, NEW k \in Keys, ClearHandlerName(t, k) PROVE IInv'
    BY <1>13, ClearHandlerNameKeeps
  <1>14. ASSUME NEW t \in Threads, NEW g \in Tags, BeginClear(t, g) PROVE IInv'
    BY <1>14, BeginClearKeeps
  <1>15. ASSUME NEW t \in Threads, NEW e \in Events, BeginCall(t, e) PROVE IInv'
    BY <1>15, BeginCallKeeps
  <1>16. CASE DropMap
    BY <1>16, DropMapKeeps
  <1>17. CASE UNCHANGED vars
    BY <1>17, StutterKeeps
  <1> QED
    BY <1>1, <1>2, <1>3, <1>4, <1>5, <1>6, <1>7, <1>8, <1>9, <1>10, <1>11, <1>12, <1>13, <1>14, <1>15, <1>16, <1>17,
       NextCases, Zenon

\* The inductive invariant.
THEOREM Inductive == Spec => []IInv
  BY InitIInv, IInvKept, PTL DEF Spec

-----------------------------------------------------------------------------
(* What the invariant says                                                 *)

\* What the invariant says of a frame.
LEMMA FrameFacts ==
  ASSUME IInv, NEW f \in Frames(stack)
  PROVE  f \in FrameTypes /\ Shape(f) /\ Known(f) /\ WalkOK(f)
  BY FramesTyped, Zenon DEF IInv, FramesOK, Walks, WalkOK

\* The block a thread is at is linked.
LEMMA BlocksLinked == IInv => BlocksAreLinked
  <1> SUFFICES ASSUME IInv, NEW t \in Threads, NEW i \in DOMAIN stack[t]
               PROVE  /\ stack[t][i].el # None => \E l \in Handlers : Linked(l, stack[t][i].el) /\ Owned(l, procs, stack)
                      /\ stack[t][i].dying # None =>
                            /\ ~Held(stack[t][i].dying, stack)
                            /\ \A u \in Threads : \A j \in DOMAIN stack[u] :
                                  stack[u][j].dying = stack[t][i].dying => <<t, i>> = <<u, j>>
    BY Zenon DEF BlocksAreLinked
  <1>0. PICK f : f = stack[t][i]
    OBVIOUS
  <1>1. Types /\ Blocks
    BY Zenon DEF IInv
  <1>2. f \in Frames(stack) /\ f \in FrameTypes /\ Shape(f)
    BY <1>0, <1>1, FramesTyped, FrameFacts
  <1>3. ASSUME f.el # None PROVE \E l \in Handlers : Linked(l, f.el) /\ Owned(l, procs, stack)
    <2>1. f.list \in Handlers
      BY <1>2, <1>3, ElHasList
    <2>2. Linked(f.list, f.el) /\ Owned(f.list, procs, stack)
      BY <1>1, <1>2, <1>3, Zenon DEF Blocks, Owned
    <2> QED
      BY <2>1, <2>2
  <1>4. ASSUME f.dying # None PROVE ~Held(f.dying, stack)
    BY <1>1, <1>2, <1>4, Zenon DEF Blocks
  <1>5. ASSUME f.dying # None, NEW u \in Threads, NEW j \in DOMAIN stack[u], stack[u][j].dying = f.dying
        PROVE  <<t, i>> = <<u, j>>
    <2>1. stack[t][i].dying # None /\ stack[t][i].dying = stack[u][j].dying
      BY <1>0, <1>5
    <2>2. t = u /\ i = j
      BY <1>1, <2>1, Zenon DEF Blocks
    <2> QED
      BY <2>2
  <1> QED
    BY <1>0, <1>3, <1>4, <1>5

\* A call that is over.
LEMMA WholeCall ==
  ASSUME IInv, NEW f \in Whole
  PROVE  /\ f \in FrameTypes /\ CallOK(f) /\ Place(f) = "done" /\ f.pc # "invoke" /\ ~f.cut
         /\ f.name_list \in Lists /\ f.type_list \in Lists
  <1>1. f \in Frames(stack) /\ f.op = "call" /\ f.pc = "done" /\ ~f.cut
    BY DEF Whole, Calls
  <1>2. f \in FrameTypes /\ WalkOK(f)
    BY <1>1, FrameFacts
  <1> QED
    BY <1>1, <1>2, Fields DEF WalkOK, Place

\* The handlers a walk has left, in two ways.
LEMMA LeftIs == \A l, f : LiveOf(l) \cap f.present = Left(l, f)
  BY SMT DEF LiveOf, Live, Left, Linked

\* The invariant says that a call that ends has run what it should.
LEMMA CallsComplete == IInv => CallComplete
  <1> SUFFICES ASSUME IInv, NEW f \in Whole
               PROVE  /\ InOrder(f.name_list, f) /\ InOrder(f.type_list, f) /\ IsInjective(f.called)
                      /\ LiveOf(f.name_list) \cap f.present \subseteq Range(f.called)
                      /\ f.call_type_handler => LiveOf(f.type_list) \cap f.present \subseteq Range(f.called)
    BY Zenon DEF CallComplete
  <1>1. CallOK(f) /\ Place(f) = "done" /\ ~f.cut
    BY WholeCall, Zenon
  <1>2. CallOrder(f) /\ CallWhole(f)
    BY <1>1, Zenon DEF CallOK
  <1>3. IsInjective(f.called)
    BY <1>2, Zenon DEF CallOrder, IsInjective
  <1>4. Left(f.name_list, f) \subseteq Range(f.called)
    BY <1>1, <1>2, Zenon DEF CallWhole
  <1>5. f.call_type_handler => Left(f.type_list, f) \subseteq Range(f.called)
    BY <1>1, <1>2, Zenon DEF CallWhole
  <1> QED
    BY <1>2, <1>3, <1>4, <1>5, LeftIs, Zenon DEF CallOrder

\* The invariant says when the handlers of the type run.
LEMMA TypesWanted == IInv => TypeHandlersWanted
  <1> SUFFICES ASSUME IInv, NEW f \in Whole
               PROVE  /\ f.name_list = None \/ (\E b \in Range(f.called) : Linked(f.name_list, b) /\ ~skip[b])
                            => LiveOf(f.type_list) \cap f.present \subseteq Range(f.called)
                      /\ (\E b \in Range(f.called) : f.type_list # None /\ Linked(f.type_list, b))
                            => f.name_list = None \/ \E b \in Range(f.called) : ~skip[b]
    BY Zenon DEF TypeHandlersWanted
  <1>1. f \in FrameTypes /\ CallOK(f) /\ Place(f) = "done" /\ f.pc # "invoke" /\ ~f.cut
    BY WholeCall, Zenon
  <1>2. CallOrder(f) /\ CallWhole(f) /\ CallTypes(f)
    BY <1>1, Zenon DEF CallOK
  <1>3. ASSUME f.name_list = None \/ (\E b \in Range(f.called) : Linked(f.name_list, b) /\ ~skip[b])
        PROVE  LiveOf(f.type_list) \cap f.present \subseteq Range(f.called)
    <2>1. ASSUME NEW b \in Range(f.called), ~skip[b] PROVE f.call_type_handler
      <3>1. PICK i \in DOMAIN f.called : f.called[i] = b
        BY <1>1, Called
      <3> QED
        BY <1>1, <1>2, <2>1, <3>1, Zenon DEF CallTypes
    <2>2. f.call_type_handler
      BY <1>2, <1>3, <2>1, Zenon DEF CallTypes
    <2>3. Left(f.type_list, f) \subseteq Range(f.called)
      BY <1>1, <1>2, <2>2, Zenon DEF CallWhole
    <2> QED
      BY <2>3, LeftIs, Zenon
  <1>4. ASSUME NEW b \in Range(f.called), f.type_list # None, Linked(f.type_list, b)
        PROVE  f.name_list = None \/ \E x \in Range(f.called) : ~skip[x]
    <2>1. f.list = f.type_list
      BY <1>2, <1>4, Zenon DEF CallOrder
    <2>2. f.list # None /\ f.list = f.type_list
      BY <1>4, <2>1
    <2>3. f.call_type_handler
      BY <1>2, <2>2, Zenon DEF CallTypes
    <2> QED
      BY <1>2, <2>3, Zenon DEF CallTypes
  <1> QED
    BY <1>3, <1>4, Zenon

\* The invariant says that nothing cleared is run.
LEMMA NotAfter == IInv => NotAfterClear
  <1> SUFFICES ASSUME IInv, NEW f \in Frames(stack), f.op = "call" PROVE Range(f.called) \cap f.barred = {}
    BY Zenon DEF NotAfterClear, Calls
  <1>1. Shape(f) /\ WalkOK(f)
    BY FrameFacts, Zenon
  <1>2. CASE f.pc = "lock"
    <2>1. f.called = <<>> /\ Range(<<>>) = {}
      BY <1>1, <1>2 DEF Shape, Range
    <2> QED
      BY <2>1
  <1>3. CASE f.pc # "lock"
    BY <1>1, <1>3, Zenon DEF WalkOK, CallOK, CallBarred
  <1> QED
    BY <1>2, <1>3

\* No handler is run by a call that looks it up after ClearHandlersWithTag or
\* ClearHandlerName has returned, whatever other threads and handlers do.
THEOREM NeverAfterClear == Spec => []NotAfterClear
  BY Inductive, NotAfter, PTL

-----------------------------------------------------------------------------
(* What a step does to the lists                                           *)

\* What the action properties say of a step, and the depth of the stacks.
CutStep ==
    \A t \in Threads : \A i \in DOMAIN stack[t] \cap DOMAIN stack'[t] :
        stack'[t][i].cut /\ ~stack[t][i].cut => Unlinking(t)

Taken(b) ==
    \/ ~owned'
    \/ \E t \in Threads : At(t, "element") /\ Top(t).op = "clear" /\ Top(t).tag = tag[b] /\ Top(t).el = b
    \/ b \in gone'
    \/ \E t \in Threads : At(t, "erase") /\ Linked(Top(t).list, b) /\ Unlinking(t)

StaysStep ==
    \A b \in Registered :
        \/ b \in Registered'
        \/ ~owned'
        \/ \E t \in Threads : At(t, "element") /\ Top(t).op = "clear" /\ Top(t).tag = tag[b] /\ Top(t).el = b
        \/ b \in gone'
        \/ \E t \in Threads : At(t, "erase") /\ Linked(Top(t).list, b) /\ Unlinking(t)

ErasedStep ==
    \A t \in Threads : At(t, "erase") /\ stack'[t] # stack[t] /\ Live(Top(t).list) = {} =>
        procs'[Top(t).key] = None \/ Walking(Top(t).list)

Depth == \A t \in Threads : Len(stack[t]) =< MaxDepth

\* A block nobody holds is being unlinked by a thread that does nothing else.
LEMMA Unlinker ==
  ASSUME IInv, NEW t \in Threads, stack[t] # <<>>, Top(t).dying = None,
         NEW l \in Handlers, NEW p \in Range(ring[l]), ~Held(p, stack)
  PROVE  Unlinking(t)
  <1>1. Types /\ Blocks /\ OthersInvoke
    BY Zenon DEF IInv
  <1>2. PICK h \in Frames(stack) : h.dying = p
    BY <1>1, Zenon DEF Blocks
  <1>3. p # None
    BY <1>1, RingTypes, NoneIsNoHandler, Zenon
  <1>4. PICK u \in Threads : \E i \in DOMAIN stack[u] : h = stack[u][i]
    BY FramesAre
  <1>5. PICK i \in DOMAIN stack[u] : h = stack[u][i]
    BY <1>4
  <1>6. Shape(h)
    BY FrameFacts, Zenon
  <1>7. h.pc = "unlink"
    BY <1>2, <1>3, <1>6 DEF Shape
  <1>8. i = Len(stack[u])
    <2>1. ~(i < Len(stack[u]))
      BY <1>1, <1>5, <1>7 DEF OthersInvoke
    <2>2. stack[u] \in Seq(FrameTypes)
      BY <1>1, FramesTyped, Zenon
    <2> QED
      BY <2>1, <2>2
  <1>9. u # t
    <2>1. Top(t) = stack[t][Len(stack[t])]
      BY <1>1, TopIs, Zenon
    <2> QED
      BY <1>2, <1>3, <1>5, <1>8, <2>1
  <1> QED
    BY <1>2, <1>3, <1>5, <1>9 DEF Unlinking

\* A handler is registered in the list of a key.
LEMMA RegisteredIs ==
  /\ \A b : b \in Registered <=> \E k \in Keys : procs[k] # None /\ b \in element /\ b \in Range(ring[procs[k]])
  /\ \A b : b \in Registered' <=> \E k \in Keys : procs'[k] # None /\ b \in element' /\ b \in Range(ring'[procs'[k]])
  <1>1. \A b : b \in Registered <=> \E k \in Keys : procs[k] # None /\ b \in element /\ b \in Range(ring[procs[k]])
    BY SMT DEF Registered, LiveOf, Live
  <1>2. \A b : b \in Registered' <=> \E k \in Keys : procs'[k] # None /\ b \in element' /\ b \in Range(ring'[procs'[k]])
    BY SMT DEF Registered, LiveOf, Live
  <1> QED
    BY <1>1, <1>2

\* Handlers stay registered if each is where it was or was taken away.
LEMMA StaysIf ==
  ASSUME \A k \in Keys : \A b \in element : procs[k] # None /\ b \in Range(ring[procs[k]]) =>
            (procs'[k] # None /\ b \in element' /\ b \in Range(ring'[procs'[k]])) \/ Taken(b)
  PROVE  StaysStep
  <1> SUFFICES ASSUME NEW b \in Registered PROVE b \in Registered' \/ Taken(b)
    BY Zenon DEF StaysStep, Taken
  <1>1. PICK k \in Keys : procs[k] # None /\ b \in element /\ b \in Range(ring[procs[k]])
    BY RegisteredIs, Zenon
  <1>2. (procs'[k] # None /\ b \in element' /\ b \in Range(ring'[procs'[k]])) \/ Taken(b)
    BY <1>1, Zenon
  <1> QED
    BY <1>2, RegisteredIs, Zenon

\* Handlers stay registered while the lists do not change.
LEMMA TableStays ==
  ASSUME UNCHANGED table
  PROVE  StaysStep
  <1>1. procs' = procs /\ ring' = ring /\ element' = element
    BY DEF table
  <1> QED
    BY <1>1, StaysIf, Zenon

\* A thread that is not about to erase a list.
LEMMA ErasesNothing ==
  ASSUME NEW t \in Threads, ~At(t, "erase"), \A u \in Threads : u # t => stack'[u] = stack[u]
  PROVE  ErasedStep
  BY Zenon DEF ErasedStep

\* A step of the innermost operation.
LEMMA TopStep ==
  ASSUME Types, Types', NEW t \in Threads, stack[t] # <<>>, NEW g, SetTop(t, g), g.cut => Top(t).cut \/ Unlinking(t)
  PROVE  /\ g \in FrameTypes /\ CutStep /\ (Depth => Depth') /\ \A u \in Threads : u # t => stack'[u] = stack[u]
  <1>1. g \in FrameTypes
    <2>1. stack[t] \in Seq(FrameTypes) /\ Len(stack[t]) \in DOMAIN stack[t] /\ stack'[t] \in Seq(FrameTypes)
      BY DEF Types
    <2>2. PICK n : n = Len(stack[t])
      OBVIOUS
    <2>3. PICK q : q = [stack[t] EXCEPT ![n] = g]
      OBVIOUS
    <2>4. stack' = [stack EXCEPT ![t] = q]
      BY <2>2, <2>3 DEF SetTop
    <2>5. stack'[t] = q
      BY <2>4 DEF Types
    <2>6. n \in DOMAIN q /\ q[n] = g
      BY <2>1, <2>2, <2>3
    <2> QED
      BY <2>1, <2>5, <2>6
  <1>2. /\ \A u \in Threads : Len(stack'[u]) = Len(stack[u]) /\ DOMAIN stack'[u] = DOMAIN stack[u]
        /\ Len(stack[t]) \in DOMAIN stack[t] /\ Top(t) = stack[t][Len(stack[t])] /\ stack'[t][Len(stack[t])] = g
        /\ \A u \in Threads : \A i \in DOMAIN stack[u] : u # t \/ i # Len(stack[t]) => stack'[u][i] = stack[u][i]
        /\ \A u \in Threads : u # t => stack'[u] = stack[u]
    BY <1>1, SetTopFacts
  <1>3. CutStep
    <2> SUFFICES ASSUME NEW u \in Threads, NEW i \in DOMAIN stack[u], stack'[u][i].cut, ~stack[u][i].cut PROVE Unlinking(u)
      BY Zenon DEF CutStep
    <2>1. u = t /\ i = Len(stack[t])
      BY <1>2, Zenon
    <2>2. stack'[u][i] = g /\ stack[u][i] = Top(t)
      BY <1>2, <2>1, Zenon
    <2> QED
      BY <2>1, <2>2, Zenon
  <1>4. Depth => Depth'
    BY <1>2, Zenon DEF Depth
  <1> QED
    BY <1>1, <1>2, <1>3, <1>4

\* One that leaves the table alone, at another place than the end of a clear.
LEMMA PlainStep ==
  ASSUME IInv, Types', NEW t \in Threads, stack[t] # <<>>, NEW g, SetTop(t, g), g.cut => Top(t).cut \/ Unlinking(t),
         UNCHANGED table, ~At(t, "erase")
  PROVE  CutStep /\ StaysStep /\ ErasedStep /\ (Depth => Depth')
  BY TopStep, TableStays, ErasesNothing, Zenon DEF IInv

StepKept == CutStep /\ StaysStep /\ ErasedStep /\ (Depth => Depth')

\* Beginning an operation keeps the lists.
LEMMA BeginStep ==
  ASSUME IInv, IInv', NEW t \in Threads, NEW g, Begin(t, g), UNCHANGED table
  PROVE  StepKept
  <1>1. Types /\ Types'
    BY Zenon DEF IInv
  <1>2. PICK q : q = Append(stack[t], g)
    OBVIOUS
  <1>3. stack' = [stack EXCEPT ![t] = q] /\ Len(stack[t]) < MaxDepth /\ (stack[t] = <<>> \/ At(t, "invoke"))
    BY <1>2 DEF Begin
  <1>4. stack[t] \in Seq(FrameTypes)
    BY <1>1, FramesTyped, Zenon
  <1>5. stack'[t] = q /\ \A u \in Threads : u # t => stack'[u] = stack[u]
    BY <1>1, <1>3 DEF Types
  <1>6. Len(q) = Len(stack[t]) + 1 /\ \A i \in DOMAIN stack[t] : q[i] = stack[t][i]
    BY <1>2, <1>4
  <1>7. CutStep
    <2> SUFFICES ASSUME NEW u \in Threads, NEW i \in DOMAIN stack[u], stack'[u][i].cut, ~stack[u][i].cut PROVE FALSE
      BY Zenon DEF CutStep
    <2>1. stack'[u][i] = stack[u][i]
      BY <1>5, <1>6, Zenon
    <2> QED
      BY <2>1
  <1>8. ~At(t, "erase")
    BY <1>3 DEF At
  <1>9. Depth => Depth'
    <2> SUFFICES ASSUME Depth, NEW u \in Threads PROVE Len(stack'[u]) =< MaxDepth
      BY Zenon DEF Depth
    <2>1. CASE u = t
      <3>1. Len(stack[t]) \in Nat
        BY <1>4
      <3> QED
        BY <1>3, <1>5, <1>6, <2>1, <3>1, EventHandlerMapConstants
    <2>2. CASE u # t
      BY <1>5, <2>2 DEF Depth
    <2> QED
      BY <2>1, <2>2
  <1> QED
    BY <1>5, <1>7, <1>8, <1>9, TableStays, ErasesNothing, Zenon DEF StepKept

\* The list of a key is not destroyed.
LEMMA KeptLists ==
  ASSUME Types, Rings, Types', NEW s, DestroyLists(procs', s),
         NEW k \in Keys, procs'[k] = procs[k], procs[k] # None, NEW b \in element, b \in Range(ring[procs[k]])
  PROVE  procs'[k] # None /\ b \in element' /\ b \in Range(ring'[procs'[k]])
  <1>1. PICK p : p = procs'
    OBVIOUS
  <1>2. DestroyLists(p, s)
    BY <1>1, Zenon
  <1>3. PICK l \in Handlers : l = procs[k]
    BY NoneIsNoHandler DEF Types
  <1>4. p \in [Keys -> Lists]
    BY <1>1, Zenon DEF Types
  <1>5. l \in Range(p)
    BY <1>1, <1>3, <1>4 DEF Range
  <1>6. Owned(l, p, s)
    BY <1>5, Zenon DEF Owned
  <1>7. ring'[l] = ring[l] /\ \A x \in Range(ring[l]) : x \in element => x \in element'
    BY <1>2, <1>6, Destroyed, Zenon
  <1> QED
    BY <1>3, <1>7, Zenon

\* ClearHandlerName takes only the handlers of its name.
LEMMA ClearHandlerNameStep ==
  ASSUME IInv, IInv', NEW t \in Threads, NEW k \in Keys, ClearHandlerName(t, k)
  PROVE  StepKept
  <1>1. /\ procs' = [procs EXCEPT ![k] = None] /\ DestroyLists(procs', stack)
        /\ gone' = gone \cup Live(procs[k]) /\ stack' = stack
    BY Zenon DEF ClearHandlerName
  <1>2. Types /\ Types' /\ Rings
    BY Zenon DEF IInv
  <1>3. StaysStep
    <2>1. ASSUME NEW j \in Keys, NEW b \in element, procs[j] # None, b \in Range(ring[procs[j]])
          PROVE  (procs'[j] # None /\ b \in element' /\ b \in Range(ring'[procs'[j]])) \/ Taken(b)
      <3>1. CASE j = k
        BY <1>1, <2>1, <3>1, Zenon DEF Taken, Live
      <3>2. CASE j # k
        <4>1. procs'[j] = procs[j]
          BY <1>1, <1>2, <3>2 DEF Types
        <4> QED
          BY <1>1, <1>2, <2>1, <4>1, KeptLists, Zenon
      <3> QED
        BY <3>1, <3>2
    <2> QED
      BY <2>1, StaysIf, Zenon
  <1>4. CutStep /\ ErasedStep /\ (Depth => Depth')
    BY <1>1, Zenon DEF CutStep, ErasedStep, Depth
  <1> QED
    BY <1>3, <1>4 DEF StepKept

\* Destroying the map takes all of them.
LEMMA DropMapStep ==
  ASSUME IInv, IInv', DropMap
  PROVE  StepKept
  <1>1. stack' = stack /\ owned' = FALSE
    BY Zenon DEF DropMap
  <1>2. StaysStep
    BY <1>1, Zenon DEF StaysStep, Taken
  <1>3. CutStep /\ ErasedStep /\ (Depth => Depth')
    BY <1>1, Zenon DEF CutStep, ErasedStep, Depth
  <1> QED
    BY <1>2, <1>3 DEF StepKept

\* The end of an operation keeps the lists.
LEMMA ReturnStep ==
  ASSUME IInv, IInv', NEW t \in Threads, Return(t)
  PROVE  StepKept
  <1>1. PICK s : s = stack'
    OBVIOUS
  <1>2. /\ stack[t] # <<>> /\ Top(t).pc = "done" /\ PoppedOff(stack, s, t) /\ DestroyLists(procs', s)
        /\ procs' = procs \/ ~owned'
    BY <1>1 DEF Return, At, Pop, PoppedOff
  <1>3. Types /\ Types' /\ Rings
    BY Zenon DEF IInv
  <1>4. stack \in [Threads -> Seq(FrameTypes)]
    BY <1>3, Zenon DEF Types
  <1>5. /\ Len(s[t]) = Len(stack[t]) - 1 /\ \A u \in Threads : u # t => s[u] = stack[u]
        /\ \A u \in Threads : \A i \in DOMAIN s[u] : s[u][i] = stack[u][i]
    BY <1>2, <1>4, Popped
  <1>6. CutStep
    BY <1>1, <1>5, Zenon DEF CutStep
  <1>7. StaysStep
    <2>1. CASE ~owned'
      BY <2>1, Zenon DEF StaysStep, Taken
    <2>2. CASE procs' = procs
      BY <1>2, <1>3, <2>2, KeptLists, StaysIf, Zenon
    <2> QED
      BY <1>2, <2>1, <2>2
  <1>8. Top(t).pc # "erase"
    BY <1>2
  <1>9. ErasedStep
    BY <1>1, <1>5, <1>8, ErasesNothing, Zenon DEF At
  <1>10. Depth => Depth'
    <2> SUFFICES ASSUME Depth, NEW u \in Threads PROVE Len(s[u]) =< MaxDepth
      BY <1>1, Zenon DEF Depth
    <2>1. Len(stack[u]) =< MaxDepth /\ Len(stack[u]) \in Nat /\ MaxDepth \in Nat
      BY <1>4, EventHandlerMapConstants DEF Depth
    <2> QED
      BY <1>5, <2>1
  <1> QED
    BY <1>6, <1>7, <1>9, <1>10 DEF StepKept

\* AddHandlerProc adds one handler.
LEMMA AddHandlerProcStep ==
  ASSUME IInv, IInv', NEW t \in Threads, AddHandlerProc(t)
  PROVE  StepKept
  <1>1. PICK f : f = Top(t)
    OBVIOUS
  <1>2. PICK b, l : b \in Handlers /\ Adds(f.key, b, l, f.tag, f.skip)
    <2>1. born + 1 \in Handlers /\ Adds(f.key, born + 1, IF procs[f.key] # None THEN procs[f.key] ELSE born + 1, f.tag, f.skip)
      BY <1>1 DEF AddHandlerProc, Adds, PushBack, AddBefore
    <2> QED
      BY <2>1
  <1>3. PICK g : g = [f EXCEPT !.pc = "done"] /\ SetTop(t, g)
    BY <1>1 DEF AddHandlerProc
  <1>4. stack[t] # <<>> /\ f.pc = "lock" /\ f.op = "add"
    BY <1>1 DEF AddHandlerProc, At
  <1>5. f \in FrameTypes /\ Shape(f)
    BY <1>1, <1>4, TopOK, Zenon
  <1>6. Types /\ Types' /\ Rings
    BY Zenon DEF IInv
  <1>7. f.key \in Keys /\ f.tag \in Tags
    BY <1>4, <1>5, Fields DEF Shape
  <1>8. f.skip \in BOOLEAN
    BY <1>5, Flags, Zenon
  <1>9. Added(f.key, b, l)
    BY <1>2, <1>6, <1>7, <1>8, AddedTable
  <1>10. /\ \A m \in Handlers : \A x \in Range(ring[m]) : x \in Range(ring'[m])
         /\ procs'[f.key] = l /\ (\A j \in Keys : j # f.key => procs'[j] = procs[j])
         /\ l = procs[f.key] \/ procs[f.key] = None
    BY <1>9 DEF Added
  <1>11. element \subseteq element'
    BY <1>2 DEF Adds
  <1>12. \A k \in Keys : procs[k] # None => procs'[k] = procs[k] /\ procs[k] \in Handlers
    BY <1>6, <1>10, NoneIsNoHandler, Zenon DEF Types
  <1>13. StaysStep
    BY <1>10, <1>11, <1>12, StaysIf, Zenon
  <1>14. g.cut => Top(t).cut
    BY <1>1, <1>3, <1>5, Zenon DEF FrameTypes
  <1>15. CutStep /\ (Depth => Depth') /\ \A u \in Threads : u # t => stack'[u] = stack[u]
    BY <1>3, <1>4, <1>6, <1>14, TopStep, Zenon
  <1>16. ErasedStep
    BY <1>1, <1>4, <1>15, ErasesNothing DEF At
  <1> QED
    BY <1>13, <1>15, <1>16 DEF StepKept

\* The return of a handler keeps the lists.
LEMMA HandlerReturnsStep ==
  ASSUME IInv, IInv', NEW t \in Threads, HandlerReturns(t)
  PROVE  StepKept
  <1>1. PICK f : f = Top(t)
    OBVIOUS
  <1>2. PICK g : g = [f EXCEPT !.pc = "next", !.call_type_handler = TypeHandlerWanted(f)]
    OBVIOUS
  <1>3. stack[t] # <<>> /\ f.pc = "invoke" /\ SetTop(t, g) /\ UNCHANGED table
    BY <1>1, <1>2 DEF HandlerReturns, At
  <1>4. f \in FrameTypes
    BY <1>1, <1>3, TopOK, Zenon
  <1>5. g.cut = f.cut
    BY <1>2, <1>4, Zenon DEF FrameTypes
  <1>6. ~At(t, "erase")
    BY <1>1, <1>3 DEF At
  <1>7. Types' /\ (g.cut => Top(t).cut)
    BY <1>1, <1>5, Zenon DEF IInv
  <1> QED
    BY <1>3, <1>6, <1>7, PlainStep, Zenon DEF StepKept

\* Looking up both lists keeps them.
LEMMA CallNameStep ==
  ASSUME IInv, IInv', NEW t \in Threads, CallName(t)
  PROVE  StepKept
  <1>1. PICK f : f = Top(t)
    OBVIOUS
  <1>2. PICK g : g = [f EXCEPT !.name_list = procs[f.key], !.type_list = procs[TypeKey(f.key)],
                               !.call_type_handler = (procs[f.key] = None),
                               !.present = LiveOf(procs[f.key]) \cup LiveOf(procs[TypeKey(f.key)]), !.barred = gone]
    OBVIOUS
  <1>3. /\ stack[t] # <<>> /\ f.pc = "lock" /\ UNCHANGED table
        /\ SetTop(t, CASE procs[f.key] # None -> [g EXCEPT !.list = procs[f.key], !.pc = "front"]
                       [] procs[f.key] = None /\ procs[TypeKey(f.key)] # None ->
                            [g EXCEPT !.list = procs[TypeKey(f.key)], !.pc = "front"]
                       [] OTHER -> [g EXCEPT !.pc = "done"])
    BY <1>1, <1>2 DEF CallName, At
  <1>4. PICK h : /\ SetTop(t, h)
                 /\ \/ h = [g EXCEPT !.list = procs[f.key], !.pc = "front"]
                    \/ h = [g EXCEPT !.list = procs[TypeKey(f.key)], !.pc = "front"]
                    \/ h = [g EXCEPT !.pc = "done"]
    BY <1>3
  <1>5. f \in FrameTypes
    BY <1>1, <1>3, TopOK, Zenon
  <1>6. h.cut = f.cut
    BY <1>2, <1>4, <1>5, Zenon DEF FrameTypes
  <1>7. ~At(t, "erase")
    BY <1>1, <1>3 DEF At
  <1>8. Types' /\ (h.cut => Top(t).cut)
    BY <1>1, <1>6, Zenon DEF IInv
  <1> QED
    BY <1>3, <1>4, <1>7, <1>8, PlainStep, Zenon DEF StepKept

\* Taking the lock for a clear keeps the lists.
LEMMA ClearHandlersWithTagStep ==
  ASSUME IInv, IInv', NEW t \in Threads, ClearHandlersWithTag(t)
  PROVE  StepKept
  <1>1. PICK f : f = Top(t)
    OBVIOUS
  <1>2. PICK h : h = [f EXCEPT !.present = {b \in 1 .. born : tag[b] = f.tag}]
    OBVIOUS
  <1>3. PICK g \in NextKey(h, Keys) : SetTop(t, g)
    BY <1>1, <1>2 DEF ClearHandlersWithTag, ClearKeys
  <1>4. stack[t] # <<>> /\ f.pc = "lock" /\ UNCHANGED table
    BY <1>1 DEF ClearHandlersWithTag, At
  <1>5. f \in FrameTypes /\ Types /\ Types'
    BY <1>1, <1>4, TopOK, Zenon DEF IInv
  <1>6. {b \in 1 .. born : tag[b] = f.tag} \in SUBSET Handlers
    BY <1>5, Zenon DEF Types
  <1>7. h \in FrameTypes
    BY <1>2, <1>5, <1>6, Zenon DEF FrameTypes
  <1>8. h.cut = f.cut
    BY <1>2, <1>5, Zenon DEF FrameTypes
  <1>9. g.cut = h.cut
    BY <1>3, <1>5, <1>7, NextKeyIs
  <1>10. ~At(t, "erase")
    BY <1>1, <1>4 DEF At
  <1>11. g.cut => Top(t).cut
    BY <1>1, <1>8, <1>9
  <1> QED
    BY <1>3, <1>4, <1>5, <1>10, <1>11, PlainStep, Zenon DEF StepKept

\* A walk that goes on changes cut only if a block could not be locked.
LEMMA CutByOthers ==
  ASSUME IInv, NEW t \in Threads, stack[t] # <<>>, Top(t).dying = None, NEW l \in Handlers,
         NEW p \in Lists, p = None \/ Linked(l, p), NEW e, e = LockBlock(p, stack), e # p
  PROVE  Unlinking(t)
  <1>1. p # None /\ ~Held(p, stack)
    BY DEF LockBlock
  <1>2. p \in Range(ring[l])
    BY <1>1 DEF Linked
  <1> QED
    BY <1>1, <1>2, Unlinker, Zenon

\* Front keeps the lists, and is null for one with handlers only because of
\* others.
LEMMA WalkFrontStep ==
  ASSUME IInv, IInv', NEW t \in Threads, WalkFront(t)
  PROVE  StepKept
  <1>1. PICK f : f = Top(t)
    OBVIOUS
  <1>2. PICK p : p = FirstPointer(f.list)
    OBVIOUS
  <1>3. PICK e : e = LockBlock(p, stack)
    OBVIOUS
  <1>4. PICK c \in BOOLEAN : c = (f.cut \/ e # p)
    OBVIOUS
  <1>5. PICK g : g = GoOn([f EXCEPT !.el = e, !.cut = c])
    OBVIOUS
  <1>6. stack[t] # <<>> /\ f.pc = "front" /\ SetTop(t, g) /\ UNCHANGED table
    BY <1>1, <1>2, <1>3, <1>4, <1>5 DEF WalkFront, At
  <1>7. f \in FrameTypes /\ Shape(f) /\ Types /\ Rings /\ Types'
    BY <1>1, <1>6, TopOK, Zenon DEF IInv
  <1>8. f.op # "add" /\ f.list \in Handlers /\ f.dying = None
    BY <1>6, <1>7, Fields, NoneIsNoHandler DEF Shape, Place
  <1>9. p \in Lists /\ (p = None \/ Linked(f.list, p))
    BY <1>2, <1>7, <1>8, FirstIs, Zenon DEF Lists
  <1>10. e \in Lists
    BY <1>3, <1>9, LockIs, Zenon DEF Lists
  <1>11. GoesOn(f, e, c, g)
    BY <1>5 DEF GoesOn
  <1>12. g.cut = c
    BY <1>6, <1>7, <1>8, <1>10, <1>11, GoOnFields
  <1>13. e # p => Unlinking(t)
    BY <1>1, <1>3, <1>6, <1>8, <1>9, CutByOthers, Zenon
  <1>14. g.cut => Top(t).cut \/ Unlinking(t)
    BY <1>1, <1>4, <1>12, <1>13
  <1>15. ~At(t, "erase")
    BY <1>1, <1>6 DEF At
  <1> QED
    BY <1>6, <1>7, <1>14, <1>15, PlainStep, Zenon DEF StepKept

\* A thread that lets go of a block.
LEMMA ReleaseStep ==
  ASSUME IInv, Types', NEW t \in Threads, stack[t] # <<>>, NEW h \in FrameTypes, Release(t, h), UNCHANGED table,
         h.cut => Top(t).cut \/ Unlinking(t), ~At(t, "erase")
  PROVE  StepKept
  <1>1. Types
    BY Zenon DEF IInv
  <1>2. PICK old : old = Top(t).el
    OBVIOUS
  <1>3. PICK g : SetTop(t, g) /\ (g = h \/ Unlinks(h, old, g))
    BY <1>1, <1>2, Released
  <1>4. g.cut = h.cut
    BY <1>3, Zenon DEF Unlinks, FrameTypes
  <1> QED
    BY <1>3, <1>4, PlainStep DEF StepKept

\* GetNext keeps the lists, and is null too early only because of others.
LEMMA WalkNextStep ==
  ASSUME IInv, IInv', NEW t \in Threads, WalkNext(t)
  PROVE  StepKept
  <1>1. PICK f : f = Top(t)
    OBVIOUS
  <1>2. PICK p : p = NextPointer(f.list, f.el)
    OBVIOUS
  <1>3. PICK e : e = LockBlock(p, stack)
    OBVIOUS
  <1>4. PICK c \in BOOLEAN : c = (f.cut \/ e # p)
    OBVIOUS
  <1>5. PICK h : h = GoOn([f EXCEPT !.el = e, !.cut = c])
    OBVIOUS
  <1>6. stack[t] # <<>> /\ f.pc = "next" /\ Release(t, h) /\ UNCHANGED table
    BY <1>1, <1>2, <1>3, <1>4, <1>5 DEF WalkNext, At
  <1>7. f \in FrameTypes /\ Shape(f) /\ Types /\ Rings /\ Types'
    BY <1>1, <1>6, TopOK, Zenon DEF IInv
  <1>8. f.op # "add" /\ f.el # None /\ f.dying = None
    BY <1>6, <1>7 DEF Shape, Place
  <1>9. f.list \in Handlers /\ f.el \in Range(ring[f.list])
    BY <1>1, <1>6, <1>8, TopOK, Zenon
  <1>10. p \in Lists /\ (p = None \/ Linked(f.list, p))
    BY <1>2, <1>7, <1>9, NextIs, Zenon DEF Lists
  <1>11. e \in Lists
    BY <1>3, <1>10, LockIs, Zenon DEF Lists
  <1>12. GoesOn(f, e, c, h)
    BY <1>5 DEF GoesOn
  <1>13. h \in FrameTypes /\ h.cut = c
    BY <1>6, <1>7, <1>8, <1>11, <1>12, GoOnFields
  <1>14. e # p => Unlinking(t)
    BY <1>1, <1>3, <1>6, <1>8, <1>9, <1>10, CutByOthers, Zenon
  <1>15. h.cut => Top(t).cut \/ Unlinking(t)
    BY <1>1, <1>4, <1>13, <1>14
  <1>16. ~At(t, "erase")
    BY <1>1, <1>6 DEF At
  <1> QED
    BY <1>6, <1>7, <1>13, <1>15, <1>16, ReleaseStep, Zenon

\* Keeping a list keeps the others.
LEMMA KeepListStep ==
  ASSUME IInv, IInv', NEW t \in Threads, KeepList(t)
  PROVE  StepKept
  <1>1. PICK f : f = Top(t)
    OBVIOUS
  <1>2. PICK h : h = [f EXCEPT !.el = None, !.list = None]
    OBVIOUS
  <1>3. PICK g \in NextKey(h, f.todo) : Release(t, g)
    BY <1>1, <1>2 DEF KeepList
  <1>4. stack[t] # <<>> /\ f.pc = "keep" /\ UNCHANGED table
    BY <1>1 DEF KeepList, At
  <1>5. f \in FrameTypes /\ Types /\ Types'
    BY <1>1, <1>4, TopOK, Zenon DEF IInv
  <1>6. None \in Lists /\ f.todo \in SUBSET Keys
    BY <1>5, Fields DEF Lists
  <1>7. h \in FrameTypes
    BY <1>2, <1>5, <1>6, Zenon DEF FrameTypes
  <1>8. h.cut = f.cut
    BY <1>2, <1>5, Zenon DEF FrameTypes
  <1>9. g \in FrameTypes /\ g.cut = h.cut
    BY <1>3, <1>5, <1>6, <1>7, NextKeyIs
  <1>10. ~At(t, "erase")
    BY <1>1, <1>4 DEF At
  <1>11. g.cut => Top(t).cut
    BY <1>1, <1>8, <1>9
  <1> QED
    BY <1>3, <1>4, <1>5, <1>9, <1>10, <1>11, ReleaseStep, Zenon

\* Clearing takes only the handler it is at.
LEMMA WalkElementStep ==
  ASSUME IInv, IInv', NEW t \in Threads, WalkElement(t)
  PROVE  StepKept
  <1>1. PICK f : f = Top(t)
    OBVIOUS
  <1>2. PICK match \in BOOLEAN : match = (f.el \in element /\ (f.op = "call" \/ tag[f.el] = f.tag))
    OBVIOUS
  <1>3. /\ stack[t] # <<>> /\ f.pc = "element" /\ procs' = procs /\ ring' = ring
        /\ element' = IF match /\ f.op = "clear" THEN element \ {f.el} ELSE element
        /\ SetTop(t, IF match /\ f.op = "call" THEN [f EXCEPT !.pc = "invoke", !.called = Append(@, f.el)]
                     ELSE [f EXCEPT !.pc = "next"])
    BY <1>1, <1>2 DEF WalkElement, At
  <1>4. PICK g : SetTop(t, g) /\ (RunsNext(f, g) \/ Passes(f, g))
    BY <1>3 DEF RunsNext, Passes
  <1>5. f \in FrameTypes /\ Types /\ Types'
    BY <1>1, <1>3, TopOK, Zenon DEF IInv
  <1>6. g.cut = f.cut
    BY <1>4, <1>5, Zenon DEF RunsNext, Passes, FrameTypes
  <1>7. g.cut => Top(t).cut
    BY <1>1, <1>6
  <1>8. CutStep /\ (Depth => Depth') /\ \A u \in Threads : u # t => stack'[u] = stack[u]
    BY <1>3, <1>4, <1>5, <1>7, TopStep, Zenon
  <1>9. At(t, "element") /\ ~At(t, "erase")
    BY <1>1, <1>3 DEF At
  <1>10. ErasedStep
    BY <1>8, <1>9, ErasesNothing, Zenon
  <1>11. \A b \in element : b \in element' \/ (f.op = "clear" /\ f.tag = tag[b] /\ f.el = b)
    BY <1>2, <1>3
  <1>12. \A b \in element : b \in element' \/ Taken(b)
    BY <1>1, <1>9, <1>11, Zenon DEF Taken
  <1>13. StaysStep
    BY <1>3, <1>12, StaysIf, Zenon
  <1> QED
    BY <1>8, <1>10, <1>13 DEF StepKept

\* Unlinking a block takes no handler that is not removed.
LEMMA UnlinkStep ==
  ASSUME IInv, IInv', NEW t \in Threads, Unlink(t)
  PROVE  StepKept
  <1>1. PICK f : f = Top(t)
    OBVIOUS
  <1>2. PICK b : b = f.dying
    OBVIOUS
  <1>3. PICK g : g = [f EXCEPT !.dying = None, !.pc = f.after]
    OBVIOUS
  <1>4. /\ stack[t] # <<>> /\ f.pc = "unlink" /\ SetTop(t, g) /\ ring' = [l \in Handlers |-> Unlinked(ring[l], b)]
        /\ procs' = procs /\ element' = element
    BY <1>1, <1>2, <1>3 DEF Unlink, At
  <1>5. f \in Frames(stack) /\ f \in FrameTypes /\ Shape(f)
    BY <1>1, <1>4, TopOK, Zenon
  <1>6. Types /\ Types' /\ Rings /\ Blocks
    BY Zenon DEF IInv
  <1>7. g.cut = f.cut
    BY <1>3, <1>5, Zenon DEF FrameTypes
  <1>8. g.cut => Top(t).cut
    BY <1>1, <1>7
  <1>9. CutStep /\ (Depth => Depth') /\ \A u \in Threads : u # t => stack'[u] = stack[u]
    BY <1>4, <1>6, <1>8, TopStep, Zenon
  <1>10. ~At(t, "erase")
    BY <1>1, <1>4 DEF At
  <1>11. ErasedStep
    BY <1>9, <1>10, ErasesNothing, Zenon
  <1>12. b \notin element
    <2>1. b # None
      BY <1>2, <1>4, <1>5 DEF Shape
    <2> QED
      BY <1>2, <1>5, <1>6, <2>1, Zenon DEF Blocks, Held
  <1>13. ASSUME NEW l \in Handlers PROVE Range(ring'[l]) = Range(ring[l]) \ {b}
    <2>1. PICK r : r = ring'[l]
      OBVIOUS
    <2>2. TakenOut(ring[l], b, r)
      BY <1>4, <2>1 DEF TakenOut
    <2>3. ring[l] \in Seq(Handlers)
      BY <1>6, RingTypes
    <2>4. \A i, j \in DOMAIN ring[l] : i < j => ring[l][i] < ring[l][j]
      BY <1>6, Zenon DEF Rings
    <2>5. Range(r) = Range(ring[l]) \ {b}
      BY <2>2, <2>3, <2>4, TakenOutIs
    <2> QED
      BY <2>1, <2>5
  <1>14. \A k \in Keys : procs[k] # None => procs[k] \in Handlers
    BY <1>6, NoneIsNoHandler, Zenon DEF Types
  <1>15. \A l \in Handlers : \A x \in element : x \in Range(ring[l]) => x \in Range(ring'[l])
    BY <1>12, <1>13
  <1>16. StaysStep
    BY <1>4, <1>14, <1>15, StaysIf, Zenon
  <1> QED
    BY <1>9, <1>11, <1>16 DEF StepKept

Sees(l, p, first) == p = FirstPointer(l) /\ first = LockBlock(p, stack)

\* What the end of a clear sees of its list.
LEMMA EraseSees ==
  ASSUME IInv, NEW t \in Threads, At(t, "erase"), NEW p, NEW first, Sees(Top(t).list, p, first)
  PROVE  /\ Top(t).op = "clear" /\ Top(t).list \in Handlers /\ Top(t).key \in Keys /\ procs[Top(t).key] = Top(t).list
         /\ first = None /\ Live(Top(t).list) # {} => Unlinking(t)
         /\ first # None => first = p /\ Linked(Top(t).list, first) /\ Held(first, stack)
  <1>1. PICK f : f = Top(t)
    OBVIOUS
  <1>2. stack[t] # <<>> /\ f.pc = "erase"
    BY <1>1 DEF At
  <1>3. f \in FrameTypes /\ Shape(f) /\ WalkOK(f) /\ Types /\ Rings
    BY <1>1, <1>2, TopOK, Zenon DEF IInv
  <1>4. f.op = "clear" /\ f.list # None /\ f.dying = None /\ Place(f) = "erase"
    BY <1>2, <1>3, Fields DEF Shape, Place
  <1>5. f.list \in Handlers
    BY <1>3, <1>4, Fields, NoneIsNoHandler, Zenon
  <1>6. ClearOK(f)
    BY <1>2, <1>3, <1>4 DEF WalkOK
  <1>7. f.key \in Keys /\ procs[f.key] = f.list
    BY <1>4, <1>6 DEF ClearOK
  <1>8. \/ p = None /\ Range(ring[f.list]) = {}
        \/ p \in Handlers /\ Linked(f.list, p)
    BY <1>1, <1>3, <1>5, FirstIs DEF Sees
  <1>9. p \in Lists
    BY <1>8 DEF Lists
  <1>10. first = None /\ Live(f.list) # {} => Unlinking(t)
    <2> SUFFICES ASSUME ~(first # None), Live(f.list) # {} PROVE Unlinking(t)
      BY Zenon
    <2>1. p # None
      BY <1>8, NoneIsNoHandler DEF Live
    <2>2. Linked(f.list, p)
      BY <1>8, <2>1
    <2>3. Top(t).dying = None
      BY <1>1, <1>4
    <2>4. first # p /\ first = LockBlock(p, stack)
      BY <2>1 DEF Sees
    <2> QED
      BY <1>2, <1>5, <1>9, <2>2, <2>3, <2>4, CutByOthers, Zenon
  <1>11. first # None => first = p /\ Linked(f.list, first) /\ Held(first, stack)
    <2> SUFFICES ASSUME first # None PROVE first = p /\ Held(p, stack)
      BY <1>8, NoneIsNoHandler
    <2> QED
      BY <1>9, LockIs, Zenon DEF Sees
  <1> QED
    BY <1>1, <1>4, <1>5, <1>7, <1>10, <1>11

\* Only the thread at the end of its clear can erase a list.
LEMMA ErasesOne ==
  ASSUME NEW t \in Threads, \A u \in Threads : u # t => stack'[u] = stack[u],
         Live(Top(t).list) = {} => procs'[Top(t).key] = None \/ Walking(Top(t).list)
  PROVE  ErasedStep
  BY Zenon DEF ErasedStep

\* Erasing a list takes handlers only if others unlink a block of it.
LEMMA EraseEmptyStep ==
  ASSUME IInv, IInv', NEW t \in Threads, EraseEmpty(t)
  PROVE  StepKept
  <1>1. PICK f : f = Top(t)
    OBVIOUS
  <1>2. PICK p : p = FirstPointer(f.list)
    OBVIOUS
  <1>3. PICK first : first = LockBlock(p, stack)
    OBVIOUS
  <1>4. PICK c \in BOOLEAN : c = (f.cut \/ Live(f.list) # {})
    <2>1. PICK c : c = (f.cut \/ Live(f.list) # {})
      OBVIOUS
    <2>2. f \in FrameTypes
      BY <1>1, TopOK, Zenon DEF EraseEmpty, At
    <2> QED
      BY <2>1, <2>2, Flags, Zenon
  <1>5. PICK h : LeavesTo(f, c, h)
    BY DEF LeavesTo
  <1>6. At(t, "erase") /\ stack[t] # <<>>
    BY DEF EraseEmpty, At
  <1>7. f \in FrameTypes /\ Types /\ Types' /\ Rings
    BY <1>1, <1>6, TopOK, Zenon DEF IInv
  <1>8. Sees(f.list, p, first)
    BY <1>2, <1>3 DEF Sees
  <1>9. /\ f.list \in Handlers /\ f.key \in Keys /\ procs[f.key] = f.list
        /\ first = None /\ Live(f.list) # {} => Unlinking(t)
        /\ first # None => first = p /\ Linked(f.list, first) /\ Held(first, stack)
    BY <1>1, <1>6, <1>8, EraseSees, Zenon
  <1>10. CASE first = None
    <2>1. /\ procs' = [procs EXCEPT ![f.key] = None] /\ DestroyLists(procs', stack')
          /\ \E g \in NextKey([f EXCEPT !.list = None, !.cut = @ \/ (Live(f.list) # {})], f.todo) : SetTop(t, g)
      BY <1>1, <1>2, <1>3, <1>10 DEF EraseEmpty, Emptied
    <2>2. PICK g \in NextKey(h, f.todo) : SetTop(t, g)
      BY <1>4, <1>5, <2>1 DEF LeavesTo
    <2>3. None \in Lists /\ f.todo \in SUBSET Keys
      BY <1>7, Fields DEF Lists
    <2>4. h \in FrameTypes
      BY <1>5, <1>7, <2>3, Zenon DEF FrameTypes, LeavesTo
    <2>5. h.cut = c
      BY <1>5, <1>7, Zenon DEF FrameTypes, LeavesTo
    <2>6. g.cut = h.cut
      BY <1>7, <2>2, <2>3, <2>4, NextKeyIs
    <2>7. g.cut => Top(t).cut \/ Unlinking(t)
      BY <1>1, <1>4, <1>9, <1>10, <2>5, <2>6
    <2>8. CutStep /\ (Depth => Depth') /\ \A u \in Threads : u # t => stack'[u] = stack[u]
      BY <1>6, <1>7, <2>2, <2>7, TopStep, Zenon
    <2>9. procs'[f.key] = None /\ \A k \in Keys : k # f.key => procs'[k] = procs[k]
      BY <1>7, <1>9, <2>1 DEF Types
    <2>10. ErasedStep
      BY <1>1, <2>8, <2>9, ErasesOne, Zenon
    <2>11. ASSUME NEW k \in Keys, NEW b \in element, procs[k] # None, b \in Range(ring[procs[k]])
           PROVE  (procs'[k] # None /\ b \in element' /\ b \in Range(ring'[procs'[k]])) \/ Taken(b)
      <3>1. CASE k = f.key
        <4>1. b \in Range(ring[f.list])
          BY <1>9, <2>11, <3>1
        <4>2. b \in Live(f.list) /\ Linked(f.list, b)
          BY <2>11, <4>1, Zenon DEF Live, Linked
        <4>3. Unlinking(t)
          BY <1>9, <1>10, <4>2
        <4> QED
          BY <1>1, <1>6, <4>2, <4>3, Zenon DEF Taken
      <3>2. CASE k # f.key
        <4>1. PICK s : s = stack'
          OBVIOUS
        <4>2. DestroyLists(procs', s)
          BY <2>1, <4>1, Zenon
        <4>3. procs'[k] = procs[k]
          BY <2>9, <3>2
        <4> QED
          BY <1>7, <2>11, <4>2, <4>3, KeptLists
      <3> QED
        BY <3>1, <3>2
    <2>12. StaysStep
      BY <2>11, StaysIf, Zenon
    <2> QED
      BY <2>8, <2>10, <2>12 DEF StepKept
  <1>11. CASE first # None
    <2>1. UNCHANGED table /\ SetTop(t, [f EXCEPT !.el = first, !.pc = "keep"])
      BY <1>1, <1>2, <1>3, <1>11 DEF EraseEmpty, Emptied
    <2>2. PICK g : KeepsList(f, first, g) /\ SetTop(t, g)
      BY <2>1 DEF KeepsList
    <2>3. g.cut = f.cut
      BY <1>7, <2>2, Zenon DEF FrameTypes, KeepsList
    <2>4. g.cut => Top(t).cut
      BY <1>1, <2>3
    <2>5. CutStep /\ (Depth => Depth') /\ \A u \in Threads : u # t => stack'[u] = stack[u]
      BY <1>6, <1>7, <2>2, <2>4, TopStep, Zenon
    <2>6. Live(f.list) = {} => Walking(f.list)
      <3> SUFFICES ASSUME Live(f.list) = {} PROVE Walking(f.list)
        OBVIOUS
      <3>1. Linked(f.list, first) /\ Held(first, stack)
        BY <1>9, <1>11
      <3>2. first \notin element
        BY <3>1 DEF Live, Linked
      <3>3. PICK u \in Frames(stack) : u.el = first
        BY <3>1, <3>2, Zenon DEF Held
      <3> QED
        BY <3>1, <3>3, Zenon DEF Walking
    <2>7. ErasedStep
      BY <1>1, <2>5, <2>6, ErasesOne, Zenon
    <2> QED
      BY <2>1, <2>5, <2>7, TableStays, Zenon DEF StepKept
  <1> QED
    BY <1>10, <1>11

\* Nothing is taken when nothing happens.
LEMMA StutterStep ==
  ASSUME UNCHANGED vars
  PROVE  StepKept
  <1>1. stack' = stack /\ procs' = procs /\ UNCHANGED table
    BY DEF vars, table
  <1>2. CutStep /\ ErasedStep /\ (Depth => Depth')
    BY <1>1, Zenon DEF CutStep, ErasedStep, Depth
  <1> QED
    BY <1>1, <1>2, TableStays DEF StepKept

\* Beginning to add a handler keeps the lists.
LEMMA BeginAddStep ==
  ASSUME IInv, IInv', NEW t \in Threads, NEW k, NEW tg, NEW s, BeginAdd(t, k, tg, s)
  PROVE  StepKept
  <1>1. PICK g : g = [Frame("add", k, tg) EXCEPT !.skip = s]
    OBVIOUS
  <1>2. Begin(t, g) /\ UNCHANGED table
    BY <1>1 DEF BeginAdd
  <1> QED
    BY <1>2, BeginStep, Zenon

\* Beginning to clear or to call keeps the lists.
LEMMA BeginOtherStep ==
  ASSUME IInv, IInv', NEW t \in Threads, NEW k, BeginClear(t, k) \/ BeginCall(t, k)
  PROVE  StepKept
  <1>1. PICK g : Begin(t, g) /\ UNCHANGED table
    BY DEF BeginClear, BeginCall
  <1> QED
    BY <1>1, BeginStep, Zenon

\* Every step leaves the lists as the action properties say.
LEMMA NextStepKept == IInv /\ IInv' /\ [Next]_vars => StepKept
  <1> SUFFICES ASSUME IInv, IInv', [Next]_vars PROVE StepKept
    OBVIOUS
  <1>1. ASSUME NEW t \in Threads,
               \/ AddHandlerProc(t) \/ ClearHandlersWithTag(t) \/ CallName(t) \/ WalkFront(t)
               \/ WalkElement(t) \/ HandlerReturns(t) \/ WalkNext(t) \/ Unlink(t) \/ EraseEmpty(t)
               \/ KeepList(t) \/ Return(t)
        PROVE  StepKept
    BY <1>1, AddHandlerProcStep, ClearHandlersWithTagStep, CallNameStep, WalkFrontStep, WalkElementStep,
       HandlerReturnsStep, WalkNextStep, UnlinkStep, EraseEmptyStep, KeepListStep, ReturnStep, Zenon
  <1>2. ASSUME NEW t \in Threads, NEW k \in Keys, NEW g \in Tags, NEW s \in Skips, BeginAdd(t, k, g, s) PROVE StepKept
    BY <1>2, BeginAddStep, Zenon
  <1>3. ASSUME NEW t \in Threads, NEW k \in Keys, ClearHandlerName(t, k) PROVE StepKept
    BY <1>3, ClearHandlerNameStep, Zenon
  <1>4. ASSUME NEW t \in Threads, NEW k, BeginClear(t, k) \/ BeginCall(t, k) PROVE StepKept
    BY <1>4, BeginOtherStep, Zenon
  <1>5. ASSUME DropMap \/ UNCHANGED vars PROVE StepKept
    BY <1>5, DropMapStep, StutterStep, Zenon
  <1> QED
    BY <1>1, <1>2, <1>3, <1>4, <1>5, NextCases, Zenon

-----------------------------------------------------------------------------
(* The theorems                                                            *)

\* At the start no operation is under way.
LEMMA InitDepth == Init => Depth
  BY EventHandlerMapConstants DEF Init, Depth

\* The invariant and the bound on the depth are the types.
LEMMA TypesOK ==
  ASSUME IInv, Depth
  PROVE  TypeOK
  <1>1. Types
    BY Zenon DEF IInv
  <1>2. m_lock \subseteq Threads /\ Cardinality(m_lock) < 2
    <2>1. CASE m_lock = {}
      BY <2>1, FS_EmptySet
    <2>2. CASE \E t \in Threads : m_lock = {t}
      BY <2>2, FS_Singleton
    <2> QED
      BY <1>1, <2>1, <2>2 DEF Types
  <1> QED
    BY <1>1, <1>2, Zenon DEF TypeOK, Types, Depth, Lists

\* A call that is not cut short runs every handler it has to, once and in the
\* order they were added, along blocks that are linked, whatever handlers and
\* other threads add, clear and call meanwhile.
THEOREM WalksAlwaysComplete == Spec => []WalksComplete
  <1>1. IInv /\ Depth => WalksComplete
    BY TypesOK, BlocksLinked, CallsComplete, TypesWanted, Zenon DEF WalksComplete
  <1>2. IInv /\ IInv' /\ [Next]_vars => (Depth => Depth')
    BY NextStepKept, Zenon DEF StepKept
  <1> QED
    BY <1>1, <1>2, Inductive, InitDepth, PTL DEF Spec

\* A thread never cuts its own walks short, a handler is dropped only by a clear,
\* with its map, or in the window in which another thread unlinks a block, and a
\* list that a clear has emptied goes unless a thread is walking along it.
THEOREM ListsAlwaysKept == Spec => ListsKept
  <1>1. IInv /\ IInv' /\ [Next]_vars => CutStep /\ StaysStep /\ ErasedStep
    BY NextStepKept, Zenon DEF StepKept
  <1>2. Spec => [][CutStep]_vars
    BY <1>1, Inductive, PTL DEF Spec
  <1>3. Spec => [][StaysStep]_vars
    BY <1>1, Inductive, PTL DEF Spec
  <1>4. Spec => [][ErasedStep]_vars
    BY <1>1, Inductive, PTL DEF Spec
  <1>5. CutOnlyByOthers <=> [][CutStep]_vars
    BY DEF CutOnlyByOthers, CutStep
  <1>6. StaysRegistered <=> [][StaysStep]_vars
    BY DEF StaysRegistered, StaysStep
  <1>7. ErasedWhenEmpty <=> [][ErasedStep]_vars
    BY DEF ErasedWhenEmpty, ErasedStep
  <1> QED
    BY <1>2, <1>3, <1>4, <1>5, <1>6, <1>7, Zenon DEF ListsKept

-----------------------------------------------------------------------------
(* SutClient: the application's connection to the autotest server          *)

Count(x) == IF x THEN 1 ELSE 0

\* Types without the bounds.
ClientTypes ==
    /\ socket \in {"none", "connecting", "connected"} /\ timers \in Nat /\ restarts \in Nat
    /\ m_is_connected \in BOOLEAN /\ m_application \in BOOLEAN
    /\ m_sut_ready \in BOOLEAN /\ m_server_ready_request_pending \in BOOLEAN
    /\ posted \in Nat /\ sending \in Nat /\ to_app \in Nat /\ to_server \in Nat /\ waiting \in BOOLEAN
    /\ asked \in Nat /\ answered \in Nat /\ inherited \in Nat

\* A restart that is queued will need a timer.
TimersBounded == timers + restarts =< MaxTimers

\* Nothing is under way without a connection.
NothingWithout ==
    socket # "connected" => to_app = 0 /\ to_server = 0 /\ asked = 0 /\ answered = 0 /\ inherited = 0

\* A request is on its way, queued, pending, being answered or answered.
RequestsAccounted ==
    /\ asked =< MaxAsked /\ to_app =< asked /\ to_server =< answered
    /\ posted =< MaxAsked /\ inherited =< MaxAsked + 1
    /\ posted + sending + Count(m_server_ready_request_pending) =< MaxAsked + 1
    /\ socket = "connected" =>
          answered + sending + to_app + posted + Count(m_server_ready_request_pending) =< asked + inherited

\* The inductive invariant.
ClientIInv ==
    ClientTypes /\ OneAttempt /\ FlagIsTrue /\ TimersBounded /\ NothingWithout /\ RequestsAccounted

\* A Boolean counts for nothing or for one.
LEMMA CountValue == Count(TRUE) = 1 /\ Count(FALSE) = 0
  BY DEF Count

\* The initial state satisfies the invariant.
LEMMA ClientStarts == ClientInit => ClientIInv
  <1> SUFFICES ASSUME ClientInit PROVE ClientIInv
    OBVIOUS
  <1>1. /\ m_is_connected \in BOOLEAN /\ m_application \in BOOLEAN
        /\ m_sut_ready \in BOOLEAN /\ m_server_ready_request_pending \in BOOLEAN
        /\ waiting \in BOOLEAN
    BY Zenon DEF ClientInit
  <1>2. inherited = 0 /\ ~m_is_connected /\ m_server_ready_request_pending = FALSE
    BY Zenon DEF ClientInit
  <1>3. /\ socket = "connecting" /\ timers = 1 /\ restarts = 0
        /\ posted = 0 /\ sending = 0 /\ to_app = 0 /\ to_server = 0 /\ asked = 0 /\ answered = 0
    BY Zenon DEF ClientInit
  <1>4. ClientTypes
    BY <1>1, <1>2, <1>3 DEF ClientTypes
  <1>5. OneAttempt /\ FlagIsTrue /\ TimersBounded
    BY <1>2, <1>3, SutClientConstants DEF OneAttempt, FlagIsTrue, TimersBounded
  <1>6. NothingWithout
    BY <1>2, <1>3, Zenon DEF NothingWithout
  <1>7. RequestsAccounted
    <2>1. Count(m_server_ready_request_pending) = 0
      BY <1>2, CountValue
    <2> QED
      BY <1>2, <1>3, <2>1, SutClientConstants DEF RequestsAccounted
  <1> QED
    BY <1>4, <1>5, <1>6, <1>7 DEF ClientIInv

\* A connection that is lost, by whichever of its signals, leaves one restart.
LEMMA LoseKeeps ==
    ASSUME ClientIInv, socket # "none",
           timers' \in Nat, timers' + 1 =< MaxTimers, UNCHANGED app,
           \/ Lose(OnDisconnected(Transport))
           \/ Lose(OnDisconnected(OnDisconnected(Transport)))
    PROVE  ClientIInv'
  <1>1. OnDisconnected(Transport) = [socket |-> "none", restarts |-> restarts + 1, connected |-> FALSE]
    BY DEF OnDisconnected, Transport, ClientIInv, ClientTypes
  <1>2. OnDisconnected(OnDisconnected(Transport)) =
            [socket |-> "none", restarts |-> restarts + 1, connected |-> FALSE]
    BY <1>1 DEF OnDisconnected
  <1> DEFINE t == [socket |-> "none", restarts |-> restarts + 1, connected |-> FALSE]
  <1>3. t.socket = "none" /\ t.restarts = restarts + 1 /\ t.connected = FALSE
    OBVIOUS
  <1>5. Lose(t)
    BY <1>1, <1>2, Zenon
  <1>6. /\ socket' = "none" /\ restarts' = restarts + 1 /\ m_is_connected' = FALSE
        /\ to_app' = 0 /\ to_server' = 0 /\ waiting' = FALSE /\ asked' = 0 /\ answered' = 0 /\ inherited' = 0
    <2> HIDE DEF t
    <2> QED
      BY <1>3, <1>5, Zenon DEF Lose
  <1>7. /\ m_is_connected' \in BOOLEAN /\ ~m_is_connected'
        /\ waiting' \in BOOLEAN
    BY <1>6, Zenon
  <1>8. /\ UNCHANGED m_application /\ UNCHANGED m_sut_ready /\ UNCHANGED m_server_ready_request_pending
        /\ UNCHANGED posted /\ UNCHANGED sending
    BY Zenon DEF app
  <1>4. restarts = 0
    BY DEF ClientIInv, OneAttempt
  <1>9. ClientTypes'
    BY <1>6, <1>7, <1>8 DEF ClientIInv, ClientTypes
  <1>10. OneAttempt' /\ FlagIsTrue' /\ TimersBounded'
    <2>1. FlagIsTrue'
      BY <1>6, Zenon DEF FlagIsTrue
    <2>2. restarts' = 1
      BY <1>4, <1>6
    <2> QED
      BY <1>6, <2>1, <2>2 DEF OneAttempt, TimersBounded
  <1>11. NothingWithout'
    BY <1>6, Zenon DEF NothingWithout
  <1>12. RequestsAccounted'
    <2>1. Count(m_server_ready_request_pending)' = Count(m_server_ready_request_pending)
      BY <1>8, Zenon DEF Count
    <2> QED
      BY <1>6, <1>8, <2>1, SutClientConstants DEF ClientIInv, RequestsAccounted
  <1> QED
    BY <1>9, <1>10, <1>11, <1>12 DEF ClientIInv

\* What AutotestServerReady does to the requests: a pending one stays pending or
\* its SutReady waits to be written.
LEMMA ReadyKeeps ==
    ASSUME NEW ready \in BOOLEAN, NEW pending \in BOOLEAN, ClientIInv, UNCHANGED link,
           AutotestServerReady(ready, pending), m_application' \in BOOLEAN,
           UNCHANGED session, posted' \in Nat, posted' =< posted,
           \/ posted' + Count(pending) = posted + Count(m_server_ready_request_pending)
           \/ posted' + Count(pending) =< posted
    PROVE  ClientIInv'
  <1> DEFINE n == IF Answers(ready, pending) THEN 1 ELSE 0
  <1>1. n \in {0, 1} /\ (n = 1 => pending)
    BY DEF Answers
  <1>2. /\ m_sut_ready' = ready /\ m_server_ready_request_pending' = (pending /\ n = 0)
        /\ sending' = sending + n
    BY DEF AutotestServerReady
  <1>3. m_server_ready_request_pending' \in BOOLEAN /\ n + Count(m_server_ready_request_pending)' = Count(pending)
    <2> DEFINE p == pending /\ n = 0
    <2>1. p \in BOOLEAN /\ n + Count(p) = Count(pending)
      BY <1>1 DEF Count
    <2>2. m_server_ready_request_pending' = p
      BY <1>2, Zenon
    <2>3. Count(m_server_ready_request_pending)' = Count(p)
      BY <2>2, Zenon DEF Count
    <2> QED
      BY <2>1, <2>2, <2>3, Zenon
  <1>4. ClientTypes' /\ OneAttempt' /\ FlagIsTrue' /\ TimersBounded' /\ NothingWithout'
    BY <1>1, <1>2, <1>3
    DEF link, session, ClientIInv, ClientTypes, OneAttempt, FlagIsTrue, TimersBounded, NothingWithout
  <1>5. RequestsAccounted'
    <2>1. /\ Count(m_server_ready_request_pending) \in {0, 1} /\ Count(pending) \in {0, 1}
          /\ Count(m_server_ready_request_pending)' \in {0, 1}
      BY DEF Count
    <2>2. posted' + sending' + Count(m_server_ready_request_pending)' = posted' + sending + Count(pending)
      BY <1>1, <1>2, <1>3, <2>1 DEF ClientIInv, ClientTypes
    <2>3. posted' + Count(pending) =< posted + Count(m_server_ready_request_pending)
      BY <2>1 DEF ClientIInv, ClientTypes
    <2>4. /\ asked' =< MaxAsked /\ to_app' =< asked' /\ to_server' =< answered'
          /\ posted' =< MaxAsked /\ inherited' =< MaxAsked + 1
      BY SutClientConstants DEF session, ClientIInv, ClientTypes, RequestsAccounted
    <2>5. posted' + sending' + Count(m_server_ready_request_pending)' =< MaxAsked + 1
      BY <1>1, <1>2, <2>1, <2>2, <2>3, SutClientConstants DEF ClientIInv, ClientTypes, RequestsAccounted
    <2>6. ASSUME socket' = "connected"
          PROVE  answered' + sending' + to_app' + posted' + Count(m_server_ready_request_pending)' =< asked' + inherited'
      BY <1>1, <1>2, <2>1, <2>2, <2>3, <2>6 DEF link, session, ClientIInv, ClientTypes, RequestsAccounted
    <2> QED
      BY <2>4, <2>5, <2>6 DEF RequestsAccounted
  <1> QED
    BY <1>4, <1>5 DEF ClientIInv

\* Every step keeps the invariant.
LEMMA ClientSteps == ClientIInv /\ [ClientNext]_client_vars => ClientIInv'
  <1> SUFFICES ASSUME ClientIInv, [ClientNext]_client_vars PROVE ClientIInv'
    OBVIOUS
  <1>1. CASE StartConnection
    BY <1>1
    DEF StartConnection, Timer, app, session, ClientIInv, ClientTypes, OneAttempt,
        FlagIsTrue, TimersBounded, NothingWithout, RequestsAccounted, Count
  <1>2. CASE Connected
    BY <1>2, SutClientConstants
    DEF Connected, app, ClientIInv, ClientTypes, OneAttempt, FlagIsTrue, TimersBounded,
        NothingWithout, RequestsAccounted, Count
  <1>3. CASE SocketError
    <2>1. restarts = 0
      BY <1>3 DEF SocketError, ClientIInv, OneAttempt
    <2>2. timers' \in Nat /\ timers' + 1 =< MaxTimers
      BY <1>3, SutClientConstants DEF SocketError, ClientIInv, ClientTypes
    <2> QED
      BY <1>3, <2>2, LoseKeeps DEF SocketError
  <1>4. CASE OnConnectionTimeout
    <2>1. timers' \in Nat /\ timers' = timers - 1
      BY <1>4 DEF OnConnectionTimeout, ClientIInv, ClientTypes
    <2>2. CASE socket = "connecting"
      <3>1. timers' + 1 =< MaxTimers
        BY <2>1, <2>2, SutClientConstants DEF ClientIInv, ClientTypes, TimersBounded, OneAttempt
      <3> QED
        BY <1>4, <2>1, <2>2, <3>1, LoseKeeps DEF OnConnectionTimeout
    <2>3. CASE socket # "connecting"
      BY <1>4, <2>1, <2>3, SutClientConstants
      DEF OnConnectionTimeout, session, app, ClientIInv, ClientTypes, OneAttempt,
          FlagIsTrue, TimersBounded, NothingWithout, RequestsAccounted, Count
    <2> QED
      BY <2>2, <2>3
  <1>5. CASE ServerReadyCalled
    <2>1. posted' \in Nat /\ posted \in Nat /\ posted' = posted - 1 /\ m_sut_ready \in BOOLEAN
      BY <1>5 DEF ServerReadyCalled, ClientIInv, ClientTypes
    <2>2. posted' + Count(TRUE) =< posted /\ posted' =< posted
      <3>1. posted' + 1 =< posted /\ posted' =< posted
        BY <2>1
      <3> QED
        BY <3>1, CountValue, Zenon
    <2>3. m_application' \in BOOLEAN
      BY <1>5 DEF ServerReadyCalled, ClientIInv, ClientTypes
    <2> QED
      BY <1>5, <2>1, <2>2, <2>3, ReadyKeeps DEF ServerReadyCalled
  <1>6. CASE Register
    <2>1. posted' = posted /\ m_application' \in BOOLEAN
      BY <1>6, Zenon DEF Register
    <2>2. posted \in Nat /\ posted' =< posted /\ m_server_ready_request_pending \in BOOLEAN
      BY <2>1 DEF ClientIInv, ClientTypes
    <2>3. /\ AutotestServerReady(TRUE, m_server_ready_request_pending)
          /\ UNCHANGED link /\ UNCHANGED session
      BY <1>6 DEF Register, SetApplicationReady
    <2> QED
      BY <2>1, <2>2, <2>3, ReadyKeeps
  <1>7. CASE Unregister
    <2>1. posted' = posted /\ m_application' \in BOOLEAN
      BY <1>7, Zenon DEF Unregister
    <2>2. posted \in Nat /\ posted' =< posted /\ m_server_ready_request_pending \in BOOLEAN
      BY <2>1 DEF ClientIInv, ClientTypes
    <2>3. /\ AutotestServerReady(FALSE, m_server_ready_request_pending)
          /\ UNCHANGED link /\ UNCHANGED session
      BY <1>7 DEF Unregister, SetApplicationReady
    <2> QED
      BY <2>1, <2>2, <2>3, ReadyKeeps
  <1>8. CASE WaitProcessingSutReady
    BY <1>8, SutClientConstants
    DEF WaitProcessingSutReady, link, app, ClientIInv, ClientTypes, OneAttempt,
        FlagIsTrue, TimersBounded, NothingWithout, RequestsAccounted, Count
  <1>9. CASE SutReadyCalled
    <2>1. to_server > 0 /\ to_server' = to_server - 1
      BY <1>9 DEF SutReadyCalled
    <2>2. waiting' \in BOOLEAN
      BY <1>9, Zenon DEF SutReadyCalled
    <2>3. UNCHANGED <<link, app, to_app, asked, answered, inherited>>
      BY <1>9 DEF SutReadyCalled
    <2> QED
      BY <2>1, <2>2, <2>3
      DEF link, app, ClientIInv, ClientTypes, OneAttempt, FlagIsTrue, TimersBounded,
          NothingWithout, RequestsAccounted, Count
  <1>11. CASE ServerReadyReceived
    <2>1. /\ to_app > 0 /\ to_app' = to_app - 1 /\ posted + sending < MaxAsked /\ posted' = posted + 1
          /\ UNCHANGED <<link, m_application, m_sut_ready, m_server_ready_request_pending, sending,
                         to_server, waiting, asked, answered, inherited>>
      BY <1>11 DEF ServerReadyReceived
    <2>2. ClientTypes' /\ OneAttempt' /\ FlagIsTrue' /\ TimersBounded' /\ NothingWithout'
      BY <2>1
      DEF link, ClientIInv, ClientTypes, OneAttempt, FlagIsTrue, TimersBounded, NothingWithout
    <2>3. RequestsAccounted'
      BY <2>1, SutClientConstants DEF link, ClientIInv, ClientTypes, RequestsAccounted, Count
    <2> QED
      BY <2>2, <2>3 DEF ClientIInv
  <1>12. CASE Write
    <2>1. /\ sending > 0 /\ sending' = sending - 1
          /\ UNCHANGED <<link, m_application, m_sut_ready, m_server_ready_request_pending, posted,
                         to_app, waiting, asked, inherited>>
      BY <1>12 DEF Write
    <2>2. CASE socket = "connected"
      <3>1. to_server' = to_server + 1 /\ answered' = answered + 1
        BY <1>12, <2>2 DEF Write
      <3> QED
        BY <2>1, <2>2, <3>1, SutClientConstants
        DEF link, ClientIInv, ClientTypes, OneAttempt, FlagIsTrue, TimersBounded, NothingWithout,
            RequestsAccounted, Count
    <2>3. CASE socket # "connected"
      <3>1. UNCHANGED <<to_server, answered>>
        BY <1>12, <2>3 DEF Write
      <3> QED
        BY <2>1, <2>3, <3>1, SutClientConstants
        DEF link, ClientIInv, ClientTypes, OneAttempt, FlagIsTrue, TimersBounded, NothingWithout,
            RequestsAccounted, Count
    <2> QED
      BY <2>2, <2>3
  <1>10. CASE UNCHANGED client_vars
    BY <1>10
    DEF client_vars, link, app, session, ClientIInv, ClientTypes, OneAttempt,
        FlagIsTrue, TimersBounded, NothingWithout, RequestsAccounted, Count
  <1> QED
    BY <1>1, <1>2, <1>3, <1>4, <1>5, <1>6, <1>7, <1>8, <1>9, <1>10, <1>11, <1>12 DEF ClientNext

\* The invariant holds in every reachable state.
LEMMA ClientAlways == ClientSpec => []ClientIInv
  BY ClientStarts, ClientSteps, PTL DEF ClientSpec

\* The bounds of the type invariant follow from the accounts of timers and
\* requests.
THEOREM ClientTypeCorrect == ClientSpec => []ClientTypeOK
  <1>1. ClientIInv => ClientTypeOK
    <2> SUFFICES ASSUME ClientIInv PROVE ClientTypeOK
      OBVIOUS
    <2>1. timers \in 0 .. MaxTimers
      BY SutClientConstants DEF ClientIInv, ClientTypes, TimersBounded
    <2>2. /\ posted \in 0 .. MaxAsked /\ sending \in 0 .. MaxAsked + 1 /\ to_app \in 0 .. MaxAsked /\ asked \in 0 .. MaxAsked
          /\ inherited \in 0 .. MaxAsked + 1 /\ answered \in Nat /\ to_server \in 0 .. answered
      BY SutClientConstants DEF ClientIInv, ClientTypes, NothingWithout, RequestsAccounted, Count
    <2> QED
      BY <2>1, <2>2 DEF ClientIInv, ClientTypes, ClientTypeOK
  <1> QED
    BY <1>1, ClientAlways, PTL

\* However many attempts, errors and late timers there are, a socket is never
\* replaced while it is in use and a lost one is always restarted once.
THEOREM OneAttemptAlways == ClientSpec => []OneAttempt
  <1>1. ClientIInv => OneAttempt
    BY DEF ClientIInv
  <1> QED
    BY <1>1, ClientAlways, PTL

\* IsConnected says what the socket is.
THEOREM FlagAlwaysTrue == ClientSpec => []FlagIsTrue
  <1>1. ClientIInv => FlagIsTrue
    BY DEF ClientIInv
  <1> QED
    BY <1>1, ClientAlways, PTL

\* One attempt or connection at a time, and the truth about it, through any
\* number of losses.
THEOREM ConnectionAlwaysKept == ClientSpec => []ConnectionKept
  BY ClientTypeCorrect, OneAttemptAlways, FlagAlwaysTrue, PTL DEF ConnectionKept

\* No request is answered twice, for any number of autotests, of applications
\* that come and go, and of connections lost while a SutReady waits to be written.
THEOREM AlwaysAnsweredOnce == ClientSpec => []AnsweredOnce
  <1>1. ClientIInv => AnsweredOnce
    BY DEF ClientIInv, ClientTypes, NothingWithout, RequestsAccounted, AnsweredOnce, Count
  <1> QED
    BY <1>1, ClientAlways, PTL
=============================================================================
