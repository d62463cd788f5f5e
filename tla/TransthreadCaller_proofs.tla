---------------------- MODULE TransthreadCaller_proofs ----------------------
(***************************************************************************)
(* PostedCallsSeen, ResultIsTrue and BufferInUse of TransthreadCaller, for   *)
(* any number of threads, receivers and calls.                               *)
(***************************************************************************)
EXTENDS TransthreadCaller, FiniteSetTheorems, TLAPS

Places == {"running", "notify", "looking", "asleep", "woken", "processing"}
ReceiverType == [thread : Threads, sender_set : BOOLEAN, process_incoming_call : BOOLEAN, posted : Seq(Nat)]
CallType ==
    [from : Threads, to : Threads \cup {DirectCallPseudoId}, kind : Kinds, recv : Nat, sync : Nat,
     state : CallStates, ran : BOOLEAN, result : CallStates \cup {"none"}, late : BOOLEAN, lost : BOOLEAN]
FrameType == [kind : {"add", "run", "wait"}, call : Nat, at : Threads \cup Places, recv : Nat]

Types ==
    /\ internals \in BOOLEAN /\ finished \subseteq Threads /\ threads \in [Threads -> Nat]
    /\ receivers \in Seq(ReceiverType) /\ calls \in Seq(CallType) /\ stack \in [Threads -> Seq(FrameType)]

\* Receiver r exists and is one of thread x.
OfThread(r, x) == r \in DOMAIN receivers /\ receivers[r].thread = x

ReceiversFound == \A x \in Threads : threads[x] # 0 => OfThread(threads[x], x)

\* A call refers to a receiver of its target and to one of its sender.
CallRefers(k) ==
    IF k.to = DirectCallPseudoId THEN k.recv = 0 /\ k.sync = 0
    ELSE OfThread(k.recv, k.to) /\ OfThread(k.sync, k.from)
CallsRefer == \A c \in DOMAIN calls : CallRefers(calls[c])

\* What a thread is in the middle of: a registration, the run of a call sent to
\* it, or a wait for a call it sent, with a receiver of its own while it
\* processes.  Only the innermost wait is asleep.
AddFrame(f) == f.kind = "add" => f.at \in Threads /\ f.recv = 0
RunFrame(t, f) ==
    f.kind = "run" => /\ f.call \in DOMAIN calls /\ f.at = "running" /\ f.recv = 0
                      /\ calls[f.call].ran /\ (calls[f.call].recv # 0 => calls[f.call].to = t)
WaitFrame(t, f) ==
    f.kind = "wait" => /\ f.call \in DOMAIN calls /\ f.at \in Places
                       /\ calls[f.call].from = t /\ calls[f.call].to # DirectCallPseudoId
                       /\ f.recv # 0 => f.at = "processing" /\ OfThread(f.recv, t)
FrameRight(t, i) ==
    LET f == stack[t][i]
    IN  AddFrame(f) /\ RunFrame(t, f) /\ WaitFrame(t, f) /\ (f.at = "asleep" => i = Len(stack[t]))
FramesRight == \A t \in Threads : \A i \in DOMAIN stack[t] : FrameRight(t, i)

StructInv == Types /\ ReceiversFound /\ CallsRefer /\ FramesRight

-----------------------------------------------------------------------------
\* A call that is posted is posted to its receiver, and has not run.
PostedRight ==
    \A r \in DOMAIN receivers : \A i \in DOMAIN receivers[r].posted :
        LET c == receivers[r].posted[i]
        IN  c \in DOMAIN calls /\ calls[c].recv = r /\ ~calls[c].ran
PostedSorted ==
    \A r \in DOMAIN receivers : \A i, j \in DOMAIN receivers[r].posted :
        i < j => receivers[r].posted[i] < receivers[r].posted[j]

\* A call runs once.
RunsOnce ==
    \A t, u \in Threads : \A i \in DOMAIN stack[t], j \in DOMAIN stack[u] :
        stack[t][i].kind = "run" /\ stack[u][j].kind = "run" /\ stack[t][i].call = stack[u][j].call => t = u /\ i = j

\* Nothing is posted to receiver r again, and its events are deleted.
Retired(r) == receivers[r].posted = <<>> /\ \A x \in Threads : threads[x] # r

\* A call was run, is posted, or was deleted with its receiver's events.
NoneSkipped ==
    \A c \in DOMAIN calls : calls[c].recv # 0 =>
        calls[c].ran \/ PostedTo(c, calls[c].recv) \/ Retired(calls[c].recv)

OrderInv == PostedRight /\ PostedSorted /\ RunsOnce /\ NoneSkipped /\ RunInOrder

-----------------------------------------------------------------------------
\* Call c is posted or runs.
Live(c) == calls[c].recv # 0 /\ (PostedTo(c, calls[c].recv) \/ \E t \in Threads : InFrame(t, "run", c))

\* The state of a call that is live is left alone, but by a cancellation; a
\* sender waits as long as its call is in progress; and a state is true, as is
\* the result that was taken from it.
StateTrue(k, state) ==
    /\ state = "cs_done" => k.ran
    /\ state = "cs_receiver_thread_finished" => k.to \in finished
    /\ state = "cs_canceled" => k.sync \in DOMAIN receivers /\ ~receivers[k.sync].sender_set
StateRight(c) ==
    /\ Live(c) => calls[c].state \in {"cs_inprogress", "cs_canceled"}
    /\ calls[c].state = "cs_inprogress" /\ Waits(calls[c].kind) => Waited(c)
    /\ StateTrue(calls[c], calls[c].state)
    /\ StateTrue(calls[c], calls[c].result) /\ calls[c].result # "cs_inprogress"

StateInv == \A c \in DOMAIN calls : StateRight(c)

-----------------------------------------------------------------------------
\* The thread of receiver r is running the events of r.
Holds(r) == \E i \in DOMAIN stack[receivers[r].thread] : stack[receivers[r].thread][i].recv = r

\* The sender of call c is about to wake the receiver.
Notifying(c) == Top(calls[c].from).call = c /\ Top(calls[c].from).at = "notify"

\* The thread will find what is posted to it.
EventsReached ==
    \A r \in DOMAIN receivers :
        receivers[r].posted # <<>> => threads[receivers[r].thread] = r \/ Holds(r)

\* ... and has been told, or will be, or is at it.
EventsTold ==
    \A r \in DOMAIN receivers : \A i \in DOMAIN receivers[r].posted :
        receivers[r].process_incoming_call \/ Notifying(receivers[r].posted[i]) \/ Holds(r)

\* A thread asleep has not been told of anything yet.
AsleepUntold ==
    \A t \in Threads : Top(t).at = "asleep" =>
        /\ calls[Top(t).call].state = "cs_inprogress"
        /\ ~receivers[calls[Top(t).call].sync].process_incoming_call

WakeInv == EventsReached /\ EventsTold /\ AsleepUntold

TransInv == StructInv /\ OrderInv /\ StateInv /\ WakeInv

-----------------------------------------------------------------------------
(* Stacks                                                                  *)

\* What a stack of frames becomes when one is added.
LEMMA Added ==
  ASSUME NEW s \in Seq(FrameType), NEW f \in FrameType
  PROVE  /\ Append(s, f) \in Seq(FrameType) /\ Len(s) \in Nat
         /\ DOMAIN s = 1 .. Len(s) /\ DOMAIN Append(s, f) = 1 .. Len(s) + 1 /\ Len(Append(s, f)) = Len(s) + 1
         /\ \A i \in DOMAIN s : Append(s, f)[i] = s[i]
         /\ Append(s, f)[Len(s) + 1] = f
OBVIOUS

\* ... when the last one is removed.
LEMMA Removed ==
  ASSUME NEW s \in Seq(FrameType), s # <<>>, NEW u, u = SubSeq(s, 1, Len(s) - 1)
  PROVE  /\ u \in Seq(FrameType) /\ Len(s) \in Nat \ {0}
         /\ DOMAIN s = 1 .. Len(s) /\ DOMAIN u = 1 .. Len(s) - 1 /\ Len(u) = Len(s) - 1
         /\ \A i \in DOMAIN u : u[i] = s[i]
<1>1. Len(s) \in Nat \ {0} /\ DOMAIN s = 1 .. Len(s)
  OBVIOUS
<1>2. u \in Seq(FrameType) /\ DOMAIN u = 1 .. Len(s) - 1 /\ \A i \in DOMAIN u : u[i] = s[i]
  OBVIOUS
<1>3. Len(u) \in Nat /\ DOMAIN u = 1 .. Len(u)
  BY <1>2
<1>4. Len(u) = Len(s) - 1
  BY <1>1, <1>2, <1>3
<1>5. QED
  BY <1>1, <1>2, <1>4

\* ... when the last one is changed.
LEMMA Replaced ==
  ASSUME NEW s \in Seq(FrameType), s # <<>>, NEW f \in FrameType, NEW u, u = [s EXCEPT ![Len(s)] = f]
  PROVE  /\ u \in Seq(FrameType) /\ Len(s) \in Nat \ {0}
         /\ DOMAIN s = 1 .. Len(s) /\ DOMAIN u = DOMAIN s /\ Len(u) = Len(s)
         /\ \A i \in DOMAIN s : i # Len(s) => u[i] = s[i]
         /\ u[Len(s)] = f
OBVIOUS

Lengths == \A t \in Threads : Len(stack[t]) \in Nat /\ DOMAIN stack[t] = 1 .. Len(stack[t])

\* Stacks s are those of now with frame f pushed by t...
PushedOn(s, t, f) ==
    /\ s \in [Threads -> Seq(FrameType)] /\ \A u \in Threads : u # t => s[u] = stack[u]
    /\ Len(s[t]) = Len(stack[t]) + 1 /\ DOMAIN s[t] = 1 .. Len(stack[t]) + 1
    /\ \A i \in DOMAIN stack[t] : s[t][i] = stack[t][i]
    /\ s[t][Len(stack[t]) + 1] = f

\* ... or its innermost frame popped...
PoppedFrom(s, t) ==
    /\ s \in [Threads -> Seq(FrameType)] /\ \A u \in Threads : u # t => s[u] = stack[u]
    /\ Len(stack[t]) > 0 /\ Len(s[t]) = Len(stack[t]) - 1 /\ DOMAIN s[t] = 1 .. Len(stack[t]) - 1
    /\ \A i \in DOMAIN s[t] : s[t][i] = stack[t][i]

\* ... or changed to f.
TopSet(s, t, f) ==
    /\ s \in [Threads -> Seq(FrameType)] /\ \A u \in Threads : u # t => s[u] = stack[u]
    /\ Len(stack[t]) > 0 /\ Len(s[t]) = Len(stack[t]) /\ DOMAIN s[t] = DOMAIN stack[t]
    /\ \A i \in DOMAIN stack[t] : i # Len(stack[t]) => s[t][i] = stack[t][i]
    /\ s[t][Len(stack[t])] = f

\* Stacks w are stacks s with some threads woken.
Woken(f) == [f EXCEPT !.at = "woken"]
Wakes(s, w) ==
    /\ w \in [Threads -> Seq(FrameType)]
    /\ \A u \in Threads : Len(w[u]) = Len(s[u]) /\ DOMAIN w[u] = DOMAIN s[u]
    /\ \A u \in Threads : \A i \in DOMAIN s[u] :
           w[u][i] = s[u][i] \/ (i = Len(s[u]) /\ s[u][i].at = "asleep" /\ w[u][i] = Woken(s[u][i]))

\* Stacks have lengths.
LEMMA StackLengths == ASSUME Types PROVE Lengths
BY DEF Types, Lengths

\* Push adds one frame on top of the stack of one thread.
LEMMA Pushes ==
  ASSUME Types, NEW t \in Threads, NEW kind \in {"add", "run", "wait"}, NEW c \in Nat, NEW at \in Threads \cup Places
  PROVE  PushedOn(Push(t, kind, c, at), t, [kind |-> kind, call |-> c, at |-> at, recv |-> 0])
<1> DEFINE f == [kind |-> kind, call |-> c, at |-> at, recv |-> 0]
<1>1. f \in FrameType /\ stack \in [Threads -> Seq(FrameType)] /\ stack[t] \in Seq(FrameType)
  BY DEF FrameType, Types
<1>2. Push(t, kind, c, at) = [stack EXCEPT ![t] = Append(stack[t], f)]
  BY DEF Push
<1> HIDE DEF f
<1>3. Append(stack[t], f) \in Seq(FrameType)
  BY <1>1, Added
<1>4. Push(t, kind, c, at) \in [Threads -> Seq(FrameType)] /\ Push(t, kind, c, at)[t] = Append(stack[t], f)
      /\ \A u \in Threads : u # t => Push(t, kind, c, at)[u] = stack[u]
  BY <1>1, <1>2, <1>3
<1>5. PushedOn(Push(t, kind, c, at), t, f)
  BY <1>1, <1>4, Added DEF PushedOn
<1>6. QED
  BY <1>5 DEF f

\* Pop removes the top frame of one thread.
LEMMA Pops ==
  ASSUME Types, NEW t \in Threads, stack[t] # <<>>
  PROVE  PoppedFrom(Pop(stack, t), t)
<1>1. stack \in [Threads -> Seq(FrameType)] /\ stack[t] \in Seq(FrameType)
  BY DEF Types
<1>2. PICK v : v = SubSeq(stack[t], 1, Len(stack[t]) - 1)
  OBVIOUS
<1>3. Pop(stack, t) = [stack EXCEPT ![t] = v] /\ v \in Seq(FrameType)
  BY <1>1, <1>2, Removed DEF Pop
<1>4. Pop(stack, t) \in [Threads -> Seq(FrameType)] /\ Pop(stack, t)[t] = v
      /\ \A u \in Threads : u # t => Pop(stack, t)[u] = stack[u]
  BY <1>1, <1>3
<1>5. Len(stack[t]) \in Nat \ {0} /\ DOMAIN v = 1 .. Len(stack[t]) - 1 /\ Len(v) = Len(stack[t]) - 1
      /\ \A i \in DOMAIN v : v[i] = stack[t][i]
  BY <1>1, <1>2, Removed
<1>6. QED
  BY <1>4, <1>5 DEF PoppedFrom

\* The innermost frame of t is at another place.
Placed(t, at) == [Top(t) EXCEPT !.at = at, !.recv = IF at = "processing" THEN threads[t] ELSE 0]

\* At moves the top frame of one thread to another place.
LEMMA Sets ==
  ASSUME Types, NEW t \in Threads, stack[t] # <<>>, NEW at \in Places
  PROVE  TopSet(At(stack, t, at), t, Placed(t, at))
<1>1. stack \in [Threads -> Seq(FrameType)] /\ stack[t] \in Seq(FrameType) /\ threads[t] \in Nat
  BY DEF Types
<1>2. Len(stack[t]) \in DOMAIN stack[t] /\ Top(t) = stack[t][Len(stack[t])] /\ Top(t) \in FrameType
  BY <1>1 DEF Top
<1>3. Placed(t, at) \in FrameType
  BY <1>1, <1>2 DEF Placed, FrameType
<1>4. PICK v : v = [stack[t] EXCEPT ![Len(stack[t])] = Placed(t, at)]
  OBVIOUS
<1>5. At(stack, t, at) = [stack EXCEPT ![t] = v] /\ v \in Seq(FrameType)
  BY <1>1, <1>2, <1>3, <1>4, Replaced DEF At, Placed
<1>6. At(stack, t, at) \in [Threads -> Seq(FrameType)] /\ At(stack, t, at)[t] = v
      /\ \A u \in Threads : u # t => At(stack, t, at)[u] = stack[u]
  BY <1>1, <1>5
<1>7. Len(stack[t]) \in Nat \ {0} /\ DOMAIN v = DOMAIN stack[t] /\ Len(v) = Len(stack[t])
      /\ \A i \in DOMAIN stack[t] : i # Len(stack[t]) => v[i] = stack[t][i]
  BY <1>1, <1>3, <1>4, Replaced
<1>8. v[Len(stack[t])] = Placed(t, at)
  BY <1>1, <1>3, <1>4, Replaced
<1>9. QED
  BY <1>6, <1>7, <1>8 DEF TopSet

\* Nobody is woken.
LEMMA WakesNone == ASSUME NEW s \in [Threads -> Seq(FrameType)] PROVE Wakes(s, s)
BY DEF Wakes

\* Every thread asleep at the top of its stack with receiver r is woken.
LEMMA Notifies ==
  ASSUME NEW s \in [Threads -> Seq(FrameType)], NEW r
  PROVE  /\ Wakes(s, Notify(s, r))
         /\ \A u \in Threads : s[u] # <<>> /\ calls[s[u][Len(s[u])].call].sync = r
                => Notify(s, r)[u][Len(s[u])].at # "asleep"
<1>1. \A u \in Threads : /\ s[u] \in Seq(FrameType) /\ Len(s[u]) \in Nat /\ DOMAIN s[u] = 1 .. Len(s[u])
                         /\ s[u] # <<>> => Len(s[u]) \in DOMAIN s[u]
  OBVIOUS
<1>2. ASSUME NEW u \in Threads
      PROVE  /\ Notify(s, r)[u] \in Seq(FrameType)
             /\ Len(Notify(s, r)[u]) = Len(s[u]) /\ DOMAIN Notify(s, r)[u] = DOMAIN s[u]
             /\ \A i \in DOMAIN s[u] : \/ Notify(s, r)[u][i] = s[u][i]
                                       \/ /\ i = Len(s[u]) /\ s[u][i].at = "asleep"
                                          /\ Notify(s, r)[u][i] = Woken(s[u][i])
             /\ s[u] # <<>> /\ calls[s[u][Len(s[u])].call].sync = r => Notify(s, r)[u][Len(s[u])].at # "asleep"
  <2>1. CASE s[u] # <<>> /\ s[u][Len(s[u])].at = "asleep" /\ calls[s[u][Len(s[u])].call].sync = r
    <3>1. PICK f : f = Woken(s[u][Len(s[u])])
      OBVIOUS
    <3>2. f \in FrameType /\ f.at = "woken"
      <4>1. s[u][Len(s[u])] \in FrameType
        BY <1>1, <2>1
      <4>2. QED
        BY <3>1, <4>1 DEF Woken, FrameType, Places
    <3>3. PICK v : v = [s[u] EXCEPT ![Len(s[u])] = f]
      OBVIOUS
    <3>4. Notify(s, r)[u] = v
      BY <2>1, <3>1, <3>3 DEF Notify, Woken
    <3>5. v \in Seq(FrameType) /\ DOMAIN v = DOMAIN s[u] /\ Len(v) = Len(s[u])
          /\ \A i \in DOMAIN s[u] : i # Len(s[u]) => v[i] = s[u][i]
      BY <1>1, <2>1, <3>2, <3>3, Replaced
    <3>6. v[Len(s[u])] = f
      BY <1>1, <2>1, <3>2, <3>3, Replaced
    <3>7. QED
      BY <2>1, <3>1, <3>2, <3>4, <3>5, <3>6
  <2>2. CASE ~(s[u] # <<>> /\ s[u][Len(s[u])].at = "asleep" /\ calls[s[u][Len(s[u])].call].sync = r)
    <3>1. Notify(s, r)[u] = s[u]
      BY <2>2 DEF Notify
    <3>2. QED
      BY <1>1, <2>2, <3>1
  <2>3. QED
    BY <2>1, <2>2
<1>3. Notify(s, r) \in [Threads -> Seq(FrameType)]
  <2>1. Notify(s, r) = [u \in Threads |-> Notify(s, r)[u]]
    BY DEF Notify
  <2>2. QED
    BY <1>2, <2>1
<1>4. QED
  BY <1>2, <1>3 DEF Wakes

\* Every thread that sleeps for one of the calls cs is woken.
LEMMA NotifiesAll ==
  ASSUME NEW s \in [Threads -> Seq(FrameType)], NEW cs
  PROVE  /\ Wakes(s, NotifyAll(s, cs))
         /\ \A u \in Threads : s[u] # <<>> /\ s[u][Len(s[u])].call \in cs
                => NotifyAll(s, cs)[u][Len(s[u])].at # "asleep"
<1>1. \A u \in Threads : /\ s[u] \in Seq(FrameType) /\ Len(s[u]) \in Nat /\ DOMAIN s[u] = 1 .. Len(s[u])
                         /\ s[u] # <<>> => Len(s[u]) \in DOMAIN s[u]
  OBVIOUS
<1>2. ASSUME NEW u \in Threads
      PROVE  /\ NotifyAll(s, cs)[u] \in Seq(FrameType)
             /\ Len(NotifyAll(s, cs)[u]) = Len(s[u]) /\ DOMAIN NotifyAll(s, cs)[u] = DOMAIN s[u]
             /\ \A i \in DOMAIN s[u] : \/ NotifyAll(s, cs)[u][i] = s[u][i]
                                       \/ /\ i = Len(s[u]) /\ s[u][i].at = "asleep"
                                          /\ NotifyAll(s, cs)[u][i] = Woken(s[u][i])
             /\ s[u] # <<>> /\ s[u][Len(s[u])].call \in cs => NotifyAll(s, cs)[u][Len(s[u])].at # "asleep"
  <2>1. CASE \E c \in cs : Notify(s, calls[c].sync)[u] # s[u]
    <3>1. PICK c \in cs : Notify(s, calls[c].sync)[u] # s[u]
      BY <2>1
    <3>2. s[u] # <<>> /\ s[u][Len(s[u])].at = "asleep"
      BY <3>1 DEF Notify
    <3>3. PICK f : f = Woken(s[u][Len(s[u])])
      OBVIOUS
    <3>4. f \in FrameType /\ f.at = "woken"
      <4>1. s[u][Len(s[u])] \in FrameType
        BY <1>1, <3>2
      <4>2. QED
        BY <3>3, <4>1 DEF Woken, FrameType, Places
    <3>5. PICK v : v = [s[u] EXCEPT ![Len(s[u])] = f]
      OBVIOUS
    <3>6. NotifyAll(s, cs)[u] = v
      BY <2>1, <3>3, <3>5 DEF NotifyAll, Woken
    <3>7. v \in Seq(FrameType) /\ DOMAIN v = DOMAIN s[u] /\ Len(v) = Len(s[u])
          /\ \A i \in DOMAIN s[u] : i # Len(s[u]) => v[i] = s[u][i]
      BY <1>1, <3>2, <3>4, <3>5, Replaced
    <3>8. v[Len(s[u])] = f
      BY <1>1, <3>2, <3>4, <3>5, Replaced
    <3>9. QED
      BY <3>2, <3>3, <3>4, <3>6, <3>7, <3>8
  <2>2. CASE ~\E c \in cs : Notify(s, calls[c].sync)[u] # s[u]
    <3>1. NotifyAll(s, cs)[u] = s[u]
      BY <2>2 DEF NotifyAll
    <3>2. ASSUME s[u] # <<>>, s[u][Len(s[u])].call \in cs
          PROVE  s[u][Len(s[u])].at # "asleep"
      <4>1. PICK c : c = s[u][Len(s[u])].call
        OBVIOUS
      <4>2. Notify(s, calls[c].sync)[u] = s[u]
        BY <2>2, <3>2, <4>1
      <4>3. Notify(s, calls[c].sync)[u][Len(s[u])].at # "asleep"
        BY <3>2, <4>1, Notifies
      <4>4. QED
        BY <4>2, <4>3
    <3>3. QED
      BY <1>1, <3>1, <3>2
  <2>3. QED
    BY <2>1, <2>2
<1>3. NotifyAll(s, cs) \in [Threads -> Seq(FrameType)]
  <2>1. NotifyAll(s, cs) = [u \in Threads |-> NotifyAll(s, cs)[u]]
    BY DEF NotifyAll
  <2>2. QED
    BY <1>2, <2>1
<1>4. QED
  BY <1>2, <1>3 DEF Wakes

-----------------------------------------------------------------------------
(* What most steps leave alone                                             *)

\* What is never undone: receivers and calls exist for good, and so does what
\* they are made with; waits stay disabled, threads stay finished.
SameCall(c) ==
    /\ calls'[c].from = calls[c].from /\ calls'[c].to = calls[c].to /\ calls'[c].kind = calls[c].kind
    /\ calls'[c].recv = calls[c].recv /\ calls'[c].sync = calls[c].sync /\ (calls[c].ran => calls'[c].ran)
Grows ==
    /\ DOMAIN receivers \subseteq DOMAIN receivers' /\ DOMAIN calls \subseteq DOMAIN calls'
    /\ \A r \in DOMAIN receivers : /\ receivers'[r].thread = receivers[r].thread
                                   /\ receivers'[r].sender_set => receivers[r].sender_set
    /\ \A c \in DOMAIN calls : SameCall(c)
    /\ finished \subseteq finished'

\* Frames are left alone, or right.
FramesStay ==
    \A u \in Threads : \A i \in DOMAIN stack'[u] :
        \/ /\ i \in DOMAIN stack[u] /\ stack'[u][i] = stack[u][i]
           /\ stack[u][i].at = "asleep" => Len(stack'[u]) = Len(stack[u])
        \/ FrameRight(u, i)'

\* Steps that add and change frames to right ones.
LEMMA StructKeeps ==
  ASSUME StructInv, Types', Grows,
         \A x \in Threads : threads'[x] # 0 => threads'[x] = threads[x] \/ OfThread(threads[x], x)',
         \A c : c \in DOMAIN calls' /\ c \notin DOMAIN calls => CallRefers(calls[c])',
         FramesStay
  PROVE  StructInv'
<1>1. \A r, x : OfThread(r, x) => OfThread(r, x)'
  BY DEF Grows, OfThread
<1>2. ReceiversFound'
  <2>1. ASSUME NEW x \in Threads, threads'[x] # 0 PROVE OfThread(threads[x], x)'
    <3>1. CASE threads'[x] = threads[x]
      <4>1. PICK r : r = threads[x]
        OBVIOUS
      <4>2. OfThread(r, x)
        BY <2>1, <3>1, <4>1 DEF StructInv, ReceiversFound
      <4>3. OfThread(r, x)' /\ r = threads'[x]
        BY <1>1, <3>1, <4>1, <4>2
      <4>4. QED
        BY <4>3
    <3>2. QED
      BY <2>1, <3>1
  <2>2. QED
    BY <2>1 DEF ReceiversFound
<1>3. CallsRefer'
  <2>1. ASSUME NEW c \in DOMAIN calls' PROVE CallRefers(calls[c])'
    <3>1. CASE c \in DOMAIN calls
      <4>1. CallRefers(calls[c]) /\ SameCall(c)
        BY <3>1 DEF StructInv, CallsRefer, Grows
      <4>2. QED
        BY <1>1, <4>1 DEF CallRefers, SameCall, OfThread, Grows
    <3>2. QED
      BY <2>1, <3>1
  <2>2. QED
    BY <2>1 DEF CallsRefer
<1>4. FramesRight'
  <2>1. ASSUME NEW u \in Threads, NEW i \in DOMAIN stack'[u], i \in DOMAIN stack[u], stack'[u][i] = stack[u][i],
               stack[u][i].at = "asleep" => Len(stack'[u]) = Len(stack[u])
        PROVE  FrameRight(u, i)'
    <3>1. FrameRight(u, i)
      BY <2>1 DEF StructInv, FramesRight
    <3>2. PICK f : f = stack[u][i]
      OBVIOUS
    <3>3. AddFrame(f) /\ RunFrame(u, f) /\ WaitFrame(u, f) /\ (f.at = "asleep" => i = Len(stack[u]))
      BY <3>1, <3>2 DEF FrameRight
    <3>4. RunFrame(u, f)'
      <4>1. \A c \in DOMAIN calls : c \in DOMAIN calls' /\ SameCall(c)
        BY DEF Grows
      <4>2. QED
        BY <3>3, <4>1 DEF RunFrame, SameCall
    <3>5. WaitFrame(u, f)'
      <4>1. \A c \in DOMAIN calls : c \in DOMAIN calls' /\ SameCall(c)
        BY DEF Grows
      <4>2. QED
        BY <1>1, <3>3, <4>1 DEF WaitFrame, SameCall
    <3>6. QED
      BY <2>1, <3>2, <3>3, <3>4, <3>5 DEF FrameRight, AddFrame
  <2>2. QED
    BY <2>1 DEF FramesRight, FramesStay
<1>5. QED
  BY <1>2, <1>3, <1>4 DEF StructInv

\* Frame i of thread u was there before, whatever has become of its place.
OldFrame(u, i) ==
    i \in DOMAIN stack[u] /\ stack'[u][i].kind = stack[u][i].kind /\ stack'[u][i].call = stack[u][i].call

\* Steps that run and post nothing.
LEMMA OrderKeeps ==
  ASSUME StructInv, OrderInv, Grows,
         DOMAIN calls' = DOMAIN calls, \A c \in DOMAIN calls : calls'[c].ran = calls[c].ran,
         \A r \in DOMAIN receivers : receivers'[r].posted = receivers[r].posted \/ Retired(r)',
         \A r \in DOMAIN receivers : Retired(r) => Retired(r)',
         \A r \in DOMAIN receivers' : r \notin DOMAIN receivers => receivers'[r].posted = <<>>,
         \A u \in Threads : \A i \in DOMAIN stack'[u] : stack'[u][i].kind = "run" => OldFrame(u, i)
  PROVE  OrderInv'
<1>1. \A c \in DOMAIN calls : SameCall(c)
  BY DEF Grows
<1>2. ASSUME NEW r \in DOMAIN receivers', NEW i \in DOMAIN receivers'[r].posted
      PROVE  r \in DOMAIN receivers /\ receivers'[r].posted = receivers[r].posted
  <2>1. receivers'[r].posted # <<>>
    BY <1>2
  <2>2. QED
    BY <2>1 DEF Retired
<1>3. PostedRight'
  BY <1>1, <1>2 DEF OrderInv, PostedRight, SameCall
<1>4. PostedSorted'
  BY <1>2 DEF OrderInv, PostedSorted
<1>5. RunsOnce'
  BY DEF OrderInv, RunsOnce, OldFrame
<1>6. NoneSkipped'
  <2>1. ASSUME NEW c \in DOMAIN calls, NEW r, r = calls[c].recv, r # 0, ~calls[c].ran
        PROVE  PostedTo(c, r)' \/ Retired(r)'
    <3>1. r \in DOMAIN receivers
      BY <2>1 DEF StructInv, CallsRefer, CallRefers, OfThread
    <3>2. PostedTo(c, r) \/ Retired(r)
      BY <2>1 DEF OrderInv, NoneSkipped
    <3>3. QED
      BY <3>1, <3>2 DEF PostedTo
  <2>2. QED
    BY <1>1, <2>1 DEF NoneSkipped, SameCall
<1>7. RunInOrder'
  BY <1>1 DEF OrderInv, RunInOrder, SameCall
<1>8. QED
  BY <1>3, <1>4, <1>5, <1>6, <1>7 DEF OrderInv

\* Steps that post no call of before, and tell the truth of those they end.
LEMMA StateKeeps ==
  ASSUME StructInv, StateInv, Grows,
         \A c \in DOMAIN calls : Live(c)' => Live(c),
         \A c \in DOMAIN calls :
             \/ calls'[c].state = calls[c].state
             \/ calls'[c].state = "cs_done" /\ calls'[c].ran /\ ~Live(c)'
             \/ calls'[c].state = "cs_receiver_thread_finished" /\ calls[c].to \in finished' /\ ~Live(c)'
             \/ /\ calls'[c].state = "cs_canceled" /\ calls[c].sync \in DOMAIN receivers
                /\ ~receivers'[calls[c].sync].sender_set,
         \A c \in DOMAIN calls :
             calls'[c].result = calls[c].result \/ (calls'[c].result = calls[c].state /\ Ended(c)),
         \A c \in DOMAIN calls : Waits(calls[c].kind) /\ ~Ended(c) /\ Waited(c) => Waited(c)',
         \A c : c \in DOMAIN calls' /\ c \notin DOMAIN calls => StateRight(c)'
  PROVE  StateInv'
<1>1. ASSUME NEW c \in DOMAIN calls PROVE StateRight(c)'
  <2>1. StateRight(c) /\ SameCall(c)
    BY DEF StateInv, Grows
  <2>2. \A state : StateTrue(calls[c], state) => StateTrue(calls[c], state)'
    BY <2>1 DEF StateTrue, SameCall, Grows
  <2>3. StateTrue(calls[c], calls[c].state)'
    <3>1. CASE calls'[c].state = calls[c].state
      <4>1. PICK q : q = calls[c].state
        OBVIOUS
      <4>2. StateTrue(calls[c], q)'
        BY <2>1, <2>2, <4>1 DEF StateRight
      <4>3. QED
        BY <3>1, <4>1, <4>2
    <3>2. QED
      BY <2>1, <3>1 DEF StateTrue, SameCall, Grows
  <2>4. StateTrue(calls[c], calls[c].result)' /\ calls'[c].result # "cs_inprogress"
    <3>1. PICK q : q = calls'[c].result
      OBVIOUS
    <3>2. StateTrue(calls[c], q) /\ q # "cs_inprogress"
      BY <2>1, <3>1 DEF StateRight, Ended
    <3>3. StateTrue(calls[c], q)'
      BY <2>2, <3>2
    <3>4. QED
      BY <3>1, <3>2, <3>3
  <2>5. Live(c)' => calls'[c].state \in {"cs_inprogress", "cs_canceled"}
    BY <2>1 DEF StateRight
  <2>6. calls'[c].state = "cs_inprogress" /\ Waits(calls'[c].kind) => Waited(c)'
    BY <2>1 DEF StateRight, SameCall, Ended
  <2>7. QED
    BY <2>3, <2>4, <2>5, <2>6 DEF StateRight
<1>2. QED
  BY <1>1 DEF StateInv

\* Steps after which what is posted can still be found.
LEMMA WakeKeeps ==
  ASSUME StructInv, OrderInv, WakeInv, Grows, AsleepUntold',
         \A r \in DOMAIN receivers : receivers'[r].posted \in {receivers[r].posted, <<>>},
         \A r \in DOMAIN receivers' : r \notin DOMAIN receivers => receivers'[r].posted = <<>>,
         \A r \in DOMAIN receivers : receivers'[r].posted # <<>> =>
             /\ threads[receivers[r].thread] = r => threads'[receivers[r].thread] = r \/ Holds(r)'
             /\ receivers[r].process_incoming_call => receivers'[r].process_incoming_call \/ Holds(r)'
             /\ Holds(r) => Holds(r)',
         \A c \in DOMAIN calls :
             Notifying(c) => Notifying(c)' \/ receivers'[calls[c].recv].process_incoming_call
  PROVE  WakeInv'
<1>1. ASSUME NEW r \in DOMAIN receivers', NEW i \in DOMAIN receivers'[r].posted
      PROVE  /\ threads'[receivers'[r].thread] = r \/ Holds(r)'
             /\ receivers'[r].process_incoming_call \/ Notifying(receivers[r].posted[i])' \/ Holds(r)'
  <2>1. receivers'[r].posted # <<>>
    BY <1>1
  <2>2. r \in DOMAIN receivers /\ receivers'[r].posted = receivers[r].posted /\ receivers'[r].thread = receivers[r].thread
    BY <2>1 DEF Grows
  <2>3. PICK c : c = receivers[r].posted[i]
    OBVIOUS
  <2>4. c \in DOMAIN calls /\ calls[c].recv = r
    BY <1>1, <2>2, <2>3 DEF OrderInv, PostedRight
  <2>5. /\ threads[receivers[r].thread] = r \/ Holds(r)
        /\ receivers[r].process_incoming_call \/ Notifying(c) \/ Holds(r)
    BY <1>1, <2>1, <2>2, <2>3 DEF WakeInv, EventsReached, EventsTold
  <2>6. /\ threads'[receivers[r].thread] = r \/ Holds(r)'
        /\ receivers'[r].process_incoming_call \/ Notifying(c)' \/ Holds(r)'
    BY <2>1, <2>2, <2>4, <2>5
  <2>7. c = receivers'[r].posted[i]
    BY <2>2, <2>3
  <2>8. QED
    BY <2>2, <2>6, <2>7
<1>2. EventsReached'
  <2>1. ASSUME NEW r \in DOMAIN receivers', receivers'[r].posted # <<>>
        PROVE  1 \in DOMAIN receivers'[r].posted
    <3>1. CASE r \in DOMAIN receivers
      <4>1. receivers[r].posted \in Seq(Nat) /\ receivers[r].posted # <<>> /\ receivers'[r].posted = receivers[r].posted
        <5>1. receivers[r] \in ReceiverType
          BY <3>1 DEF StructInv, Types
        <5>2. QED
          BY <2>1, <3>1, <5>1 DEF ReceiverType
      <4>2. QED
        BY <4>1
    <3>2. QED
      BY <2>1, <3>1
  <2>2. QED
    BY <1>1, <2>1 DEF EventsReached
<1>3. EventsTold'
  BY <1>1 DEF EventsTold
<1>4. QED
  BY <1>2, <1>3 DEF WakeInv

\* Steps after which nobody sleeps that did not, and nobody asleep is told.
LEMMA AsleepKeeps ==
  ASSUME AsleepUntold,
         \A u \in Threads : Top(u)'.at = "asleep" =>
             LET c == Top(u).call
             IN  /\ Top(u).at = "asleep" /\ Top(u)'.call = c
                 /\ calls'[c].state = calls[c].state /\ calls'[c].sync = calls[c].sync
                 /\ receivers'[calls[c].sync].process_incoming_call
                        => receivers[calls[c].sync].process_incoming_call
  PROVE  AsleepUntold'
BY DEF AsleepUntold

-----------------------------------------------------------------------------
(* Steps of a thread                                                       *)

\* What is in the sequences.
LEMMA Elements ==
  ASSUME Types
  PROVE  /\ \A r \in DOMAIN receivers : /\ receivers[r] \in ReceiverType /\ receivers[r].posted \in Seq(Nat)
                                        /\ r \in Nat \ {0}
         /\ \A c \in DOMAIN calls : calls[c] \in CallType /\ c \in Nat \ {0}
         /\ \A t \in Threads : \A i \in DOMAIN stack[t] : stack[t][i] \in FrameType /\ i \in 1 .. Len(stack[t])
<1>1. \A r \in DOMAIN receivers : receivers[r] \in ReceiverType /\ r \in Nat \ {0}
  BY DEF Types
<1>2. QED
  BY <1>1 DEF Types, ReceiverType

\* The innermost frame of a thread that is in the middle of something.
LEMMA TopFacts ==
  ASSUME Types, NEW t \in Threads, Top(t).kind # "loop"
  PROVE  /\ stack[t] # <<>> /\ Len(stack[t]) \in DOMAIN stack[t] /\ Len(stack[t]) > 0
         /\ Top(t) = stack[t][Len(stack[t])] /\ Top(t) \in FrameType
<1>1. stack[t] # <<>> /\ stack[t] \in Seq(FrameType)
  BY DEF Top, Types
<1>2. Len(stack[t]) \in DOMAIN stack[t] /\ Len(stack[t]) > 0 /\ stack[t][Len(stack[t])] \in FrameType
  BY <1>1
<1>3. QED
  BY <1>1, <1>2 DEF Top

\* What the places of a frame mean.
LEMMA FrameFacts ==
  ASSUME StructInv, NEW t \in Threads, NEW i \in DOMAIN stack[t]
  PROVE  /\ AddFrame(stack[t][i]) /\ RunFrame(t, stack[t][i]) /\ WaitFrame(t, stack[t][i])
         /\ stack[t][i].at = "asleep" => i = Len(stack[t]) /\ stack[t][i].kind = "wait" /\ stack[t][i].recv = 0
         /\ stack[t][i].at = "notify" => stack[t][i].kind = "wait" /\ stack[t][i].recv = 0
         /\ stack[t][i].kind \in {"add", "run", "wait"} /\ stack[t][i].recv \in Nat /\ stack[t][i].call \in Nat
<1>1. FrameRight(t, i) /\ stack[t][i] \in FrameType
  BY Elements DEF StructInv, FramesRight
<1>2. PICK f : f = stack[t][i]
  OBVIOUS
<1>3. /\ AddFrame(f) /\ RunFrame(t, f) /\ WaitFrame(t, f) /\ (f.at = "asleep" => i = Len(stack[t]))
      /\ f.kind \in {"add", "run", "wait"} /\ f.recv \in Nat /\ f.call \in Nat
  BY <1>1, <1>2 DEF FrameRight, FrameType
<1>4. "asleep" \notin Threads /\ "notify" \notin Threads
  BY TransthreadNames
<1>5. QED
  BY <1>2, <1>3, <1>4 DEF AddFrame, RunFrame, WaitFrame

\* A frame that is woken is right.
LEMMA WokenRight ==
  ASSUME StructInv, Grows, NEW u \in Threads, NEW i \in DOMAIN stack[u], stack[u][i].at = "asleep",
         stack'[u][i] = Woken(stack[u][i])
  PROVE  FrameRight(u, i)' /\ OldFrame(u, i) /\ stack'[u][i].recv = stack[u][i].recv
<1>1. PICK f : f = stack[u][i]
  OBVIOUS
<1>2. f \in FrameType /\ WaitFrame(u, f) /\ f.kind = "wait" /\ f.recv = 0
  BY <1>1, FrameFacts, Elements DEF StructInv
<1>3. PICK g : g = Woken(f)
  OBVIOUS
<1>4. g.kind = "wait" /\ g.call = f.call /\ g.recv = 0 /\ g.at = "woken"
  BY <1>2, <1>3 DEF Woken, FrameType
<1>5. \A c \in DOMAIN calls : c \in DOMAIN calls' /\ SameCall(c)
  BY DEF Grows
<1>6. WaitFrame(u, g)'
  BY <1>2, <1>4, <1>5 DEF WaitFrame, SameCall, Places
<1>7. FrameRight(u, i)'
  BY <1>1, <1>3, <1>4, <1>6 DEF FrameRight, AddFrame, RunFrame
<1>8. QED
  BY <1>1, <1>2, <1>3, <1>4, <1>7 DEF OldFrame

\* What a thread sleeps at, and what it is about to do, does not change when
\* others act, but that it is woken.
Undisturbed(u) ==
    /\ Top(u)'.at = "asleep" => Top(u).at = "asleep" /\ Top(u)'.call = Top(u).call
    /\ Top(u).at = "notify" => Top(u)'.at = "notify" /\ Top(u)'.call = Top(u).call

\* Below a frame that is pushed everything stays as it was.
LEMMA PushStep ==
  ASSUME StructInv, NEW t \in Threads, NEW f, PushedOn(stack', t, f), Top(t).at # "asleep"
  PROVE  /\ (\A n : n = Len(stack[t]) + 1 => FrameRight(t, n)') => FramesStay
         /\ \A u \in Threads : \A i \in DOMAIN stack'[u] :
                (OldFrame(u, i) /\ stack'[u][i].recv = stack[u][i].recv) \/ (u = t /\ i = Len(stack[t]) + 1)
         /\ \A u \in Threads : u # t => Undisturbed(u)
         /\ Top(t)' = f
         /\ \A u \in Threads : \A k, c : InFrame(u, k, c) => InFrame(u, k, c)'
         /\ \A r \in DOMAIN receivers : receivers'[r].thread = receivers[r].thread /\ Holds(r) => Holds(r)'
<1>1. /\ Types /\ Lengths
      /\ \A r \in DOMAIN receivers : receivers[r].thread \in Threads
  BY StackLengths, Elements DEF StructInv, ReceiverType
<1>2. \A u \in Threads : \A i \in DOMAIN stack[u] : i \in DOMAIN stack'[u] /\ stack'[u][i] = stack[u][i]
  BY <1>1 DEF PushedOn, Lengths
<1>3. \A u \in Threads : \A i \in DOMAIN stack'[u] :
          (i \in DOMAIN stack[u] /\ stack'[u][i] = stack[u][i]) \/ (u = t /\ i = Len(stack[t]) + 1)
  BY <1>1 DEF PushedOn, Lengths
<1>4. \A u \in Threads : \A i \in DOMAIN stack[u] : stack[u][i].at = "asleep" => u # t
  <2>1. ASSUME NEW i \in DOMAIN stack[t], stack[t][i].at = "asleep" PROVE FALSE
    <3>1. i = Len(stack[t])
      BY <2>1, FrameFacts
    <3>2. stack[t] # <<>>
      BY <1>1, <2>1 DEF Lengths
    <3>3. QED
      BY <2>1, <3>1, <3>2 DEF Top
  <2>2. QED
    BY <2>1
<1>5. (\A n : n = Len(stack[t]) + 1 => FrameRight(t, n)') => FramesStay
  <2>1. ASSUME NEW n, n = Len(stack[t]) + 1, FrameRight(t, n)', NEW u \in Threads, NEW i \in DOMAIN stack'[u]
        PROVE  \/ /\ i \in DOMAIN stack[u] /\ stack'[u][i] = stack[u][i]
                  /\ stack[u][i].at = "asleep" => Len(stack'[u]) = Len(stack[u])
               \/ FrameRight(u, i)'
    <3>1. CASE u = t /\ i = n
      BY <2>1, <3>1
    <3>2. CASE ~(u = t /\ i = n)
      <4>1. i \in DOMAIN stack[u] /\ stack'[u][i] = stack[u][i]
        BY <1>3, <2>1, <3>2
      <4>2. stack[u][i].at = "asleep" => Len(stack'[u]) = Len(stack[u])
        BY <1>4, <4>1 DEF PushedOn
      <4>3. QED
        BY <4>1, <4>2
    <3>3. QED
      BY <3>1, <3>2
  <2>2. QED
    BY <2>1 DEF FramesStay
<1>6. \A u \in Threads : u # t => Undisturbed(u)
  BY DEF PushedOn, Undisturbed, Top
<1>7. Top(t)' = f
  <2>1. stack'[t] # <<>> /\ Len(stack'[t]) = Len(stack[t]) + 1
    BY <1>1 DEF PushedOn, Lengths
  <2>2. QED
    BY <2>1 DEF PushedOn, Top
<1>8. \A u \in Threads : \A k, c : InFrame(u, k, c) => InFrame(u, k, c)'
  BY <1>2 DEF InFrame
<1>9. \A r \in DOMAIN receivers : receivers'[r].thread = receivers[r].thread /\ Holds(r) => Holds(r)'
  BY <1>1, <1>2 DEF Holds
<1>10. \A u \in Threads : \A i \in DOMAIN stack'[u] :
           (OldFrame(u, i) /\ stack'[u][i].recv = stack[u][i].recv) \/ (u = t /\ i = Len(stack[t]) + 1)
  BY <1>3 DEF OldFrame
<1>11. QED
  BY <1>5, <1>6, <1>7, <1>8, <1>9, <1>10

\* Threads are woken, after the frames of stack have become s.
LEMMA WakeFrames ==
  ASSUME StructInv, Grows, NEW s, Wakes(s, stack'),
         NEW u \in Threads, NEW i \in DOMAIN stack[u], i \in DOMAIN s[u], s[u][i] = stack[u][i], Len(s[u]) =< Len(stack[u]),
         Len(s[u]) \in Nat
  PROVE  /\ i \in DOMAIN stack'[u] /\ OldFrame(u, i) /\ stack'[u][i].recv = stack[u][i].recv
         /\ \/ stack'[u][i] = stack[u][i] /\ (stack[u][i].at = "asleep" => Len(stack'[u]) = Len(stack[u]))
            \/ FrameRight(u, i)'
         /\ stack'[u][i].at = "asleep" => stack'[u][i] = stack[u][i]
         /\ stack[u][i].at # "asleep" => stack'[u][i] = stack[u][i]
<1>1. /\ i \in DOMAIN stack'[u] /\ Len(stack'[u]) = Len(s[u])
      /\ \/ stack'[u][i] = stack[u][i]
         \/ stack[u][i].at = "asleep" /\ stack'[u][i] = Woken(stack[u][i])
  BY DEF Wakes
<1>2. CASE stack'[u][i] = stack[u][i]
  <2>1. ASSUME stack[u][i].at = "asleep" PROVE Len(stack'[u]) = Len(stack[u])
    <3>1. i = Len(stack[u])
      BY <2>1, FrameFacts
    <3>2. DOMAIN s[u] = 1 .. Len(s[u])
      <4>1. stack' \in [Threads -> Seq(FrameType)] /\ DOMAIN stack'[u] = DOMAIN s[u]
        BY DEF Wakes
      <4>2. DOMAIN stack'[u] = 1 .. Len(stack'[u])
        BY <4>1
      <4>3. QED
        BY <1>1, <4>1, <4>2
    <3>3. Len(stack[u]) \in Nat
      BY DEF StructInv, Types
    <3>4. QED
      BY <1>1, <3>1, <3>2, <3>3
  <2>2. QED
    BY <1>1, <1>2, <2>1 DEF OldFrame
<1>3. CASE stack[u][i].at = "asleep" /\ stack'[u][i] = Woken(stack[u][i])
  <2>1. FrameRight(u, i)' /\ OldFrame(u, i) /\ stack'[u][i].recv = stack[u][i].recv
    BY <1>3, WokenRight
  <2>2. stack[u][i] \in FrameType
    BY Elements DEF StructInv
  <2>3. stack'[u][i].at = "woken"
    BY <1>3, <2>2 DEF Woken, FrameType
  <2>4. QED
    BY <1>1, <1>3, <2>1, <2>3
<1>4. QED
  BY <1>1, <1>2, <1>3

\* Nothing but waking happens to the top of another thread.
LEMMA WakeTops ==
  ASSUME StructInv, Grows, NEW s, Wakes(s, stack'), NEW u \in Threads, s[u] = stack[u]
  PROVE  Undisturbed(u)
<1>1. stack[u] \in Seq(FrameType) /\ Len(stack[u]) \in Nat /\ stack'[u] \in Seq(FrameType)
      /\ Len(stack'[u]) = Len(stack[u])
  BY DEF StructInv, Types, Wakes
<1>2. CASE stack[u] = <<>>
  <2>1. stack'[u] = <<>>
    BY <1>1, <1>2
  <2>2. QED
    BY <1>2, <2>1 DEF Undisturbed, Top
<1>3. CASE stack[u] # <<>>
  <2>1. Len(stack[u]) \in DOMAIN stack[u] /\ stack'[u] # <<>>
    BY <1>1, <1>3
  <2>2. PICK n : n = Len(stack[u])
    OBVIOUS
  <2>3. OldFrame(u, n) /\ (stack'[u][n].at = "asleep" => stack'[u][n] = stack[u][n])
        /\ (stack[u][n].at # "asleep" => stack'[u][n] = stack[u][n])
    BY <1>1, <2>1, <2>2, WakeFrames
  <2>4. QED
    BY <1>1, <1>3, <2>1, <2>2, <2>3 DEF Undisturbed, Top, OldFrame
<1>4. QED
  BY <1>2, <1>3

\* The innermost frame of t is popped, and threads are woken.
LEMMA PopStep ==
  ASSUME StructInv, Grows, NEW t \in Threads, NEW s, PoppedFrom(s, t), Wakes(s, stack'), Top(t).kind # "loop"
  PROVE  /\ stack' \in [Threads -> Seq(FrameType)]
         /\ FramesStay
         /\ \A u \in Threads : \A i \in DOMAIN stack'[u] : OldFrame(u, i) /\ stack'[u][i].recv = stack[u][i].recv
         /\ \A u \in Threads : u # t => Undisturbed(u)
         /\ Top(t)'.at # "asleep"
         /\ \A u \in Threads : \A k, c :
                InFrame(u, k, c) => InFrame(u, k, c)' \/ (u = t /\ k = Top(t).kind /\ c = Top(t).call)
         /\ \A r \in DOMAIN receivers : Holds(r) => Holds(r)' \/ (receivers[r].thread = t /\ Top(t).recv = r)
<1>1. /\ Types /\ Lengths
      /\ \A r \in DOMAIN receivers : receivers[r].thread \in Threads
  BY StackLengths, Elements DEF StructInv, ReceiverType
<1>2. /\ stack' \in [Threads -> Seq(FrameType)]
      /\ \A u \in Threads : Len(stack'[u]) = Len(s[u]) /\ DOMAIN stack'[u] = DOMAIN s[u] /\ Len(s[u]) =< Len(stack[u])
      /\ \A u \in Threads : Len(s[u]) \in Nat
  <2>1. stack' \in [Threads -> Seq(FrameType)]
        /\ \A u \in Threads : Len(stack'[u]) = Len(s[u]) /\ DOMAIN stack'[u] = DOMAIN s[u]
    BY DEF Wakes
  <2>2. ASSUME NEW u \in Threads, u # t PROVE Len(s[u]) =< Len(stack[u]) /\ Len(s[u]) \in Nat
    <3>1. s[u] = stack[u] /\ Len(stack[u]) \in Nat
      BY <1>1, <2>2 DEF PoppedFrom, Lengths
    <3>2. QED
      BY <3>1
  <2>3. Len(s[t]) =< Len(stack[t]) /\ Len(s[t]) \in Nat
    BY <1>1 DEF PoppedFrom, Lengths
  <2>4. QED
    BY <2>1, <2>2, <2>3
<1>3. \A u \in Threads : \A i \in DOMAIN stack'[u] : i \in DOMAIN stack[u] /\ s[u][i] = stack[u][i]
  <2>1. DOMAIN stack'[t] = 1 .. Len(stack[t]) - 1 /\ \A i \in DOMAIN stack'[t] : s[t][i] = stack[t][i]
    BY <1>2 DEF PoppedFrom
  <2>2. \A i \in DOMAIN stack'[t] : i \in DOMAIN stack[t] /\ s[t][i] = stack[t][i]
    BY <1>1, <2>1 DEF Lengths
  <2>3. \A u \in Threads : u # t => DOMAIN stack'[u] = DOMAIN stack[u] /\ s[u] = stack[u]
    BY <1>2 DEF PoppedFrom
  <2>4. QED
    BY <2>2, <2>3
<1>4. \A u \in Threads : \A i \in DOMAIN stack[u] : i \in DOMAIN stack'[u] \/ (u = t /\ i = Len(stack[t]))
  BY <1>1, <1>2 DEF PoppedFrom, Lengths
<1>5. \A u \in Threads : \A i \in DOMAIN stack'[u] :
          /\ OldFrame(u, i) /\ stack'[u][i].recv = stack[u][i].recv
          /\ \/ stack'[u][i] = stack[u][i] /\ (stack[u][i].at = "asleep" => Len(stack'[u]) = Len(stack[u]))
             \/ FrameRight(u, i)'
          /\ stack'[u][i].at = "asleep" => stack'[u][i] = stack[u][i]
  BY <1>2, <1>3, WakeFrames
<1>6. FramesStay
  BY <1>3, <1>5 DEF FramesStay
<1>7. ASSUME NEW u \in Threads, u # t PROVE Undisturbed(u)
  BY <1>7, WakeTops DEF PoppedFrom
<1>8. Top(t)'.at # "asleep"
  <2>1. CASE stack'[t] = <<>>
    BY <2>1 DEF Top
  <2>2. CASE stack'[t] # <<>>
    <3>1. PICK n : n = Len(stack'[t])
      OBVIOUS
    <3>2. n \in DOMAIN stack'[t] /\ n # Len(stack[t]) /\ Top(t)' = stack'[t][n]
      <4>1. stack'[t] \in Seq(FrameType) /\ Len(stack'[t]) = Len(stack[t]) - 1 /\ Len(stack[t]) \in Nat
        BY <1>1, <1>2 DEF PoppedFrom, Lengths
      <4>2. QED
        BY <2>2, <3>1, <4>1 DEF Top
    <3>3. stack[t][n].at # "asleep"
      BY <1>3, <3>2, FrameFacts
    <3>4. QED
      BY <1>5, <3>2, <3>3
  <2>3. QED
    BY <2>1, <2>2
<1>9. Top(t) = stack[t][Len(stack[t])]
  BY <1>1, TopFacts
<1>10. \A u \in Threads : \A k, c :
           InFrame(u, k, c) => InFrame(u, k, c)' \/ (u = t /\ k = Top(t).kind /\ c = Top(t).call)
  BY <1>4, <1>5, <1>9 DEF InFrame, OldFrame
<1>11. \A r \in DOMAIN receivers : Holds(r) => Holds(r)' \/ (receivers[r].thread = t /\ Top(t).recv = r)
  <2>1. ASSUME NEW r \in DOMAIN receivers, NEW u \in Threads, u = receivers[r].thread,
               NEW i \in DOMAIN stack[u], stack[u][i].recv = r
        PROVE  Holds(r)' \/ (receivers[r].thread = t /\ Top(t).recv = r)
    <3>1. receivers'[r].thread = u
      BY <2>1 DEF Grows
    <3>2. CASE i \in DOMAIN stack'[u]
      BY <1>5, <2>1, <3>1, <3>2 DEF Holds
    <3>3. CASE u = t /\ i = Len(stack[t])
      BY <1>9, <2>1, <3>3
    <3>4. QED
      BY <1>4, <2>1, <3>2, <3>3
  <2>2. QED
    BY <1>1, <2>1 DEF Holds
<1>12. QED
  BY <1>2, <1>5, <1>6, <1>7, <1>8, <1>10, <1>11

\* The innermost frame of t becomes f, and threads are woken.
LEMMA SetStep ==
  ASSUME StructInv, Grows, NEW t \in Threads, NEW f, NEW s, TopSet(s, t, f), Wakes(s, stack'), Top(t).kind # "loop",
         f.kind = "wait", Top(t).kind = "wait", f.call = Top(t).call, WaitFrame(t, f)',
         f.at # "asleep" \/ stack' = s
  PROVE  /\ stack' \in [Threads -> Seq(FrameType)]
         /\ FramesStay
         /\ \A u \in Threads : \A i \in DOMAIN stack'[u] :
                OldFrame(u, i) /\ (stack'[u][i].recv = stack[u][i].recv \/ (u = t /\ i = Len(stack[t])))
         /\ \A u \in Threads : u # t => Undisturbed(u)
         /\ Top(t)' = f
         /\ \A u \in Threads : \A k, c : InFrame(u, k, c) => InFrame(u, k, c)'
         /\ \A r \in DOMAIN receivers :
                Holds(r) => Holds(r)' \/ (receivers[r].thread = t /\ Top(t).recv = r)
         /\ \A r \in DOMAIN receivers : receivers[r].thread = t /\ f.recv = r => Holds(r)'
<1>1. /\ Types /\ Lengths
      /\ \A r \in DOMAIN receivers : receivers[r].thread \in Threads
  BY StackLengths, Elements DEF StructInv, ReceiverType
<1>2. /\ stack' \in [Threads -> Seq(FrameType)]
      /\ \A u \in Threads : Len(stack'[u]) = Len(s[u]) /\ DOMAIN stack'[u] = DOMAIN s[u] /\ Len(s[u]) = Len(stack[u])
      /\ \A u \in Threads : DOMAIN s[u] = DOMAIN stack[u] /\ Len(s[u]) \in Nat
  BY <1>1 DEF Wakes, TopSet, Lengths
<1>3. PICK n : n = Len(stack[t])
  OBVIOUS
<1>4. n \in DOMAIN stack[t] /\ Top(t) = stack[t][n]
  BY <1>1, <1>3, TopFacts
<1>5. \A u \in Threads : \A i \in DOMAIN stack[u] : ~(u = t /\ i = n) => s[u][i] = stack[u][i]
  BY <1>3 DEF TopSet
<1>6. \A u \in Threads : \A i \in DOMAIN stack[u] : ~(u = t /\ i = n) =>
          /\ OldFrame(u, i) /\ stack'[u][i].recv = stack[u][i].recv
          /\ \/ stack'[u][i] = stack[u][i] /\ (stack[u][i].at = "asleep" => Len(stack'[u]) = Len(stack[u]))
             \/ FrameRight(u, i)'
  BY <1>2, <1>5, WakeFrames
<1>7. s[t][n] = f
  BY <1>3 DEF TopSet
<1>8. stack'[t][n] = f
  BY <1>2, <1>4, <1>7 DEF Wakes
<1>9. OldFrame(t, n)
  BY <1>4, <1>8 DEF OldFrame
<1>10. FrameRight(t, n)'
  BY <1>2, <1>3, <1>8 DEF FrameRight, AddFrame, RunFrame
<1>11. FramesStay
  <2>1. ASSUME NEW u \in Threads, NEW i \in DOMAIN stack'[u]
        PROVE  \/ /\ i \in DOMAIN stack[u] /\ stack'[u][i] = stack[u][i]
                  /\ stack[u][i].at = "asleep" => Len(stack'[u]) = Len(stack[u])
               \/ FrameRight(u, i)'
    <3>1. CASE u = t /\ i = n
      BY <1>10, <3>1
    <3>2. CASE ~(u = t /\ i = n)
      BY <1>2, <1>6, <2>1, <3>2
    <3>3. QED
      BY <3>1, <3>2
  <2>2. QED
    BY <2>1 DEF FramesStay
<1>12. \A u \in Threads : \A i \in DOMAIN stack'[u] :
           OldFrame(u, i) /\ (stack'[u][i].recv = stack[u][i].recv \/ (u = t /\ i = Len(stack[t])))
  BY <1>2, <1>3, <1>6, <1>9
<1>13. ASSUME NEW u \in Threads, u # t PROVE Undisturbed(u)
  BY <1>13, WakeTops DEF TopSet
<1>14. Top(t)' = f
  <2>1. stack'[t] # <<>> /\ Len(stack'[t]) = n
    <3>1. stack'[t] \in Seq(FrameType) /\ n \in DOMAIN stack'[t]
      BY <1>2, <1>4
    <3>2. QED
      BY <1>2, <1>3, <3>1
  <2>2. QED
    BY <1>8, <2>1 DEF Top
<1>15. \A u \in Threads : \A k, c : InFrame(u, k, c) => InFrame(u, k, c)'
  BY <1>2, <1>12 DEF InFrame, OldFrame
<1>16. \A r \in DOMAIN receivers : receivers'[r].thread = receivers[r].thread
  BY DEF Grows
<1>17. \A r \in DOMAIN receivers :
           Holds(r) => Holds(r)' \/ (receivers[r].thread = t /\ Top(t).recv = r)
  BY <1>1, <1>2, <1>3, <1>4, <1>6, <1>16 DEF Holds
<1>18. \A r \in DOMAIN receivers : receivers[r].thread = t /\ f.recv = r => Holds(r)'
  BY <1>2, <1>4, <1>8, <1>16 DEF Holds
<1>19. QED
  BY <1>2, <1>11, <1>12, <1>13, <1>14, <1>15, <1>17, <1>18

\* Threads are woken.
LEMMA WakeStep ==
  ASSUME StructInv, Grows, Wakes(stack, stack')
  PROVE  /\ stack' \in [Threads -> Seq(FrameType)]
         /\ FramesStay
         /\ \A u \in Threads : \A i \in DOMAIN stack'[u] : OldFrame(u, i) /\ stack'[u][i].recv = stack[u][i].recv
         /\ \A u \in Threads : Undisturbed(u)
         /\ \A u \in Threads : \A k, c : InFrame(u, k, c) => InFrame(u, k, c)'
         /\ \A r \in DOMAIN receivers : Holds(r) => Holds(r)'
<1>1. /\ Types /\ Lengths
      /\ \A r \in DOMAIN receivers : receivers[r].thread \in Threads
  BY StackLengths, Elements DEF StructInv, ReceiverType
<1>2. stack' \in [Threads -> Seq(FrameType)] /\ \A u \in Threads : DOMAIN stack'[u] = DOMAIN stack[u]
  BY DEF Wakes
<1>3. \A u \in Threads : \A i \in DOMAIN stack[u] :
          /\ OldFrame(u, i) /\ stack'[u][i].recv = stack[u][i].recv
          /\ \/ stack'[u][i] = stack[u][i] /\ (stack[u][i].at = "asleep" => Len(stack'[u]) = Len(stack[u]))
             \/ FrameRight(u, i)'
  BY <1>1, WakeFrames DEF Lengths
<1>4. FramesStay
  BY <1>2, <1>3 DEF FramesStay
<1>5. \A u \in Threads : Undisturbed(u)
  BY WakeTops
<1>6. \A u \in Threads : \A k, c : InFrame(u, k, c) => InFrame(u, k, c)'
  BY <1>2, <1>3 DEF InFrame, OldFrame
<1>7. \A r \in DOMAIN receivers : Holds(r) => Holds(r)'
  <2>1. \A r \in DOMAIN receivers : receivers'[r].thread = receivers[r].thread
    BY DEF Grows
  <2>2. QED
    BY <1>1, <1>2, <1>3, <2>1 DEF Holds
<1>8. QED
  BY <1>2, <1>3, <1>4, <1>5, <1>6, <1>7

-----------------------------------------------------------------------------
(* The initial states                                                      *)

\* The invariant holds at the start.
LEMMA TransInit == ASSUME Init PROVE TransInv
<1>1. PICK registered \in Registered :
          /\ receivers \in [1 .. Cardinality(registered) -> {NewReceiver(x) : x \in registered}]
          /\ \A x \in registered : \E r \in DOMAIN receivers : receivers[r].thread = x
          /\ threads = [x \in Threads |-> IF x \in registered
                                          THEN CHOOSE r \in DOMAIN receivers : receivers[r].thread = x ELSE 0]
  BY DEF Init
<1>2. registered \subseteq Threads
  BY <1>1, TransthreadConstants
<1>3. PICK n \in Nat : n = Cardinality(registered)
  BY <1>2, TransthreadNames, FS_Subset, FS_CardinalityType
<1>4. DOMAIN receivers = 1 .. n
  BY <1>1, <1>3
<1>5. ASSUME NEW r \in DOMAIN receivers PROVE receivers[r] \in ReceiverType /\ receivers[r].posted = <<>>
  <2>1. PICK x \in registered : receivers[r] = NewReceiver(x)
    BY <1>1, <1>5
  <2>2. <<>> \in Seq(Nat)
    OBVIOUS
  <2>3. QED
    BY <1>2, <2>1, <2>2 DEF NewReceiver, ReceiverType
<1>6. receivers \in Seq(ReceiverType)
  <2>1. receivers \in [1 .. n -> ReceiverType]
    BY <1>1, <1>3, <1>5
  <2>2. QED
    BY <2>1
<1>7. ASSUME NEW x \in Threads PROVE threads[x] \in Nat /\ (threads[x] # 0 => OfThread(threads[x], x))
  <2>1. CASE x \in registered
    <3>1. PICK r \in DOMAIN receivers : r = threads[x] /\ receivers[r].thread = x
      BY <1>1, <2>1
    <3>2. QED
      BY <1>4, <3>1 DEF OfThread
  <2>2. CASE x \notin registered
    BY <1>1, <2>2
  <2>3. QED
    BY <2>1, <2>2
<1>8. internals = TRUE /\ calls = <<>> /\ finished = {} /\ stack = [x \in Threads |-> <<>>]
  BY DEF Init
<1>9. DOMAIN calls = {} /\ \A t \in Threads : stack[t] = <<>> /\ DOMAIN stack[t] = {}
  BY <1>8
<1>10. StructInv
  <2>1. Types
    <3>1. threads \in [Threads -> Nat]
      BY <1>1, <1>7
    <3>2. calls \in Seq(CallType) /\ stack \in [Threads -> Seq(FrameType)]
      BY <1>8
    <3>3. QED
      BY <1>6, <1>8, <3>1, <3>2 DEF Types
  <2>2. QED
    BY <1>7, <1>9, <2>1 DEF StructInv, ReceiversFound, CallsRefer, FramesRight
<1>11. OrderInv
  BY <1>5, <1>9 DEF OrderInv, PostedRight, PostedSorted, RunsOnce, NoneSkipped, RunInOrder
<1>12. StateInv
  BY <1>9 DEF StateInv
<1>13. WakeInv
  BY <1>5, <1>9 DEF WakeInv, EventsReached, EventsTold, AsleepUntold, Top
<1>14. QED
  BY <1>10, <1>11, <1>12, <1>13 DEF TransInv

-----------------------------------------------------------------------------
(* Threads are registered                                                  *)

\* A thread that runs code of its own neither sleeps nor is about to wake another.
LEMMA FreeAwake ==
  ASSUME StructInv, NEW t \in Threads, Free(t)
  PROVE  Top(t).at # "asleep" /\ Top(t).at # "notify"
<1>1. CASE Top(t).kind = "loop"
  <2>1. stack[t] = <<>>
    BY <1>1, FrameFacts, StackLengths DEF Top, Lengths, StructInv
  <2>2. QED
    BY <2>1 DEF Top
<1>2. CASE Top(t).kind = "run"
  BY <1>2, TopFacts, FrameFacts DEF StructInv
<1>3. QED
  BY <1>1, <1>2 DEF Free

\* A thread starts to register another, or itself.
LEMMA RegistrationStarts ==
  ASSUME TransInv, NEW t \in Threads, NEW x \in Threads, Free(t), internals' \in BOOLEAN,
         stack' = Push(t, "add", 0, x), UNCHANGED <<threads, receivers, calls, finished>>
  PROVE  TransInv'
<1>1. PICK f : f = [kind |-> "add", call |-> 0, at |-> x, recv |-> 0]
  OBVIOUS
<1>2. StructInv /\ Types /\ OrderInv /\ StateInv /\ WakeInv
  BY DEF TransInv, StructInv
<1>3. PushedOn(stack', t, f)
  BY <1>1, <1>2, Pushes
<1>4. Grows
  BY DEF Grows, SameCall
<1>5. Types'
  BY <1>2, <1>3 DEF Types, PushedOn
<1>6. Top(t).at # "asleep" /\ Top(t).at # "notify"
  BY <1>2, FreeAwake
<1>7. /\ (\A n : n = Len(stack[t]) + 1 => FrameRight(t, n)') => FramesStay
      /\ \A u \in Threads : \A i \in DOMAIN stack'[u] :
             (OldFrame(u, i) /\ stack'[u][i].recv = stack[u][i].recv) \/ (u = t /\ i = Len(stack[t]) + 1)
      /\ \A u \in Threads : u # t => Undisturbed(u)
      /\ Top(t)' = f
      /\ \A u \in Threads : \A k, c : InFrame(u, k, c) => InFrame(u, k, c)'
      /\ \A r \in DOMAIN receivers : receivers'[r].thread = receivers[r].thread /\ Holds(r) => Holds(r)'
  BY <1>2, <1>3, <1>6, PushStep
<1>8. f.kind = "add" /\ f.at = x /\ f.recv = 0 /\ x \notin {"asleep", "notify"} /\ stack'[t][Len(stack[t]) + 1] = f
  BY <1>1, <1>3, TransthreadNames DEF PushedOn
<1>9. FramesStay
  BY <1>7, <1>8 DEF FrameRight, AddFrame, RunFrame, WaitFrame
<1>10. StructInv'
  BY <1>2, <1>4, <1>5, <1>9, StructKeeps
<1>11. \A u \in Threads : \A i \in DOMAIN stack'[u] : stack'[u][i].kind = "run" => OldFrame(u, i)
  BY <1>7, <1>8
<1>12. OrderInv'
  BY <1>2, <1>4, <1>11, OrderKeeps DEF Retired
<1>13. StateInv'
  <2>1. \A u \in Threads : \A c : InFrame(u, "run", c)' => InFrame(u, "run", c)
    BY <1>11 DEF InFrame, OldFrame
  <2>2. \A c \in DOMAIN calls : Live(c)' => Live(c)
    BY <2>1 DEF Live, PostedTo
  <2>3. \A c \in DOMAIN calls : Waited(c) => Waited(c)'
    <3>1. \A c \in DOMAIN calls : calls[c].from \in Threads
      BY <1>2, Elements DEF CallType
    <3>2. QED
      BY <1>7, <3>1 DEF Waited
  <2>4. QED
    BY <1>2, <1>4, <2>2, <2>3, StateKeeps
<1>14. WakeInv'
  <2>1. \A u \in Threads : Top(u)'.at = "asleep" => Top(u).at = "asleep" /\ Top(u)'.call = Top(u).call
    BY <1>7, <1>8 DEF Undisturbed
  <2>2. AsleepUntold'
    BY <1>2, <2>1, AsleepKeeps DEF WakeInv
  <2>3. \A c \in DOMAIN calls : Notifying(c) => Notifying(c)'
    <3>1. \A c \in DOMAIN calls : calls[c].from \in Threads
      BY <1>2, Elements DEF CallType
    <3>2. QED
      BY <1>6, <1>7, <3>1 DEF Notifying, Undisturbed
  <2>4. \A r \in DOMAIN receivers : Holds(r) => Holds(r)'
    BY <1>7
  <2>5. QED
    BY <1>2, <1>4, <2>2, <2>3, <2>4, WakeKeeps
<1>15. QED
  BY <1>10, <1>12, <1>13, <1>14 DEF TransInv

\* AddTargetThreadId keeps the invariant.
LEMMA RegistersThread ==
  ASSUME TransInv, NEW t \in Threads, NEW x \in Threads, AddTargetThreadId(t, x)
  PROVE  TransInv'
<1>1. Free(t) /\ stack' = Push(t, "add", 0, x) /\ UNCHANGED <<internals, threads, receivers, calls, finished>>
  BY DEF AddTargetThreadId
<1>2. internals' \in BOOLEAN
  BY <1>1 DEF TransInv, StructInv, Types
<1>3. QED
  BY <1>1, <1>2, RegistrationStarts

\* Creating the internals keeps the invariant.
LEMMA CreatesInternals ==
  ASSUME TransInv, NEW t \in Threads, CreateInternals(t)
  PROVE  TransInv'
<1>1. Free(t) /\ internals' = TRUE /\ stack' = Push(t, "add", 0, t) /\ UNCHANGED <<threads, receivers, calls, finished>>
  BY DEF CreateInternals
<1>2. QED
  BY <1>1, RegistrationStarts

\* What a sequence becomes when an element is added.
LEMMA Longer ==
  ASSUME NEW S, NEW s \in Seq(S), NEW e \in S
  PROVE  /\ Append(s, e) \in Seq(S) /\ Len(s) \in Nat /\ DOMAIN s = 1 .. Len(s)
         /\ DOMAIN Append(s, e) = 1 .. Len(s) + 1 /\ Len(Append(s, e)) = Len(s) + 1
         /\ \A i \in DOMAIN s : i \in DOMAIN Append(s, e) /\ Append(s, e)[i] = s[i]
         /\ Append(s, e)[Len(s) + 1] = e
OBVIOUS

\* A function on the numbers of a sequence is a sequence.
LEMMA SameLength ==
  ASSUME NEW S, NEW T, NEW s \in Seq(S), NEW f, f = [i \in DOMAIN s |-> f[i]], \A i \in DOMAIN s : f[i] \in T
  PROVE  f \in Seq(T) /\ DOMAIN f = DOMAIN s /\ Len(f) = Len(s) /\ Len(s) \in Nat /\ DOMAIN s = 1 .. Len(s)
<1>1. Len(s) \in Nat /\ DOMAIN s = 1 .. Len(s)
  OBVIOUS
<1>2. f \in [1 .. Len(s) -> T] /\ DOMAIN f = DOMAIN s
  BY <1>1
<1>3. f \in Seq(T)
  BY <1>1, <1>2
<1>4. Len(f) = Len(s)
  BY <1>1, <1>2, <1>3
<1>5. QED
  BY <1>1, <1>2, <1>3, <1>4

\* A receiver whose events are run is held by its thread.
LEMMA HeldHolds ==
  ASSUME StructInv, NEW r, r # 0, Held(r)
  PROVE  r \in DOMAIN receivers /\ Holds(r)
<1>1. PICK t \in Threads : \E i \in DOMAIN stack[t] : stack[t][i].recv = r
  BY DEF Held
<1>2. PICK i \in DOMAIN stack[t] : stack[t][i].recv = r
  BY <1>1
<1>3. OfThread(r, t)
  BY <1>2, FrameFacts DEF AddFrame, RunFrame, WaitFrame
<1>4. QED
  BY <1>2, <1>3 DEF OfThread, Holds

\* The events of receiver r are deleted.
LEMMA Drops ==
  ASSUME Types, NEW r \in Nat
  PROVE  /\ DropPosted(r) \in Seq(ReceiverType) /\ DOMAIN DropPosted(r) = DOMAIN receivers
         /\ Len(DropPosted(r)) = Len(receivers)
         /\ \A q \in DOMAIN receivers :
                /\ DropPosted(r)[q].thread = receivers[q].thread
                /\ DropPosted(r)[q].sender_set = receivers[q].sender_set
                /\ DropPosted(r)[q].process_incoming_call = receivers[q].process_incoming_call
                /\ DropPosted(r)[q].posted = IF q = r THEN <<>> ELSE receivers[q].posted
<1>1. receivers \in Seq(ReceiverType) /\ \A q \in DOMAIN receivers : receivers[q] \in ReceiverType /\ q # 0
  BY Elements DEF Types
<1>2. CASE r = 0
  BY <1>1, <1>2 DEF DropPosted
<1>3. CASE r # 0
  <2>1. PICK d : d = DropPosted(r)
    OBVIOUS
  <2>2. d = [q \in DOMAIN receivers |-> IF q = r THEN [receivers[q] EXCEPT !.posted = <<>>] ELSE receivers[q]]
    BY <1>1, <1>3, <2>1 DEF DropPosted
  <2>3. ASSUME NEW q \in DOMAIN receivers
        PROVE  /\ d[q] \in ReceiverType
               /\ d[q].thread = receivers[q].thread /\ d[q].sender_set = receivers[q].sender_set
               /\ d[q].process_incoming_call = receivers[q].process_incoming_call
               /\ d[q].posted = IF q = r THEN <<>> ELSE receivers[q].posted
    <3>1. CASE q = r
      <4>1. d[q] = [receivers[q] EXCEPT !.posted = <<>>] /\ <<>> \in Seq(Nat)
        BY <2>2, <3>1
      <4>2. QED
        BY <1>1, <3>1, <4>1 DEF ReceiverType
    <3>2. CASE q # r
      BY <1>1, <2>2, <3>2
    <3>3. QED
      BY <3>1, <3>2
  <2>4. d = [q \in DOMAIN receivers |-> d[q]]
    BY <2>2
  <2>5. d \in Seq(ReceiverType) /\ DOMAIN d = DOMAIN receivers /\ Len(d) = Len(receivers)
    BY <1>1, <2>3, <2>4, SameLength
  <2>6. QED
    BY <2>1, <2>3, <2>5
<1>4. QED
  BY <1>2, <1>3

\* What a thread that sleeps waits for.
LEMMA AsleepFacts ==
  ASSUME StructInv, NEW u \in Threads, Top(u).at = "asleep"
  PROVE  /\ stack[u] # <<>> /\ Len(stack[u]) \in DOMAIN stack[u] /\ Top(u) = stack[u][Len(stack[u])]
         /\ Top(u).kind = "wait" /\ Top(u).call \in DOMAIN calls /\ calls[Top(u).call].from = u
         /\ calls[Top(u).call].sync \in DOMAIN receivers /\ receivers[calls[Top(u).call].sync].thread = u
<1>1. stack[u] # <<>> /\ Top(u) = stack[u][Len(stack[u])] /\ Len(stack[u]) \in DOMAIN stack[u]
  <2>1. stack[u] # <<>> /\ stack[u] \in Seq(FrameType)
    BY DEF Top, StructInv, Types
  <2>2. QED
    BY <2>1 DEF Top
<1>2. Top(u).kind = "wait" /\ WaitFrame(u, Top(u))
  BY <1>1, FrameFacts
<1>3. PICK c : c = Top(u).call
  OBVIOUS
<1>4. c \in DOMAIN calls /\ calls[c].from = u /\ calls[c].to # DirectCallPseudoId
  BY <1>2, <1>3 DEF WaitFrame
<1>5. OfThread(calls[c].sync, u)
  BY <1>4 DEF StructInv, CallsRefer, CallRefers
<1>6. QED
  BY <1>1, <1>2, <1>3, <1>4, <1>5 DEF OfThread

\* The second half of AddTargetThreadId, which replaces a receiver made
\* meanwhile, keeps the invariant.
LEMMA InsertsReceiver ==
  ASSUME TransInv, NEW t \in Threads, AddTargetThreadId_Insert(t)
  PROVE  TransInv'
<1>1. StructInv /\ Types /\ OrderInv /\ StateInv /\ WakeInv
  BY DEF TransInv, StructInv
<1>2. PICK x : x = Top(t).at
  OBVIOUS
<1>3. PICK old : old = IF Held(threads[x]) THEN 0 ELSE threads[x]
  OBVIOUS
<1>4. PICK n : n = Len(receivers) + 1
  OBVIOUS
<1>5. /\ Top(t).kind = "add"
      /\ receivers' = Append(IF old = 0 THEN receivers ELSE DropPosted(old), NewReceiver(x))
      /\ calls' = [c \in DOMAIN calls |-> [calls[c] EXCEPT !.lost = @ \/ (old # 0 /\ PostedTo(c, old))]]
      /\ threads' = [threads EXCEPT ![x] = n]
      /\ stack' = Pop(stack, t)
      /\ UNCHANGED <<internals, finished>>
  BY <1>2, <1>3, <1>4 DEF AddTargetThreadId_Insert
<1>6. stack[t] # <<>> /\ Len(stack[t]) \in DOMAIN stack[t] /\ Top(t) = stack[t][Len(stack[t])] /\ Top(t).kind # "loop"
  BY <1>1, <1>5, TopFacts
<1>7. x \in Threads /\ Top(t).recv = 0
  BY <1>1, <1>2, <1>5, <1>6, FrameFacts DEF AddFrame
<1>8. old \in Nat /\ old \in {0, threads[x]} /\ threads \in [Threads -> Nat] /\ receivers \in Seq(ReceiverType)
      /\ calls \in Seq(CallType)
  BY <1>1, <1>3, <1>7 DEF Types
<1>9. /\ receivers' \in Seq(ReceiverType) /\ DOMAIN receivers = 1 .. n - 1 /\ n \in Nat \ {0}
      /\ DOMAIN receivers' = 1 .. n /\ receivers'[n] = NewReceiver(x)
      /\ \A r \in DOMAIN receivers : r \in DOMAIN receivers' /\ receivers'[r] = DropPosted(old)[r]
  <2>1. NewReceiver(x) \in ReceiverType
    <3>1. <<>> \in Seq(Nat)
      OBVIOUS
    <3>2. QED
      BY <1>7, <3>1 DEF NewReceiver, ReceiverType
  <2>2. PICK d : d = DropPosted(old)
    OBVIOUS
  <2>3. d \in Seq(ReceiverType) /\ DOMAIN d = DOMAIN receivers /\ Len(d) = Len(receivers)
    BY <1>1, <1>8, <2>2, Drops
  <2>4. receivers' = Append(d, NewReceiver(x))
    BY <1>5, <2>2 DEF DropPosted
  <2>5. QED
    BY <1>4, <2>1, <2>2, <2>3, <2>4, Longer
<1>10. \A r \in DOMAIN receivers :
           /\ receivers'[r].thread = receivers[r].thread
           /\ receivers'[r].sender_set = receivers[r].sender_set
           /\ receivers'[r].process_incoming_call = receivers[r].process_incoming_call
           /\ receivers'[r].posted = IF r = old THEN <<>> ELSE receivers[r].posted
  <2>1. PICK d : d = DropPosted(old)
    OBVIOUS
  <2>2. \A r \in DOMAIN receivers :
            /\ d[r].thread = receivers[r].thread
            /\ d[r].sender_set = receivers[r].sender_set
            /\ d[r].process_incoming_call = receivers[r].process_incoming_call
            /\ d[r].posted = IF r = old THEN <<>> ELSE receivers[r].posted
    BY <1>1, <1>8, <2>1, Drops
  <2>3. \A r \in DOMAIN receivers : receivers'[r] = d[r]
    BY <1>9, <2>1
  <2>4. QED
    BY <2>2, <2>3
<1>11. receivers'[n].thread = x /\ receivers'[n].posted = <<>>
  BY <1>9 DEF NewReceiver
<1>12. /\ calls' \in Seq(CallType) /\ DOMAIN calls' = DOMAIN calls
       /\ \A c \in DOMAIN calls : /\ SameCall(c) /\ calls'[c].ran = calls[c].ran
                                  /\ calls'[c].state = calls[c].state /\ calls'[c].result = calls[c].result
  <2>1. calls' = [c \in DOMAIN calls |-> calls'[c]]
    BY <1>5
  <2>2. ASSUME NEW c \in DOMAIN calls
        PROVE  calls'[c] \in CallType /\ SameCall(c) /\ calls'[c].ran = calls[c].ran
               /\ calls'[c].state = calls[c].state /\ calls'[c].result = calls[c].result
    <3>1. calls[c] \in CallType
      BY <1>1, Elements
    <3>2. PICK b : b = (calls[c].lost \/ (old # 0 /\ PostedTo(c, old)))
      OBVIOUS
    <3>3. calls[c].lost \in BOOLEAN
      BY <3>1 DEF CallType
    <3>4. b \in BOOLEAN
      BY <3>2, <3>3
    <3>5. calls'[c] = [calls[c] EXCEPT !.lost = b]
      BY <1>5, <3>2
    <3>6. QED
      BY <3>1, <3>4, <3>5 DEF CallType, SameCall
  <2>3. QED
    BY <1>8, <2>1, <2>2, SameLength
<1>13. /\ threads' \in [Threads -> Nat] /\ threads'[x] = n
       /\ \A y \in Threads : y # x => threads'[y] = threads[y]
  BY <1>5, <1>7, <1>8, <1>9
<1>14. Grows
  BY <1>5, <1>9, <1>10, <1>12 DEF Grows
<1>15. PoppedFrom(stack', t)
  BY <1>1, <1>5, <1>6, Pops
<1>16. Wakes(stack', stack')
  BY <1>15, WakesNone DEF PoppedFrom
<1>17. /\ stack' \in [Threads -> Seq(FrameType)]
       /\ FramesStay
       /\ \A u \in Threads : \A i \in DOMAIN stack'[u] : OldFrame(u, i) /\ stack'[u][i].recv = stack[u][i].recv
       /\ \A u \in Threads : u # t => Undisturbed(u)
       /\ Top(t)'.at # "asleep"
       /\ \A u \in Threads : \A k, c :
              InFrame(u, k, c) => InFrame(u, k, c)' \/ (u = t /\ k = Top(t).kind /\ c = Top(t).call)
       /\ \A r \in DOMAIN receivers : Holds(r) => Holds(r)' \/ (receivers[r].thread = t /\ Top(t).recv = r)
  BY <1>1, <1>6, <1>14, <1>15, <1>16, PopStep
<1>18. Types'
  BY <1>1, <1>5, <1>9, <1>12, <1>13, <1>17 DEF Types
<1>19. \A y \in Threads : threads[y] # 0 => threads[y] \in DOMAIN receivers /\ receivers[threads[y]].thread = y
  BY <1>1 DEF StructInv, ReceiversFound, OfThread
<1>20. StructInv'
  <2>1. OfThread(threads[x], x)'
    BY <1>9, <1>11, <1>13 DEF OfThread
  <2>2. \A y \in Threads : threads'[y] # 0 => threads'[y] = threads[y] \/ OfThread(threads[y], y)'
    BY <1>13, <2>1
  <2>3. QED
    BY <1>1, <1>12, <1>14, <1>17, <1>18, <2>2, StructKeeps
<1>21. \A r \in DOMAIN receivers : (\A y \in Threads : threads[y] # r) \/ r = old
                                        => \A y \in Threads : threads'[y] # r
  <2>1. \A r \in DOMAIN receivers : r # n /\ r # 0
    BY <1>9
  <2>2. QED
    BY <1>7, <1>8, <1>13, <1>19, <2>1
<1>22. OrderInv'
  <2>1. \A r \in DOMAIN receivers : receivers'[r].posted = receivers[r].posted \/ Retired(r)'
    BY <1>10, <1>21 DEF Retired
  <2>2. \A r \in DOMAIN receivers : Retired(r) => Retired(r)'
    BY <1>10, <1>21 DEF Retired
  <2>3. \A r \in DOMAIN receivers' : r \notin DOMAIN receivers => receivers'[r].posted = <<>>
    BY <1>9, <1>11
  <2>4. QED
    BY <1>1, <1>12, <1>14, <1>17, <2>1, <2>2, <2>3, OrderKeeps
<1>23. StateInv'
  <2>1. \A c \in DOMAIN calls : Live(c)' => Live(c)
    <3>1. ASSUME NEW c \in DOMAIN calls, PostedTo(c, calls[c].recv)', calls'[c].recv # 0 PROVE PostedTo(c, calls[c].recv)
      <4>1. PICK r : r = calls[c].recv
        OBVIOUS
      <4>2. r # 0 /\ calls'[c].recv = r
        BY <1>12, <3>1, <4>1 DEF SameCall
      <4>3. r \in DOMAIN receivers
        BY <1>1, <4>1, <4>2 DEF StructInv, CallsRefer, CallRefers, OfThread
      <4>4. PICK i \in DOMAIN receivers'[r].posted : receivers'[r].posted[i] = c
        BY <3>1, <4>2 DEF PostedTo
      <4>5. receivers'[r].posted = receivers[r].posted
        BY <1>10, <4>3, <4>4
      <4>6. QED
        BY <4>1, <4>4, <4>5 DEF PostedTo
    <3>2. \A u \in Threads : \A c : InFrame(u, "run", c)' => InFrame(u, "run", c)
      BY <1>17 DEF InFrame, OldFrame
    <3>3. QED
      BY <1>12, <3>1, <3>2 DEF Live, SameCall
  <2>2. \A c \in DOMAIN calls : Waited(c) => Waited(c)'
    <3>1. \A c \in DOMAIN calls : calls[c].from \in Threads /\ calls'[c].from = calls[c].from
      BY <1>1, <1>12, Elements DEF CallType, SameCall
    <3>2. QED
      BY <1>5, <1>17, <3>1 DEF Waited
  <2>3. QED
    BY <1>1, <1>12, <1>14, <2>1, <2>2, StateKeeps
<1>24. WakeInv'
  <2>1. AsleepUntold'
    <3>1. ASSUME NEW u \in Threads, Top(u)'.at = "asleep"
          PROVE  LET c == Top(u).call
                 IN  /\ Top(u).at = "asleep" /\ Top(u)'.call = c
                     /\ calls'[c].state = calls[c].state /\ calls'[c].sync = calls[c].sync
                     /\ receivers'[calls[c].sync].process_incoming_call
                            => receivers[calls[c].sync].process_incoming_call
      <4>1. Top(u).at = "asleep" /\ Top(u)'.call = Top(u).call
        BY <1>17, <3>1 DEF Undisturbed
      <4>2. PICK c : c = Top(u).call
        OBVIOUS
      <4>3. c \in DOMAIN calls /\ calls[c].sync \in DOMAIN receivers
        BY <1>1, <4>1, <4>2, AsleepFacts
      <4>4. QED
        BY <1>10, <1>12, <4>1, <4>2, <4>3 DEF SameCall
    <3>2. QED
      BY <1>1, <3>1, AsleepKeeps DEF WakeInv
  <2>2. \A c \in DOMAIN calls : Notifying(c) => Notifying(c)'
    <3>1. \A c \in DOMAIN calls : calls[c].from \in Threads /\ calls'[c].from = calls[c].from
      BY <1>1, <1>12, Elements DEF CallType, SameCall
    <3>2. Top(t).at # "notify"
      BY <1>2, <1>7, TransthreadNames
    <3>3. QED
      BY <1>17, <3>1, <3>2 DEF Notifying, Undisturbed
  <2>3. \A r \in DOMAIN receivers : Holds(r) => Holds(r)'
    <3>1. \A r \in DOMAIN receivers : r # 0
      BY <1>9
    <3>2. QED
      BY <1>7, <1>17, <3>1
  <2>4. ASSUME NEW r \in DOMAIN receivers, receivers'[r].posted # <<>>, threads[receivers[r].thread] = r
        PROVE  threads'[receivers[r].thread] = r \/ Holds(r)'
    <3>1. CASE receivers[r].thread = x
      <4>1. r = threads[x] /\ r # old
        BY <1>10, <2>4, <3>1
      <4>2. Held(r) /\ r # 0
        BY <1>3, <1>9, <4>1
      <4>3. QED
        BY <1>1, <2>3, <4>2, HeldHolds
    <3>2. CASE receivers[r].thread # x
      <4>1. receivers[r].thread \in Threads
        BY <1>1, Elements DEF ReceiverType
      <4>2. QED
        BY <1>13, <2>4, <3>2, <4>1
    <3>3. QED
      BY <3>1, <3>2
  <2>5. \A r \in DOMAIN receivers : receivers'[r].posted \in {receivers[r].posted, <<>>}
    BY <1>10
  <2>6. \A r \in DOMAIN receivers' : r \notin DOMAIN receivers => receivers'[r].posted = <<>>
    BY <1>9, <1>11
  <2>7. QED
    BY <1>1, <1>10, <1>14, <2>1, <2>2, <2>3, <2>4, <2>5, <2>6, WakeKeeps
<1>25. QED
  BY <1>20, <1>22, <1>23, <1>24 DEF TransInv

\* Destroying the caller keeps the invariant.
LEMMA DestroysCaller ==
  ASSUME TransInv, DestroyCaller
  PROVE  TransInv'
<1>1. StructInv /\ Types /\ OrderInv /\ StateInv /\ WakeInv
  BY DEF TransInv, StructInv
<1>2. /\ \A t \in Threads : \A i \in DOMAIN stack[t] : stack[t][i].kind = "run"
      /\ internals' = FALSE
      /\ threads' = [x \in Threads |-> 0]
      /\ receivers' = [r \in DOMAIN receivers |-> [receivers[r] EXCEPT !.posted = <<>>]]
      /\ UNCHANGED <<calls, stack, finished>>
  BY DEF DestroyCaller
<1>3. /\ receivers' \in Seq(ReceiverType) /\ DOMAIN receivers' = DOMAIN receivers
      /\ \A r \in DOMAIN receivers : /\ receivers'[r].thread = receivers[r].thread /\ receivers'[r].posted = <<>>
                                     /\ receivers'[r].sender_set = receivers[r].sender_set
  <2>1. receivers' = [r \in DOMAIN receivers |-> receivers'[r]] /\ receivers \in Seq(ReceiverType)
    BY <1>1, <1>2 DEF Types
  <2>2. ASSUME NEW r \in DOMAIN receivers
        PROVE  receivers'[r] \in ReceiverType /\ receivers'[r].thread = receivers[r].thread
               /\ receivers'[r].posted = <<>> /\ receivers'[r].sender_set = receivers[r].sender_set
    <3>1. receivers[r] \in ReceiverType /\ <<>> \in Seq(Nat)
      BY <1>1, Elements
    <3>2. receivers'[r] = [receivers[r] EXCEPT !.posted = <<>>]
      BY <1>2
    <3>3. QED
      BY <3>1, <3>2 DEF ReceiverType
  <2>3. QED
    BY <2>1, <2>2, SameLength
<1>4. Grows
  BY <1>2, <1>3 DEF Grows, SameCall
<1>5. \A r \in DOMAIN receivers : r # 0
  BY <1>1, Elements
<1>6. StructInv'
  <2>1. Types'
    BY <1>1, <1>2, <1>3 DEF Types
  <2>2. FramesStay
    BY <1>2 DEF FramesStay
  <2>3. QED
    BY <1>1, <1>2, <1>4, <2>1, <2>2, StructKeeps
<1>7. OrderInv'
  <2>1. \A r \in DOMAIN receivers : Retired(r)'
    BY <1>2, <1>3, <1>5 DEF Retired
  <2>2. \A u \in Threads : \A i \in DOMAIN stack'[u] : OldFrame(u, i)
    BY <1>2 DEF OldFrame
  <2>3. QED
    BY <1>1, <1>2, <1>3, <1>4, <2>1, <2>2, OrderKeeps
<1>8. StateInv'
  <2>1. \A c \in DOMAIN calls : Live(c)' => Live(c)
    <3>1. ASSUME NEW c \in DOMAIN calls, calls[c].recv # 0, PostedTo(c, calls[c].recv)' PROVE FALSE
      <4>1. calls[c].recv \in DOMAIN receivers /\ calls'[c].recv = calls[c].recv
        BY <1>1, <1>2, <3>1 DEF StructInv, CallsRefer, CallRefers, OfThread
      <4>2. receivers'[calls[c].recv].posted = <<>>
        BY <1>3, <4>1
      <4>3. QED
        BY <1>2, <3>1, <4>1, <4>2 DEF PostedTo
    <3>2. QED
      BY <1>2, <3>1 DEF Live, InFrame
  <2>2. \A c \in DOMAIN calls : Waited(c) => Waited(c)'
    BY <1>2 DEF Waited, InFrame
  <2>3. QED
    BY <1>1, <1>2, <1>4, <2>1, <2>2, StateKeeps
<1>9. WakeInv'
  <2>1. ASSUME NEW u \in Threads, Top(u)'.at = "asleep" PROVE FALSE
    <3>1. Top(u).at = "asleep"
      BY <1>2, <2>1 DEF Top
    <3>2. QED
      BY <1>1, <1>2, <3>1, AsleepFacts
  <2>2. AsleepUntold'
    BY <2>1 DEF AsleepUntold
  <2>3. \A c \in DOMAIN calls : Notifying(c) => Notifying(c)'
    BY <1>2 DEF Notifying, Top
  <2>4. QED
    BY <1>1, <1>3, <1>4, <2>2, <2>3, WakeKeeps
<1>10. QED
  BY <1>6, <1>7, <1>8, <1>9 DEF TransInv

-----------------------------------------------------------------------------
(* A call is posted                                                        *)

\* What a call is when it is made.
CallIs(k, t, x, kind, r, s, state) ==
    /\ k \in CallType /\ k.from = t /\ k.to = x /\ k.kind = kind /\ k.recv = r /\ k.sync = s
    /\ k.state = state /\ k.ran = FALSE /\ k.result = "none"

\* What a new call is.
LEMMA NewCallFields ==
  ASSUME NEW t \in Threads, NEW x \in Threads \cup {DirectCallPseudoId}, NEW kind \in Kinds,
         NEW r \in Nat, NEW s \in Nat, NEW state \in CallStates
  PROVE  CallIs(NewCall(t, x, kind, r, s, state), t, x, kind, r, s, state)
<1>1. PICK late : late = (x \in finished)
  OBVIOUS
<1>2. late \in BOOLEAN
  BY <1>1
<1>3. PICK q : q = [from |-> t, to |-> x, kind |-> kind, recv |-> r, sync |-> s, state |-> state,
                    ran |-> FALSE, result |-> "none", late |-> late, lost |-> FALSE]
  OBVIOUS
<1>4. q \in CallType
  BY <1>2, <1>3 DEF CallType
<1>5. NewCall(t, x, kind, r, s, state) = q
  BY <1>1, <1>3 DEF NewCall
<1>6. QED
  BY <1>3, <1>4, <1>5 DEF CallIs

\* A call is added to those of before.
LEMMA CallAdded ==
  ASSUME StructInv, NEW k \in CallType, calls' = Append(calls, k), NEW n, n = Len(calls) + 1,
         DOMAIN receivers \subseteq DOMAIN receivers',
         \A r \in DOMAIN receivers : /\ receivers'[r].thread = receivers[r].thread
                                     /\ receivers'[r].sender_set = receivers[r].sender_set,
         finished' = finished
  PROVE  /\ calls' \in Seq(CallType) /\ n \in Nat \ {0} /\ DOMAIN calls = 1 .. n - 1 /\ DOMAIN calls' = 1 .. n
         /\ \A c \in DOMAIN calls : c \in DOMAIN calls' /\ calls'[c] = calls[c]
         /\ calls'[n] = k
         /\ Grows
<1>1. calls \in Seq(CallType)
  BY DEF StructInv, Types
<1>2. /\ calls' \in Seq(CallType) /\ n \in Nat \ {0} /\ DOMAIN calls = 1 .. n - 1 /\ DOMAIN calls' = 1 .. n
      /\ \A c \in DOMAIN calls : c \in DOMAIN calls' /\ calls'[c] = calls[c]
      /\ calls'[n] = k
  BY <1>1, Longer
<1>3. Grows
  BY <1>2 DEF Grows, SameCall
<1>4. QED
  BY <1>2, <1>3

\* A direct call keeps the invariant.
LEMMA CallsDirectly ==
  ASSUME TransInv, NEW t \in Threads, NEW kind \in Kinds, CallDirectly(t, kind)
  PROVE  TransInv'
<1>1. StructInv /\ Types /\ OrderInv /\ StateInv /\ WakeInv
  BY DEF TransInv, StructInv
<1>2. PICK n : n = Len(calls) + 1
  OBVIOUS
<1>3. PICK k : k = [NewCall(t, DirectCallPseudoId, kind, 0, 0, "cs_no_call") EXCEPT !.ran = TRUE]
  OBVIOUS
<1>4. Free(t) /\ calls' = Append(calls, k) /\ stack' = Push(t, "run", n, "running")
      /\ UNCHANGED <<internals, threads, receivers, finished>>
  BY <1>2, <1>3 DEF CallDirectly
<1>5. k \in CallType /\ k.to = DirectCallPseudoId /\ k.recv = 0 /\ k.sync = 0 /\ k.ran /\ k.state = "cs_no_call"
      /\ k.result = "none"
  <2>1. "cs_no_call" \in CallStates /\ DirectCallPseudoId \in Threads \cup {DirectCallPseudoId}
    BY DEF CallStates
  <2>2. PICK q : q = NewCall(t, DirectCallPseudoId, kind, 0, 0, "cs_no_call")
    OBVIOUS
  <2>3. CallIs(q, t, DirectCallPseudoId, kind, 0, 0, "cs_no_call")
    BY <2>1, <2>2, NewCallFields
  <2>4. k = [q EXCEPT !.ran = TRUE]
    BY <1>3, <2>2
  <2>5. QED
    BY <2>3, <2>4 DEF CallIs, CallType
<1>6. /\ calls' \in Seq(CallType) /\ n \in Nat \ {0} /\ DOMAIN calls = 1 .. n - 1 /\ DOMAIN calls' = 1 .. n
      /\ \A c \in DOMAIN calls : c \in DOMAIN calls' /\ calls'[c] = calls[c]
      /\ calls'[n] = k
      /\ Grows
  BY <1>1, <1>2, <1>4, <1>5, CallAdded
<1>7. PICK f : f = [kind |-> "run", call |-> n, at |-> "running", recv |-> 0]
  OBVIOUS
<1>8. f.kind = "run" /\ f.call = n /\ f.at = "running" /\ f.recv = 0
  BY <1>7
<1>9. PushedOn(stack', t, f)
  <2>1. n \in Nat /\ "run" \in {"add", "run", "wait"} /\ "running" \in Threads \cup Places
    BY <1>6 DEF Places
  <2>2. PushedOn(Push(t, "run", n, "running"), t, [kind |-> "run", call |-> n, at |-> "running", recv |-> 0])
    BY <1>1, <2>1, Pushes
  <2>3. QED
    BY <1>4, <1>7, <2>2
<1>10. Top(t).at # "asleep" /\ Top(t).at # "notify"
  BY <1>1, <1>4, FreeAwake
<1>11. /\ (\A m : m = Len(stack[t]) + 1 => FrameRight(t, m)') => FramesStay
       /\ \A u \in Threads : \A i \in DOMAIN stack'[u] :
              (OldFrame(u, i) /\ stack'[u][i].recv = stack[u][i].recv) \/ (u = t /\ i = Len(stack[t]) + 1)
       /\ \A u \in Threads : u # t => Undisturbed(u)
       /\ Top(t)' = f
       /\ \A u \in Threads : \A b, c : InFrame(u, b, c) => InFrame(u, b, c)'
       /\ \A r \in DOMAIN receivers : receivers'[r].thread = receivers[r].thread /\ Holds(r) => Holds(r)'
  BY <1>1, <1>9, <1>10, PushStep
<1>12. stack'[t][Len(stack[t]) + 1] = f
  BY <1>9 DEF PushedOn
<1>13. StructInv'
  <2>1. Types'
    BY <1>1, <1>4, <1>6, <1>9 DEF Types, PushedOn
  <2>2. \A c : c \in DOMAIN calls' /\ c \notin DOMAIN calls => CallRefers(calls[c])'
    <3>1. \A c : c \in DOMAIN calls' /\ c \notin DOMAIN calls => c = n
      BY <1>6
    <3>2. QED
      BY <1>5, <1>6, <3>1 DEF CallRefers
  <2>3. RunFrame(t, f)'
    BY <1>5, <1>6, <1>8 DEF RunFrame
  <2>4. FramesStay
    BY <1>8, <1>11, <1>12, <2>3 DEF FrameRight, AddFrame, WaitFrame
  <2>5. QED
    BY <1>1, <1>4, <1>6, <2>1, <2>2, <2>4, StructKeeps
<1>14. OrderInv'
  <2>1. PostedRight'
    BY <1>1, <1>4, <1>6 DEF OrderInv, PostedRight
  <2>2. PostedSorted'
    BY <1>1, <1>4 DEF OrderInv, PostedSorted
  <2>3. RunsOnce'
    <3>1. \A u \in Threads : \A i \in DOMAIN stack'[u] : stack'[u][i].kind = "run" =>
              (OldFrame(u, i) /\ stack'[u][i].call # n) \/ (u = t /\ i = Len(stack[t]) + 1 /\ stack'[u][i].call = n)
      <4>1. ASSUME NEW u \in Threads, NEW i \in DOMAIN stack'[u], stack'[u][i].kind = "run", OldFrame(u, i)
            PROVE  stack'[u][i].call # n
        <5>1. stack'[u][i].call \in DOMAIN calls
          BY <1>1, <4>1, FrameFacts DEF OldFrame, RunFrame
        <5>2. QED
          BY <1>6, <5>1
      <4>2. QED
        BY <1>8, <1>11, <1>12, <4>1
    <3>2. QED
      BY <1>1, <3>1 DEF OrderInv, RunsOnce, OldFrame
  <2>4. NoneSkipped'
    <3>1. ASSUME NEW c \in DOMAIN calls', calls'[c].recv # 0 PROVE c \in DOMAIN calls /\ calls'[c] = calls[c]
      BY <1>5, <1>6, <3>1
    <3>2. QED
      BY <1>1, <1>4, <3>1 DEF OrderInv, NoneSkipped, PostedTo, Retired
  <2>5. RunInOrder'
    <3>1. ASSUME NEW c \in DOMAIN calls', calls'[c].recv # 0 PROVE c \in DOMAIN calls /\ calls'[c] = calls[c]
      BY <1>5, <1>6, <3>1
    <3>2. QED
      BY <1>1, <3>1 DEF OrderInv, RunInOrder
  <2>6. QED
    BY <2>1, <2>2, <2>3, <2>4, <2>5 DEF OrderInv
<1>15. StateInv'
  <2>1. \A c \in DOMAIN calls : Live(c)' => Live(c)
    <3>1. ASSUME NEW c \in DOMAIN calls, NEW u \in Threads, InFrame(u, "run", c)' PROVE InFrame(u, "run", c)
      <4>1. c # n
        BY <1>6
      <4>2. QED
        BY <1>8, <1>11, <1>12, <3>1, <4>1 DEF InFrame, OldFrame
    <3>2. QED
      BY <1>4, <1>6, <3>1 DEF Live, PostedTo
  <2>2. \A c \in DOMAIN calls : Waited(c) => Waited(c)'
    <3>1. \A c \in DOMAIN calls : calls[c].from \in Threads
      BY <1>1, Elements DEF CallType
    <3>2. QED
      BY <1>6, <1>11, <3>1 DEF Waited
  <2>3. \A c : c \in DOMAIN calls' /\ c \notin DOMAIN calls => StateRight(c)'
    <3>1. \A c : c \in DOMAIN calls' /\ c \notin DOMAIN calls => calls'[c] = k
      BY <1>6
    <3>2. QED
      BY <1>5, <3>1 DEF StateRight, StateTrue, Live
  <2>4. QED
    BY <1>1, <1>6, <2>1, <2>2, <2>3, StateKeeps
<1>16. WakeInv'
  <2>1. ASSUME NEW u \in Threads, Top(u)'.at = "asleep" PROVE Top(u).at = "asleep" /\ Top(u)'.call = Top(u).call
    BY <1>8, <1>11, <2>1 DEF Undisturbed
  <2>2. AsleepUntold'
    <3>1. \A u \in Threads : Top(u).at = "asleep" => Top(u).call \in DOMAIN calls
      BY <1>1, AsleepFacts
    <3>2. QED
      BY <1>1, <1>4, <1>6, <2>1, <3>1, AsleepKeeps DEF WakeInv
  <2>3. \A c \in DOMAIN calls : Notifying(c) => Notifying(c)'
    <3>1. \A c \in DOMAIN calls : calls[c].from \in Threads
      BY <1>1, Elements DEF CallType
    <3>2. QED
      BY <1>6, <1>10, <1>11, <3>1 DEF Notifying, Undisturbed
  <2>4. \A r \in DOMAIN receivers : Holds(r) => Holds(r)'
    BY <1>4, <1>11
  <2>5. QED
    BY <1>1, <1>4, <1>6, <2>2, <2>3, <2>4, WakeKeeps
<1>17. QED
  BY <1>13, <1>14, <1>15, <1>16 DEF TransInv

\* The receivers ts of threads are among rs.
Placing(rs, ts) ==
    /\ rs \in Seq(ReceiverType) /\ ts \in [Threads -> Nat]
    /\ \A y \in Threads : ts[y] # 0 => ts[y] \in DOMAIN rs /\ rs[ts[y]].thread = y

\* Receivers qs and their threads us are rs and ts with new ones, which nothing is posted to.
Extends(rs, ts, qs, us) ==
    /\ Placing(qs, us) /\ Len(rs) \in Nat /\ DOMAIN rs = 1 .. Len(rs)
    /\ \A r \in DOMAIN rs : r \in DOMAIN qs /\ qs[r] = rs[r]
    /\ \A r \in DOMAIN qs : r \in DOMAIN rs \/ qs[r].posted = <<>>
    /\ \A y \in Threads : us[y] = ts[y] \/ us[y] \notin DOMAIN rs
    /\ \A y \in Threads : ts[y] # 0 => us[y] = ts[y]

\* MakeFindThread adds a receiver at most, and finds one.
LEMMA FindsThread ==
  ASSUME NEW rs, NEW ts, Placing(rs, ts), NEW x \in Threads, NEW qs, NEW us,
         NEW m, m = MakeFindThread([receivers |-> rs, threads |-> ts], x), qs = m.receivers, us = m.threads
  PROVE  Extends(rs, ts, qs, us) /\ us[x] # 0 /\ m = [receivers |-> qs, threads |-> us]
<1>1. rs \in Seq(ReceiverType) /\ ts \in [Threads -> Nat]
  BY DEF Placing
<1>2. Len(rs) \in Nat /\ DOMAIN rs = 1 .. Len(rs)
  BY <1>1
<1>3. CASE ts[x] # 0
  <2>1. m = [receivers |-> rs, threads |-> ts]
    BY <1>3 DEF MakeFindThread
  <2>2. qs = rs /\ us = ts
    BY <2>1
  <2>3. QED
    BY <1>2, <1>3, <2>1, <2>2 DEF Extends, Placing
<1>4. CASE ts[x] = 0
  <2>1. PICK n : n = Len(rs) + 1
    OBVIOUS
  <2>2. PICK k : k = NewReceiver(x)
    OBVIOUS
  <2>3. k \in ReceiverType /\ k.thread = x /\ k.posted = <<>>
    <3>1. <<>> \in Seq(Nat)
      OBVIOUS
    <3>2. QED
      BY <2>2, <3>1 DEF NewReceiver, ReceiverType
  <2>4. m = [receivers |-> Append(rs, k), threads |-> [ts EXCEPT ![x] = n]]
    BY <1>4, <2>1, <2>2 DEF MakeFindThread
  <2>5. qs = Append(rs, k) /\ us = [ts EXCEPT ![x] = n] /\ m = [receivers |-> qs, threads |-> us]
    <3>1. PICK rq, tq : rq = Append(rs, k) /\ tq = [ts EXCEPT ![x] = n]
      OBVIOUS
    <3>2. m = [receivers |-> rq, threads |-> tq]
      BY <2>4, <3>1
    <3>3. m.receivers = rq /\ m.threads = tq
      BY <3>2
    <3>4. QED
      BY <3>1, <3>2, <3>3
  <2>6. /\ qs \in Seq(ReceiverType) /\ n \in Nat \ {0} /\ DOMAIN rs = 1 .. n - 1 /\ DOMAIN qs = 1 .. n
        /\ \A r \in DOMAIN rs : r \in DOMAIN qs /\ qs[r] = rs[r]
        /\ qs[n] = k
    <3>1. Append(rs, k) \in Seq(ReceiverType) /\ DOMAIN Append(rs, k) = 1 .. n /\ Append(rs, k)[n] = k
          /\ \A r \in DOMAIN rs : r \in DOMAIN Append(rs, k) /\ Append(rs, k)[r] = rs[r]
      BY <1>1, <2>1, <2>3, Longer
    <3>2. n \in Nat \ {0} /\ DOMAIN rs = 1 .. n - 1
      BY <1>2, <2>1
    <3>3. QED
      BY <2>5, <3>1, <3>2
  <2>7. us \in [Threads -> Nat] /\ us[x] = n /\ \A y \in Threads : y # x => us[y] = ts[y]
    BY <1>1, <2>5, <2>6
  <2>8. Placing(qs, us)
    <3>1. ASSUME NEW y \in Threads, us[y] # 0 PROVE us[y] \in DOMAIN qs /\ qs[us[y]].thread = y
      <4>1. CASE y = x
        BY <2>3, <2>6, <2>7, <4>1
      <4>2. CASE y # x
        BY <2>6, <2>7, <3>1, <4>2 DEF Placing
      <4>3. QED
        BY <4>1, <4>2
    <3>2. QED
      BY <2>6, <2>7, <3>1 DEF Placing
  <2>9. \A r \in DOMAIN qs : r \in DOMAIN rs \/ qs[r].posted = <<>>
    BY <2>3, <2>6
  <2>10. n \notin DOMAIN rs
    BY <2>6
  <2>11. QED
    BY <1>2, <1>4, <2>5, <2>6, <2>7, <2>8, <2>9, <2>10 DEF Extends
<1>5. QED
  BY <1>3, <1>4

\* Two threads are found, or made.
LEMMA FindsThreads ==
  ASSUME NEW rs, NEW ts, Placing(rs, ts), NEW x \in Threads, NEW t \in Threads, NEW qs, NEW us,
         NEW m, m = MakeFindThread(MakeFindThread([receivers |-> rs, threads |-> ts], x), t),
         qs = m.receivers, us = m.threads
  PROVE  Extends(rs, ts, qs, us) /\ us[x] # 0 /\ us[t] # 0
<1>1. PICK l : l = MakeFindThread([receivers |-> rs, threads |-> ts], x)
  OBVIOUS
<1>2. PICK ps, os : ps = l.receivers /\ os = l.threads
  OBVIOUS
<1>3. Extends(rs, ts, ps, os) /\ os[x] # 0 /\ l = [receivers |-> ps, threads |-> os]
  BY <1>1, <1>2, FindsThread
<1>4. m = MakeFindThread([receivers |-> ps, threads |-> os], t)
  BY <1>1, <1>3
<1>5. Extends(ps, os, qs, us) /\ us[t] # 0
  <2>1. Placing(ps, os)
    BY <1>3 DEF Extends
  <2>2. QED
    BY <1>4, <2>1, FindsThread
<1>6. us[x] # 0
  BY <1>3, <1>5 DEF Extends
<1>7. Placing(qs, us) /\ Len(rs) \in Nat /\ DOMAIN rs = 1 .. Len(rs)
  BY <1>3, <1>5 DEF Extends
<1>8. \A r \in DOMAIN rs : r \in DOMAIN qs /\ qs[r] = rs[r]
  BY <1>3, <1>5 DEF Extends
<1>9. \A r \in DOMAIN qs : r \in DOMAIN rs \/ qs[r].posted = <<>>
  BY <1>3, <1>5 DEF Extends
<1>10. \A y \in Threads : us[y] = ts[y] \/ us[y] \notin DOMAIN rs
  BY <1>3, <1>5 DEF Extends
<1>11. \A y \in Threads : ts[y] # 0 => us[y] = ts[y]
  BY <1>3, <1>5 DEF Extends
<1>12. QED
  BY <1>5, <1>6, <1>7, <1>8, <1>9, <1>10, <1>11 DEF Extends

\* Posting a call to another thread keeps the invariant.
LEMMA PostsCall ==
  ASSUME TransInv, NEW t \in Threads, NEW x \in Threads, NEW kind \in Kinds, CallFromThread(t, x, kind)
  PROVE  TransInv'
<1>1. StructInv /\ Types /\ OrderInv /\ StateInv /\ WakeInv
  BY DEF TransInv, StructInv
<1>2. PICK qs, us : \E m : /\ m = MakeFindThread(MakeFindThread([receivers |-> receivers, threads |-> threads], x), t)
                           /\ qs = m.receivers /\ us = m.threads
  OBVIOUS
<1>3. PICK r, s, n : r = us[x] /\ s = us[t] /\ n = Len(calls) + 1
  OBVIOUS
<1>4. PICK state : state = IF qs[s].sender_set THEN "cs_inprogress" ELSE "cs_canceled"
  OBVIOUS
<1>5. PICK k : k = NewCall(t, x, kind, r, s, state)
  OBVIOUS
<1>6. /\ Free(t) /\ threads' = us
      /\ receivers' = [qs EXCEPT ![r].posted = PostEvent(@, n)]
      /\ calls' = Append(calls, k)
      /\ stack' = Push(t, "wait", n, "notify")
      /\ UNCHANGED <<internals, finished>>
  BY <1>2, <1>3, <1>4, <1>5 DEF CallFromThread
<1>7. Extends(receivers, threads, qs, us) /\ r # 0 /\ s # 0
  <2>1. PICK rs, ts : rs = receivers /\ ts = threads
    OBVIOUS
  <2>2. Placing(rs, ts)
    BY <1>1, <2>1 DEF StructInv, Types, ReceiversFound, OfThread, Placing
  <2>3. PICK m : /\ m = MakeFindThread(MakeFindThread([receivers |-> rs, threads |-> ts], x), t)
                 /\ qs = m.receivers /\ us = m.threads
    BY <1>2, <2>1
  <2>4. Extends(rs, ts, qs, us) /\ us[x] # 0 /\ us[t] # 0
    BY <2>2, <2>3, FindsThreads
  <2>5. QED
    BY <1>3, <2>1, <2>4
<1>8. /\ qs \in Seq(ReceiverType) /\ us \in [Threads -> Nat]
      /\ \A y \in Threads : us[y] # 0 => us[y] \in DOMAIN qs /\ qs[us[y]].thread = y
      /\ \A q \in DOMAIN receivers : q \in DOMAIN qs /\ qs[q] = receivers[q]
      /\ \A q \in DOMAIN qs : q \in DOMAIN receivers \/ qs[q].posted = <<>>
      /\ \A y \in Threads : us[y] = threads[y] \/ us[y] \notin DOMAIN receivers
      /\ \A y \in Threads : threads[y] # 0 => us[y] = threads[y]
  BY <1>7 DEF Extends, Placing
<1>9. r \in DOMAIN qs /\ s \in DOMAIN qs /\ qs[r].thread = x /\ qs[s].thread = t /\ r \in Nat /\ s \in Nat
  BY <1>3, <1>7, <1>8
<1>10. x \in Threads \cup {DirectCallPseudoId} /\ x # DirectCallPseudoId
  BY TransthreadNames DEF DirectCallPseudoId
<1>11. CallIs(k, t, x, kind, r, s, state)
  <2>1. state \in CallStates
    BY <1>4 DEF CallStates
  <2>2. QED
    BY <1>5, <1>9, <1>10, <2>1, NewCallFields
<1>12. Len(calls) \in Nat /\ n \in Nat \ {0}
  BY <1>1, <1>3 DEF Types
<1>13. \A q \in DOMAIN qs : qs[q] \in ReceiverType /\ qs[q].posted \in Seq(Nat)
  <2>1. \A q \in DOMAIN qs : qs[q] \in ReceiverType
    BY <1>8
  <2>2. QED
    BY <2>1 DEF ReceiverType
<1>14. PICK p : p = Append(qs[r].posted, n)
  OBVIOUS
<1>15. /\ p \in Seq(Nat) /\ Len(qs[r].posted) \in Nat /\ DOMAIN qs[r].posted = 1 .. Len(qs[r].posted)
       /\ DOMAIN p = 1 .. Len(qs[r].posted) + 1
       /\ \A i \in DOMAIN qs[r].posted : i \in DOMAIN p /\ p[i] = qs[r].posted[i]
       /\ p[Len(qs[r].posted) + 1] = n
  <2>1. PICK o : o = qs[r].posted
    OBVIOUS
  <2>2. o \in Seq(Nat) /\ p = Append(o, n) /\ n \in Nat
    BY <1>9, <1>12, <1>13, <1>14, <2>1
  <2>3. /\ p \in Seq(Nat) /\ Len(o) \in Nat /\ DOMAIN o = 1 .. Len(o) /\ DOMAIN p = 1 .. Len(o) + 1
        /\ \A i \in DOMAIN o : i \in DOMAIN p /\ p[i] = o[i]
        /\ p[Len(o) + 1] = n
    BY <2>2, Longer
  <2>4. QED
    BY <2>1, <2>3
<1>16. /\ receivers' \in Seq(ReceiverType) /\ DOMAIN receivers' = DOMAIN qs
       /\ \A q \in DOMAIN qs : /\ receivers'[q].thread = qs[q].thread
                               /\ receivers'[q].sender_set = qs[q].sender_set
                               /\ receivers'[q].process_incoming_call = qs[q].process_incoming_call
                               /\ q # r => receivers'[q].posted = qs[q].posted
       /\ receivers'[r].posted = p
  <2>1. receivers' = [q \in DOMAIN qs |-> IF q = r THEN [qs[q] EXCEPT !.posted = p] ELSE qs[q]]
    BY <1>6, <1>9, <1>14 DEF PostEvent
  <2>2. ASSUME NEW q \in DOMAIN qs
        PROVE  /\ receivers'[q] \in ReceiverType
               /\ receivers'[q].thread = qs[q].thread
               /\ receivers'[q].sender_set = qs[q].sender_set
               /\ receivers'[q].process_incoming_call = qs[q].process_incoming_call
               /\ receivers'[q].posted = IF q = r THEN p ELSE qs[q].posted
    <3>1. CASE q = r
      <4>1. receivers'[q] = [qs[q] EXCEPT !.posted = p]
        BY <2>1, <3>1
      <4>2. QED
        BY <1>13, <1>15, <3>1, <4>1 DEF ReceiverType
    <3>2. CASE q # r
      <4>1. receivers'[q] = qs[q]
        BY <2>1, <3>2
      <4>2. QED
        BY <1>13, <3>2, <4>1
    <3>3. QED
      BY <3>1, <3>2
  <2>3. receivers' = [q \in DOMAIN qs |-> receivers'[q]]
    BY <2>1
  <2>4. receivers' \in Seq(ReceiverType) /\ DOMAIN receivers' = DOMAIN qs
    BY <1>8, <2>2, <2>3, SameLength
  <2>5. QED
    BY <1>9, <2>2, <2>4
<1>17. \A q \in DOMAIN receivers :
           /\ q \in DOMAIN receivers' /\ receivers'[q].thread = receivers[q].thread
           /\ receivers'[q].sender_set = receivers[q].sender_set
           /\ receivers'[q].process_incoming_call = receivers[q].process_incoming_call
           /\ q # r => receivers'[q].posted = receivers[q].posted
  BY <1>8, <1>16
<1>18. /\ calls' \in Seq(CallType) /\ DOMAIN calls = 1 .. n - 1 /\ DOMAIN calls' = 1 .. n
       /\ \A c \in DOMAIN calls : c \in DOMAIN calls' /\ calls'[c] = calls[c]
       /\ calls'[n] = k
       /\ Grows
  <2>1. k \in CallType
    BY <1>11 DEF CallIs
  <2>2. DOMAIN receivers \subseteq DOMAIN receivers'
    BY <1>17
  <2>3. QED
    BY <1>1, <1>3, <1>6, <1>17, <2>1, <2>2, CallAdded
<1>19. PICK f : f = [kind |-> "wait", call |-> n, at |-> "notify", recv |-> 0]
  OBVIOUS
<1>20. f.kind = "wait" /\ f.call = n /\ f.at = "notify" /\ f.recv = 0
  BY <1>19
<1>21. PushedOn(stack', t, f)
  <2>1. n \in Nat /\ "wait" \in {"add", "run", "wait"} /\ "notify" \in Threads \cup Places
    BY <1>12 DEF Places
  <2>2. PushedOn(Push(t, "wait", n, "notify"), t, [kind |-> "wait", call |-> n, at |-> "notify", recv |-> 0])
    BY <1>1, <2>1, Pushes
  <2>3. QED
    BY <1>6, <1>19, <2>2
<1>22. Top(t).at # "asleep" /\ Top(t).at # "notify"
  BY <1>1, <1>6, FreeAwake
<1>23. /\ (\A m : m = Len(stack[t]) + 1 => FrameRight(t, m)') => FramesStay
       /\ \A u \in Threads : \A i \in DOMAIN stack'[u] :
              (OldFrame(u, i) /\ stack'[u][i].recv = stack[u][i].recv) \/ (u = t /\ i = Len(stack[t]) + 1)
       /\ \A u \in Threads : u # t => Undisturbed(u)
       /\ Top(t)' = f
       /\ \A u \in Threads : \A b, c : InFrame(u, b, c) => InFrame(u, b, c)'
       /\ \A q \in DOMAIN receivers : receivers'[q].thread = receivers[q].thread /\ Holds(q) => Holds(q)'
  BY <1>1, <1>21, <1>22, PushStep
<1>24. stack'[t][Len(stack[t]) + 1] = f /\ Len(stack[t]) + 1 \in DOMAIN stack'[t]
  <2>1. Len(stack[t]) \in Nat
    BY <1>1, StackLengths DEF Lengths
  <2>2. QED
    BY <1>21, <2>1 DEF PushedOn
<1>25. k.from = t /\ k.to = x /\ k.recv = r /\ k.sync = s /\ k.state = state /\ k.ran = FALSE /\ k.result = "none"
  BY <1>11 DEF CallIs
<1>26. \A u \in Threads : \A i \in DOMAIN stack'[u] : stack'[u][i].kind = "run" => OldFrame(u, i)
  BY <1>20, <1>23, <1>24
<1>27. \A c \in DOMAIN calls : c # n /\ c < n /\ calls[c].from \in Threads /\ calls[c].recv \in Nat
  BY <1>1, <1>12, <1>18, Elements DEF CallType
<1>28. StructInv'
  <2>1. Types'
    BY <1>1, <1>6, <1>8, <1>16, <1>18, <1>21 DEF Types, PushedOn
  <2>2. \A y \in Threads : threads'[y] # 0 => OfThread(threads[y], y)'
    BY <1>6, <1>8, <1>16 DEF OfThread
  <2>3. \A c : c \in DOMAIN calls' /\ c \notin DOMAIN calls => CallRefers(calls[c])'
    <3>1. \A c : c \in DOMAIN calls' /\ c \notin DOMAIN calls => calls'[c] = k
      BY <1>12, <1>18
    <3>2. QED
      BY <1>9, <1>10, <1>16, <1>25, <3>1 DEF CallRefers, OfThread
  <2>4. WaitFrame(t, f)'
    BY <1>10, <1>12, <1>18, <1>20, <1>25 DEF WaitFrame, Places
  <2>5. FramesStay
    BY <1>20, <1>23, <1>24, <2>4 DEF FrameRight, AddFrame, RunFrame
  <2>6. QED
    BY <1>1, <1>18, <2>1, <2>2, <2>3, <2>5, StructKeeps
<1>29. ASSUME NEW q \in DOMAIN receivers', NEW i \in DOMAIN receivers'[q].posted
       PROVE  \/ /\ q \in DOMAIN receivers /\ i \in DOMAIN receivers[q].posted
                 /\ receivers'[q].posted[i] = receivers[q].posted[i]
              \/ q = r /\ i = Len(qs[r].posted) + 1 /\ receivers'[q].posted[i] = n
  <2>1. CASE q = r
    <3>1. CASE i = Len(qs[r].posted) + 1
      BY <1>15, <1>16, <2>1, <3>1
    <3>2. CASE i # Len(qs[r].posted) + 1
      <4>1. i \in DOMAIN qs[r].posted /\ receivers'[q].posted[i] = qs[r].posted[i]
        <5>1. receivers'[q].posted = p /\ i \in 1 .. Len(qs[r].posted) + 1
          BY <1>15, <1>16, <1>29, <2>1
        <5>2. i \in DOMAIN qs[r].posted
          BY <1>15, <3>2, <5>1
        <5>3. QED
          BY <1>15, <5>1, <5>2
      <4>2. r \in DOMAIN receivers
        BY <1>8, <1>9, <4>1
      <4>3. QED
        BY <1>8, <2>1, <4>1, <4>2
    <3>3. QED
      BY <3>1, <3>2
  <2>2. CASE q # r
    <3>1. i \in DOMAIN qs[q].posted /\ receivers'[q].posted = qs[q].posted /\ q \in DOMAIN qs
      BY <1>16, <1>29, <2>2
    <3>2. q \in DOMAIN receivers
      BY <1>8, <3>1
    <3>3. QED
      BY <1>8, <3>1, <3>2
  <2>3. QED
    BY <2>1, <2>2
<1>30. OrderInv'
  <2>1. PostedRight'
    <3>1. ASSUME NEW q \in DOMAIN receivers', NEW i \in DOMAIN receivers'[q].posted,
                 NEW c, c = receivers'[q].posted[i]
          PROVE  c \in DOMAIN calls' /\ calls'[c].recv = q /\ ~calls'[c].ran
      <4>1. CASE q \in DOMAIN receivers /\ i \in DOMAIN receivers[q].posted /\ c = receivers[q].posted[i]
        <5>1. c \in DOMAIN calls /\ calls[c].recv = q /\ ~calls[c].ran
          BY <1>1, <4>1 DEF OrderInv, PostedRight
        <5>2. QED
          BY <1>18, <5>1
      <4>2. CASE q = r /\ c = n
        BY <1>12, <1>18, <1>25, <4>2
      <4>3. QED
        BY <1>29, <3>1, <4>1, <4>2
    <3>2. QED
      BY <3>1 DEF PostedRight
  <2>2. PostedSorted'
    <3>1. ASSUME NEW q \in DOMAIN receivers', NEW i \in DOMAIN receivers'[q].posted, NEW j \in DOMAIN receivers'[q].posted,
                 i < j
          PROVE  receivers'[q].posted[i] < receivers'[q].posted[j]
      <4>1. /\ q \in DOMAIN receivers /\ i \in DOMAIN receivers[q].posted
            /\ receivers'[q].posted[i] = receivers[q].posted[i]
        <5>1. CASE q = r /\ i = Len(qs[r].posted) + 1
          <6>1. j \in 1 .. Len(qs[r].posted) + 1 /\ Len(qs[r].posted) \in Nat
            BY <1>15, <1>16, <3>1, <5>1
          <6>2. FALSE
            BY <3>1, <5>1, <6>1
          <6>3. QED
            BY <6>2
        <5>2. QED
          BY <1>29, <5>1
      <4>2. receivers[q].posted[i] \in DOMAIN calls
        BY <1>1, <4>1 DEF OrderInv, PostedRight
      <4>3. CASE j \in DOMAIN receivers[q].posted /\ receivers'[q].posted[j] = receivers[q].posted[j]
        BY <1>1, <3>1, <4>1, <4>3 DEF OrderInv, PostedSorted
      <4>4. CASE receivers'[q].posted[j] = n
        BY <1>27, <4>1, <4>2, <4>4
      <4>5. QED
        BY <1>29, <4>3, <4>4
    <3>2. QED
      BY <3>1 DEF PostedSorted
  <2>3. RunsOnce'
    BY <1>1, <1>26 DEF OrderInv, RunsOnce, OldFrame
  <2>4. \A q \in DOMAIN receivers : Retired(q) => Retired(q)'
    <3>1. ASSUME NEW q \in DOMAIN receivers, Retired(q) PROVE Retired(q)'
      <4>1. \A y \in Threads : us[y] # q
        BY <1>8, <3>1 DEF Retired
      <4>2. q # r
        BY <1>3, <4>1
      <4>3. QED
        BY <1>6, <1>17, <3>1, <4>1, <4>2 DEF Retired
    <3>2. QED
      BY <3>1
  <2>5. NoneSkipped'
    <3>1. ASSUME NEW c \in DOMAIN calls, NEW q, q = calls[c].recv, q # 0, ~calls[c].ran
          PROVE  PostedTo(c, q)' \/ Retired(q)'
      <4>1. q \in DOMAIN receivers
        BY <1>1, <3>1 DEF StructInv, CallsRefer, CallRefers, OfThread
      <4>2. PostedTo(c, q) \/ Retired(q)
        BY <1>1, <3>1 DEF OrderInv, NoneSkipped
      <4>3. ASSUME PostedTo(c, q) PROVE PostedTo(c, q)'
        <5>1. PICK i \in DOMAIN receivers[q].posted : receivers[q].posted[i] = c
          BY <4>3 DEF PostedTo
        <5>2. i \in DOMAIN receivers'[q].posted /\ receivers'[q].posted[i] = c
          <6>1. CASE q = r
            <7>1. qs[r].posted = receivers[q].posted
              BY <1>8, <4>1, <6>1
            <7>2. QED
              BY <1>15, <1>16, <5>1, <6>1, <7>1
          <6>2. CASE q # r
            BY <1>17, <4>1, <5>1, <6>2
          <6>3. QED
            BY <6>1, <6>2
        <5>3. QED
          BY <5>2 DEF PostedTo
      <4>4. QED
        BY <2>4, <4>1, <4>2, <4>3
    <3>2. PostedTo(n, r)'
      <4>1. Len(qs[r].posted) + 1 \in DOMAIN p /\ p[Len(qs[r].posted) + 1] = n
        BY <1>15
      <4>2. QED
        BY <1>16, <4>1 DEF PostedTo
    <3>3. ASSUME NEW c \in DOMAIN calls', calls'[c].recv # 0, ~calls'[c].ran
          PROVE  PostedTo(c, calls[c].recv)' \/ Retired(calls[c].recv)'
      <4>1. CASE c = n
        BY <1>18, <1>25, <3>2, <4>1
      <4>2. CASE c # n
        <5>1. c \in DOMAIN calls /\ calls'[c] = calls[c]
          BY <1>12, <1>18, <4>2
        <5>2. QED
          BY <3>1, <3>3, <5>1
      <4>3. QED
        BY <4>1, <4>2
    <3>4. QED
      BY <3>3 DEF NoneSkipped
  <2>6. RunInOrder'
    <3>1. \A c \in DOMAIN calls' : c = n \/ (c \in DOMAIN calls /\ calls'[c] = calls[c])
      BY <1>12, <1>18
    <3>2. ASSUME NEW c \in DOMAIN calls', NEW d \in DOMAIN calls', c < d, calls'[c].recv = calls'[d].recv,
                 calls'[d].recv # 0, calls'[d].ran
          PROVE  calls'[c].ran
      <4>1. d \in DOMAIN calls /\ calls'[d] = calls[d]
        BY <1>18, <1>25, <3>1, <3>2
      <4>2. c # n
        BY <1>12, <1>27, <3>2, <4>1
      <4>3. c \in DOMAIN calls /\ calls'[c] = calls[c]
        BY <3>1, <4>2
      <4>4. QED
        BY <1>1, <3>2, <4>1, <4>3 DEF OrderInv, RunInOrder
    <3>3. QED
      BY <3>2 DEF RunInOrder
  <2>7. QED
    BY <2>1, <2>2, <2>3, <2>5, <2>6 DEF OrderInv
<1>31. StateInv'
  <2>1. \A c \in DOMAIN calls : Live(c)' => Live(c)
    <3>1. ASSUME NEW c \in DOMAIN calls, NEW q, q = calls[c].recv, q # 0, PostedTo(c, q)' PROVE PostedTo(c, q)
      <4>1. q \in DOMAIN receivers
        BY <1>1, <3>1 DEF StructInv, CallsRefer, CallRefers, OfThread
      <4>2. PICK i \in DOMAIN receivers'[q].posted : receivers'[q].posted[i] = c
        BY <3>1 DEF PostedTo
      <4>3. i \in DOMAIN receivers[q].posted /\ receivers[q].posted[i] = c
        BY <1>17, <1>27, <1>29, <4>1, <4>2
      <4>4. QED
        BY <4>3 DEF PostedTo
    <3>2. \A u \in Threads : \A c : InFrame(u, "run", c)' => InFrame(u, "run", c)
      BY <1>26 DEF InFrame, OldFrame
    <3>3. QED
      BY <1>18, <3>1, <3>2 DEF Live
  <2>2. \A c \in DOMAIN calls : Waited(c) => Waited(c)'
    BY <1>18, <1>23, <1>27 DEF Waited
  <2>3. StateRight(n)'
    <3>1. ~Live(n)' \/ state \in {"cs_inprogress", "cs_canceled"}
      BY <1>4
    <3>2. Waited(n)'
      BY <1>18, <1>20, <1>24, <1>25 DEF Waited, InFrame
    <3>3. StateTrue(k, state)'
      BY <1>4, <1>9, <1>16, <1>25 DEF StateTrue
    <3>4. StateTrue(k, "none")'
      BY DEF StateTrue
    <3>5. QED
      BY <1>4, <1>18, <1>25, <3>1, <3>2, <3>3, <3>4 DEF StateRight
  <2>4. \A c : c \in DOMAIN calls' /\ c \notin DOMAIN calls => StateRight(c)'
    <3>1. \A c : c \in DOMAIN calls' /\ c \notin DOMAIN calls => c = n
      BY <1>12, <1>18
    <3>2. QED
      BY <2>3, <3>1
  <2>5. QED
    BY <1>1, <1>18, <2>1, <2>2, <2>4, StateKeeps
<1>32. WakeInv'
  <2>1. AsleepUntold'
    <3>1. ASSUME NEW u \in Threads, Top(u)'.at = "asleep"
          PROVE  LET c == Top(u).call
                 IN  /\ Top(u).at = "asleep" /\ Top(u)'.call = c
                     /\ calls'[c].state = calls[c].state /\ calls'[c].sync = calls[c].sync
                     /\ receivers'[calls[c].sync].process_incoming_call
                            => receivers[calls[c].sync].process_incoming_call
      <4>1. Top(u).at = "asleep" /\ Top(u)'.call = Top(u).call
        BY <1>20, <1>23, <3>1 DEF Undisturbed
      <4>2. PICK c : c = Top(u).call
        OBVIOUS
      <4>3. c \in DOMAIN calls /\ calls[c].sync \in DOMAIN receivers
        BY <1>1, <4>1, <4>2, AsleepFacts
      <4>4. QED
        BY <1>17, <1>18, <4>1, <4>2, <4>3
    <3>2. QED
      BY <1>1, <3>1, AsleepKeeps DEF WakeInv
  <2>2. \A q \in DOMAIN receivers : Holds(q) => Holds(q)'
    BY <1>17, <1>23
  <2>3. Notifying(n)'
    BY <1>18, <1>20, <1>23, <1>25 DEF Notifying
  <2>4. \A c \in DOMAIN calls : Notifying(c) => Notifying(c)'
    BY <1>18, <1>22, <1>23, <1>27 DEF Notifying, Undisturbed
  <2>5. EventsReached'
    <3>1. ASSUME NEW q \in DOMAIN receivers', receivers'[q].posted # <<>>
          PROVE  threads'[receivers'[q].thread] = q \/ Holds(q)'
      <4>1. CASE q = r
        BY <1>3, <1>6, <1>9, <1>16, <4>1
      <4>2. CASE q # r
        <5>1. q \in DOMAIN receivers /\ receivers'[q].posted = receivers[q].posted
          BY <1>8, <1>16, <1>17, <3>1, <4>2
        <5>2. threads[receivers[q].thread] = q \/ Holds(q)
          BY <1>1, <3>1, <5>1 DEF WakeInv, EventsReached
        <5>3. receivers[q].thread \in Threads /\ q # 0
          BY <1>1, <5>1, Elements DEF ReceiverType
        <5>4. QED
          BY <1>6, <1>8, <1>17, <2>2, <5>1, <5>2, <5>3
      <4>3. QED
        BY <4>1, <4>2
    <3>2. QED
      BY <3>1 DEF EventsReached
  <2>6. EventsTold'
    <3>1. ASSUME NEW q \in DOMAIN receivers', NEW i \in DOMAIN receivers'[q].posted,
                 NEW c, c = receivers'[q].posted[i]
          PROVE  receivers'[q].process_incoming_call \/ Notifying(c)' \/ Holds(q)'
      <4>1. CASE q \in DOMAIN receivers /\ i \in DOMAIN receivers[q].posted /\ c = receivers[q].posted[i]
        <5>1. c \in DOMAIN calls
          BY <1>1, <4>1 DEF OrderInv, PostedRight
        <5>2. receivers[q].process_incoming_call \/ Notifying(c) \/ Holds(q)
          BY <1>1, <4>1 DEF WakeInv, EventsTold
        <5>3. QED
          BY <1>17, <2>2, <2>4, <4>1, <5>1, <5>2
      <4>2. CASE c = n
        BY <2>3, <4>2
      <4>3. QED
        BY <1>29, <3>1, <4>1, <4>2
    <3>2. \A q \in DOMAIN receivers' : \A i \in DOMAIN receivers'[q].posted :
              receivers'[q].process_incoming_call \/ Notifying(receivers[q].posted[i])' \/ Holds(q)'
      <4>1. ASSUME NEW q \in DOMAIN receivers', NEW i \in DOMAIN receivers'[q].posted
            PROVE  receivers'[q].process_incoming_call \/ Notifying(receivers[q].posted[i])' \/ Holds(q)'
        <5>1. PICK c : c = receivers'[q].posted[i]
          OBVIOUS
        <5>2. receivers'[q].process_incoming_call \/ Notifying(c)' \/ Holds(q)'
          BY <3>1, <4>1, <5>1
        <5>3. QED
          BY <5>1, <5>2
      <4>2. QED
        BY <4>1
    <3>3. QED
      BY <3>2 DEF EventsTold
  <2>7. QED
    BY <2>1, <2>5, <2>6 DEF WakeInv
<1>33. QED
  BY <1>28, <1>30, <1>31, <1>32 DEF TransInv

-----------------------------------------------------------------------------
(* A receiver is told                                                      *)

\* Receivers d are those of now, but that r has been told, or has seen that.
TellsOnly(d, r, b) ==
    /\ d \in Seq(ReceiverType) /\ DOMAIN d = DOMAIN receivers
    /\ \A q \in DOMAIN receivers :
           /\ d[q].thread = receivers[q].thread /\ d[q].sender_set = receivers[q].sender_set
           /\ d[q].posted = receivers[q].posted
           /\ q # r => d[q].process_incoming_call = receivers[q].process_incoming_call
    /\ d[r].process_incoming_call = b

\* Setting process_incoming_call changes nothing else.
LEMMA Flagged ==
  ASSUME Types, NEW r \in DOMAIN receivers, NEW b \in BOOLEAN,
         NEW d, d = [receivers EXCEPT ![r].process_incoming_call = b]
  PROVE  TellsOnly(d, r, b)
<1>1. receivers \in Seq(ReceiverType) /\ \A q \in DOMAIN receivers : receivers[q] \in ReceiverType
  BY Elements DEF Types
<1>2. d = [q \in DOMAIN receivers |-> IF q = r THEN [receivers[q] EXCEPT !.process_incoming_call = b] ELSE receivers[q]]
  BY <1>1
<1>3. ASSUME NEW q \in DOMAIN receivers
      PROVE  /\ d[q] \in ReceiverType
             /\ d[q].thread = receivers[q].thread /\ d[q].sender_set = receivers[q].sender_set
             /\ d[q].posted = receivers[q].posted
             /\ q # r => d[q].process_incoming_call = receivers[q].process_incoming_call
             /\ q = r => d[q].process_incoming_call = b
  <2>1. CASE q = r
    <3>1. PICK k : k = receivers[q]
      OBVIOUS
    <3>2. k \in ReceiverType /\ d[q] = [k EXCEPT !.process_incoming_call = b]
      BY <1>1, <1>2, <2>1, <3>1
    <3>3. d[q] \in ReceiverType
      BY <3>2 DEF ReceiverType
    <3>4. d[q].thread = k.thread /\ d[q].sender_set = k.sender_set /\ d[q].posted = k.posted
          /\ d[q].process_incoming_call = b
      BY <3>2 DEF ReceiverType
    <3>5. QED
      BY <2>1, <3>1, <3>3, <3>4
  <2>2. CASE q # r
    <3>1. d[q] = receivers[q]
      BY <1>2, <2>2
    <3>2. QED
      BY <1>1, <2>2, <3>1
  <2>3. QED
    BY <2>1, <2>2
<1>4. d = [q \in DOMAIN receivers |-> d[q]]
  BY <1>2
<1>5. d \in Seq(ReceiverType) /\ DOMAIN d = DOMAIN receivers
  BY <1>1, <1>3, <1>4, SameLength
<1>6. QED
  BY <1>3, <1>5 DEF TellsOnly

\* A thread asleep after a wake-up was asleep before it.
LEMMA StillAsleep ==
  ASSUME NEW s \in [Threads -> Seq(FrameType)], NEW w, Wakes(s, w), NEW u \in Threads, NEW i \in DOMAIN w[u],
         w[u][i].at = "asleep"
  PROVE  w[u][i] = s[u][i]
<1>1. i \in DOMAIN s[u] /\ (w[u][i] = s[u][i] \/ w[u][i] = Woken(s[u][i]))
  BY DEF Wakes
<1>2. s[u][i] \in FrameType
  BY <1>1
<1>3. Woken(s[u][i]).at = "woken"
  BY <1>2 DEF Woken, FrameType
<1>4. QED
  BY <1>1, <1>3

\* The top of a stack that is not empty.
LEMMA TopNext ==
  ASSUME NEW u \in Threads, Types', Top(u)'.at = "asleep"
  PROVE  Len(stack'[u]) \in DOMAIN stack'[u] /\ Top(u)' = stack'[u][Len(stack'[u])]
<1>1. stack'[u] # <<>> /\ stack'[u] \in Seq(FrameType)
  BY DEF Top, Types
<1>2. QED
  BY <1>1 DEF Top

\* Telling the receiver of a posted call keeps the invariant.
LEMMA TellsReceiver ==
  ASSUME TransInv, NEW t \in Threads, ProcessIncomingCall(t)
  PROVE  TransInv'
<1>1. StructInv /\ Types /\ OrderInv /\ StateInv /\ WakeInv
  BY DEF TransInv, StructInv
<1>2. PICK c : c = Top(t).call
  OBVIOUS
<1>3. PICK r : r = calls[c].recv
  OBVIOUS
<1>4. PICK s : s = IF Waits(calls[c].kind) THEN At(stack, t, "looking") ELSE Pop(stack, t)
  OBVIOUS
<1>5. /\ Top(t).kind = "wait" /\ Top(t).at = "notify"
      /\ receivers' = [receivers EXCEPT ![r].process_incoming_call = TRUE]
      /\ stack' = Notify(s, r)
      /\ UNCHANGED <<internals, threads, calls, finished>>
  BY <1>2, <1>3, <1>4 DEF ProcessIncomingCall, FlagSet
<1>6. stack[t] # <<>> /\ Len(stack[t]) \in DOMAIN stack[t] /\ Top(t) = stack[t][Len(stack[t])] /\ Top(t) \in FrameType
      /\ Top(t).kind # "loop"
  BY <1>1, <1>5, TopFacts
<1>7. WaitFrame(t, Top(t)) /\ Top(t).recv = 0
  BY <1>1, <1>5, <1>6, FrameFacts
<1>8. c \in DOMAIN calls /\ r \in DOMAIN receivers
  <2>1. c \in DOMAIN calls /\ calls[c].to # DirectCallPseudoId
    BY <1>2, <1>5, <1>7 DEF WaitFrame
  <2>2. QED
    BY <1>1, <1>3, <2>1 DEF StructInv, CallsRefer, CallRefers, OfThread
<1>9. TellsOnly(receivers', r, TRUE)
  BY <1>1, <1>5, <1>8, Flagged
<1>10. /\ receivers' \in Seq(ReceiverType) /\ DOMAIN receivers' = DOMAIN receivers
       /\ \A q \in DOMAIN receivers :
              /\ receivers'[q].thread = receivers[q].thread /\ receivers'[q].sender_set = receivers[q].sender_set
              /\ receivers'[q].posted = receivers[q].posted
              /\ q # r => receivers'[q].process_incoming_call = receivers[q].process_incoming_call
       /\ receivers'[r].process_incoming_call = TRUE
  BY <1>9 DEF TellsOnly
<1>11. Grows
  BY <1>5, <1>10 DEF Grows, SameCall
<1>12. /\ s \in [Threads -> Seq(FrameType)]
       /\ stack' \in [Threads -> Seq(FrameType)]
       /\ Wakes(s, stack')
       /\ FramesStay
       /\ \A u \in Threads : \A i \in DOMAIN stack'[u] : OldFrame(u, i)
       /\ \A u \in Threads : u # t => Undisturbed(u)
       /\ Top(t)'.at # "asleep"
       /\ \A u \in Threads : \A k, e :
              InFrame(u, k, e) => InFrame(u, k, e)' \/ (u = t /\ k = "wait" /\ e = c /\ ~Waits(calls[c].kind))
       /\ \A q \in DOMAIN receivers : Holds(q) => Holds(q)' \/ (receivers[q].thread = t /\ Top(t).recv = q)
  <2>1. CASE Waits(calls[c].kind)
    <3>1. PICK f : f = Placed(t, "looking")
      OBVIOUS
    <3>2. TopSet(s, t, f)
      <4>1. "looking" \in Places
        BY DEF Places
      <4>2. TopSet(At(stack, t, "looking"), t, Placed(t, "looking"))
        BY <1>1, <1>6, <4>1, Sets
      <4>3. QED
        BY <1>4, <2>1, <3>1, <4>2
    <3>3. s \in [Threads -> Seq(FrameType)]
      BY <3>2 DEF TopSet
    <3>4. Wakes(s, stack')
      BY <1>5, <3>3, Notifies
    <3>5. f.kind = "wait" /\ f.call = Top(t).call /\ f.recv = 0 /\ f.at = "looking"
      BY <1>5, <1>6, <3>1 DEF Placed, FrameType
    <3>6. WaitFrame(t, f)'
      BY <1>2, <1>5, <1>7, <1>8, <3>5 DEF WaitFrame, Places
    <3>7. /\ stack' \in [Threads -> Seq(FrameType)]
          /\ FramesStay
          /\ \A u \in Threads : \A i \in DOMAIN stack'[u] :
                 OldFrame(u, i) /\ (stack'[u][i].recv = stack[u][i].recv \/ (u = t /\ i = Len(stack[t])))
          /\ \A u \in Threads : u # t => Undisturbed(u)
          /\ Top(t)' = f
          /\ \A u \in Threads : \A k, e : InFrame(u, k, e) => InFrame(u, k, e)'
          /\ \A q \in DOMAIN receivers :
                 Holds(q) => Holds(q)' \/ (receivers[q].thread = t /\ Top(t).recv = q)
      BY <1>1, <1>5, <1>6, <1>11, <3>2, <3>4, <3>5, <3>6, SetStep
    <3>8. QED
      BY <3>3, <3>4, <3>5, <3>7
  <2>2. CASE ~Waits(calls[c].kind)
    <3>1. PoppedFrom(s, t)
      BY <1>1, <1>4, <1>6, <2>2, Pops
    <3>2. s \in [Threads -> Seq(FrameType)]
      BY <3>1 DEF PoppedFrom
    <3>3. Wakes(s, stack')
      BY <1>5, <3>2, Notifies
    <3>4. /\ stack' \in [Threads -> Seq(FrameType)]
          /\ FramesStay
          /\ \A u \in Threads : \A i \in DOMAIN stack'[u] : OldFrame(u, i) /\ stack'[u][i].recv = stack[u][i].recv
          /\ \A u \in Threads : u # t => Undisturbed(u)
          /\ Top(t)'.at # "asleep"
          /\ \A u \in Threads : \A k, e :
                 InFrame(u, k, e) => InFrame(u, k, e)' \/ (u = t /\ k = Top(t).kind /\ e = Top(t).call)
          /\ \A q \in DOMAIN receivers : Holds(q) => Holds(q)' \/ (receivers[q].thread = t /\ Top(t).recv = q)
      BY <1>1, <1>6, <1>11, <3>1, <3>3, PopStep
    <3>5. QED
      BY <1>2, <1>5, <2>2, <3>2, <3>3, <3>4
  <2>3. QED
    BY <2>1, <2>2
<1>13. StructInv'
  <2>1. Types'
    BY <1>1, <1>5, <1>10, <1>12 DEF Types
  <2>2. QED
    BY <1>1, <1>5, <1>11, <1>12, <2>1, StructKeeps
<1>14. OrderInv'
  <2>1. \A q \in DOMAIN receivers : Retired(q) => Retired(q)'
    BY <1>5, <1>10 DEF Retired
  <2>2. QED
    BY <1>1, <1>5, <1>10, <1>11, <1>12, <2>1, OrderKeeps
<1>15. StateInv'
  <2>1. \A e \in DOMAIN calls : Live(e)' => Live(e)
    <3>1. ASSUME NEW e \in DOMAIN calls, calls[e].recv # 0, PostedTo(e, calls[e].recv)' PROVE PostedTo(e, calls[e].recv)
      <4>1. calls[e].recv \in DOMAIN receivers /\ calls'[e].recv = calls[e].recv
        BY <1>1, <1>5, <3>1 DEF StructInv, CallsRefer, CallRefers, OfThread
      <4>2. QED
        BY <1>10, <3>1, <4>1 DEF PostedTo
    <3>2. \A u \in Threads : \A i \in DOMAIN stack'[u] : OldFrame(u, i)
      BY <1>12
    <3>3. \A u \in Threads : \A e : InFrame(u, "run", e)' => InFrame(u, "run", e)
      BY <3>2 DEF InFrame, OldFrame
    <3>4. QED
      BY <1>5, <3>1, <3>3 DEF Live
  <2>2. \A e \in DOMAIN calls : Waits(calls[e].kind) /\ ~Ended(e) /\ Waited(e) => Waited(e)'
    <3>1. \A e \in DOMAIN calls : calls[e].from \in Threads
      BY <1>1, Elements DEF CallType
    <3>2. QED
      BY <1>5, <1>12, <3>1 DEF Waited
  <2>3. QED
    BY <1>1, <1>5, <1>11, <2>1, <2>2, StateKeeps
<1>16. WakeInv'
  <2>1. AsleepUntold'
    <3>1. ASSUME NEW u \in Threads, Top(u)'.at = "asleep"
          PROVE  LET e == Top(u).call
                 IN  /\ Top(u).at = "asleep" /\ Top(u)'.call = e
                     /\ calls'[e].state = calls[e].state /\ calls'[e].sync = calls[e].sync
                     /\ receivers'[calls[e].sync].process_incoming_call
                            => receivers[calls[e].sync].process_incoming_call
      <4>1. Top(u).at = "asleep" /\ Top(u)'.call = Top(u).call
        BY <1>12, <3>1 DEF Undisturbed
      <4>2. PICK e : e = Top(u).call
        OBVIOUS
      <4>3. e \in DOMAIN calls /\ calls[e].sync \in DOMAIN receivers
        BY <1>1, <4>1, <4>2, AsleepFacts
      <4>4. calls[e].sync # r
        <5>1. PICK n : n = Len(stack'[u])
          OBVIOUS
        <5>2. n \in DOMAIN stack'[u] /\ Top(u)' = stack'[u][n]
          BY <1>13, <3>1, <5>1, TopNext DEF StructInv
        <5>3. stack'[u][n] = s[u][n]
          <6>1. s \in [Threads -> Seq(FrameType)] /\ Wakes(s, stack')
            BY <1>12
          <6>2. stack'[u][n].at = "asleep"
            BY <3>1, <5>2
          <6>3. QED
            BY <5>2, <6>1, <6>2, StillAsleep
        <5>4. n = Len(s[u]) /\ s[u] # <<>>
          <6>1. Len(stack'[u]) = Len(s[u]) /\ DOMAIN stack'[u] = DOMAIN s[u]
            BY <1>12 DEF Wakes
          <6>2. QED
            BY <5>1, <5>2, <6>1
        <5>5. s[u][n].call = e /\ Notify(s, r)[u][n].at = "asleep"
          BY <1>5, <3>1, <4>1, <4>2, <5>2, <5>3
        <5>6. \A v \in Threads : s[v] # <<>> /\ calls[s[v][Len(s[v])].call].sync = r
                                     => Notify(s, r)[v][Len(s[v])].at # "asleep"
          BY <1>12, Notifies
        <5>7. QED
          BY <5>4, <5>5, <5>6
      <4>5. QED
        BY <1>5, <1>10, <4>1, <4>2, <4>3, <4>4
    <3>2. QED
      BY <1>1, <3>1, AsleepKeeps DEF WakeInv
  <2>2. \A e \in DOMAIN calls : Notifying(e) => Notifying(e)' \/ receivers'[calls[e].recv].process_incoming_call
    <3>1. \A e \in DOMAIN calls : calls[e].from \in Threads
      BY <1>1, Elements DEF CallType
    <3>2. QED
      BY <1>2, <1>3, <1>5, <1>10, <1>12, <3>1 DEF Notifying, Undisturbed
  <2>3. \A q \in DOMAIN receivers : Holds(q) => Holds(q)'
    <3>1. \A q \in DOMAIN receivers : q # 0
      BY <1>1, Elements
    <3>2. QED
      BY <1>7, <1>12, <3>1
  <2>4. ASSUME NEW q \in DOMAIN receivers, receivers[q].process_incoming_call
        PROVE  receivers'[q].process_incoming_call
    BY <1>10, <2>4
  <2>5. QED
    BY <1>1, <1>5, <1>10, <1>11, <2>1, <2>2, <2>3, <2>4, WakeKeeps
<1>17. QED
  BY <1>13, <1>14, <1>15, <1>16 DEF TransInv

-----------------------------------------------------------------------------
(* WaitProcessing                                                          *)

\* A thread that waits goes on to another place of the loop: it sleeps only if
\* it has not been told, and leaves no events of a receiver it was running.
LEMMA WaitGoesOn ==
  ASSUME TransInv, NEW t \in Threads, NEW at \in {"looking", "asleep", "woken", "processing"},
         NEW c, c = Top(t).call, NEW r, r = calls[c].sync,
         Top(t).kind = "wait", Top(t).at # "notify",
         stack' = At(stack, t, at), UNCHANGED <<internals, threads, calls, finished>>,
         \/ receivers' = receivers
         \/ at = "processing" /\ receivers' = [receivers EXCEPT ![r].process_incoming_call = FALSE],
         at = "asleep" => calls[c].state = "cs_inprogress" /\ ~receivers[r].process_incoming_call,
         Top(t).at = "processing" => ~HasEvents(Top(t).recv)
  PROVE  TransInv'
<1>1. StructInv /\ Types /\ OrderInv /\ StateInv /\ WakeInv
  BY DEF TransInv, StructInv
<1>2. stack[t] # <<>> /\ Len(stack[t]) \in DOMAIN stack[t] /\ Top(t) = stack[t][Len(stack[t])] /\ Top(t) \in FrameType
      /\ Top(t).kind # "loop"
  BY <1>1, TopFacts
<1>3. WaitFrame(t, Top(t))
  <2>1. PICK n : n = Len(stack[t])
    OBVIOUS
  <2>2. n \in DOMAIN stack[t] /\ Top(t) = stack[t][n]
    BY <1>2, <2>1
  <2>3. WaitFrame(t, stack[t][n])
    BY <1>1, <2>2, FrameFacts
  <2>4. QED
    BY <2>2, <2>3
<1>4. c \in DOMAIN calls /\ OfThread(r, t)
  <2>1. c \in DOMAIN calls /\ calls[c].to # DirectCallPseudoId /\ calls[c].from = t
    BY <1>3 DEF WaitFrame
  <2>2. QED
    BY <1>1, <2>1 DEF StructInv, CallsRefer, CallRefers
<1>5. /\ receivers' \in Seq(ReceiverType) /\ DOMAIN receivers' = DOMAIN receivers
      /\ \A q \in DOMAIN receivers :
             /\ receivers'[q].thread = receivers[q].thread /\ receivers'[q].sender_set = receivers[q].sender_set
             /\ receivers'[q].posted = receivers[q].posted
             /\ receivers'[q].process_incoming_call => receivers[q].process_incoming_call
             /\ \/ receivers'[q].process_incoming_call = receivers[q].process_incoming_call
                \/ at = "processing" /\ q = r
  <2>1. CASE receivers' = receivers
    BY <1>1, <2>1 DEF Types
  <2>2. CASE at = "processing" /\ receivers' = [receivers EXCEPT ![r].process_incoming_call = FALSE]
    <3>1. TellsOnly(receivers', r, FALSE)
      BY <1>1, <1>4, <2>2, Flagged DEF OfThread
    <3>2. QED
      BY <2>2, <3>1 DEF TellsOnly
  <2>3. QED
    BY <2>1, <2>2
<1>6. Grows
  BY <1>5 DEF Grows, SameCall
<1>7. PICK f : f = Placed(t, at)
  OBVIOUS
<1>8. TopSet(stack', t, f)
  <2>1. at \in Places
    BY DEF Places
  <2>2. QED
    BY <1>1, <1>2, <1>7, <2>1, Sets
<1>9. f.kind = "wait" /\ f.call = c /\ f.at = at /\ f.recv = IF at = "processing" THEN threads[t] ELSE 0
  BY <1>2, <1>7 DEF Placed, FrameType
<1>10. WaitFrame(t, f)'
  <2>1. f.recv # 0 => OfThread(f.recv, t)'
    <3>1. f.recv # 0 => f.recv \in DOMAIN receivers /\ receivers[f.recv].thread = t
      BY <1>1, <1>9 DEF StructInv, ReceiversFound, OfThread
    <3>2. QED
      BY <1>5, <3>1 DEF OfThread
  <2>2. QED
    BY <1>3, <1>4, <1>9, <2>1 DEF WaitFrame, Places
<1>11. Wakes(stack', stack')
  BY <1>8, WakesNone DEF TopSet
<1>12. /\ stack' \in [Threads -> Seq(FrameType)]
       /\ FramesStay
       /\ \A u \in Threads : \A i \in DOMAIN stack'[u] :
              OldFrame(u, i) /\ (stack'[u][i].recv = stack[u][i].recv \/ (u = t /\ i = Len(stack[t])))
       /\ \A u \in Threads : u # t => Undisturbed(u)
       /\ Top(t)' = f
       /\ \A u \in Threads : \A k, e : InFrame(u, k, e) => InFrame(u, k, e)'
       /\ \A q \in DOMAIN receivers :
              Holds(q) => Holds(q)' \/ (receivers[q].thread = t /\ Top(t).recv = q)
       /\ \A q \in DOMAIN receivers : receivers[q].thread = t /\ f.recv = q => Holds(q)'
  <2>1. PICK s : s = stack'
    OBVIOUS
  <2>2. TopSet(s, t, f) /\ Wakes(s, stack') /\ f.kind = "wait" /\ f.call = Top(t).call
    BY <1>8, <1>9, <1>11, <2>1
  <2>3. QED
    BY <1>1, <1>2, <1>6, <1>10, <2>1, <2>2, SetStep
<1>13. \A u \in Threads : \A i \in DOMAIN stack'[u] : OldFrame(u, i)
  BY <1>12
<1>14. StructInv'
  <2>1. Types'
    BY <1>1, <1>5, <1>12 DEF Types
  <2>2. QED
    BY <1>1, <1>6, <1>12, <2>1, StructKeeps
<1>15. OrderInv'
  <2>1. \A q \in DOMAIN receivers : Retired(q) => Retired(q)'
    BY <1>5 DEF Retired
  <2>2. QED
    BY <1>1, <1>5, <1>6, <1>13, <2>1, OrderKeeps
<1>16. StateInv'
  <2>1. \A e \in DOMAIN calls : Live(e)' => Live(e)
    <3>1. ASSUME NEW e \in DOMAIN calls, calls[e].recv # 0, PostedTo(e, calls[e].recv)' PROVE PostedTo(e, calls[e].recv)
      <4>1. calls[e].recv \in DOMAIN receivers /\ calls'[e].recv = calls[e].recv
        BY <1>1, <3>1 DEF StructInv, CallsRefer, CallRefers, OfThread
      <4>2. QED
        BY <1>5, <3>1, <4>1 DEF PostedTo
    <3>2. \A u \in Threads : \A e : InFrame(u, "run", e)' => InFrame(u, "run", e)
      BY <1>13 DEF InFrame, OldFrame
    <3>3. QED
      BY <3>1, <3>2 DEF Live
  <2>2. \A e \in DOMAIN calls : Waited(e) => Waited(e)'
    <3>1. \A e \in DOMAIN calls : calls[e].from \in Threads
      BY <1>1, Elements DEF CallType
    <3>2. QED
      BY <1>12, <3>1 DEF Waited
  <2>3. QED
    BY <1>1, <1>6, <2>1, <2>2, StateKeeps
<1>17. WakeInv'
  <2>1. AsleepUntold'
    <3>1. ASSUME NEW u \in Threads, Top(u)'.at = "asleep"
          PROVE  calls'[Top(u)'.call].state = "cs_inprogress"
                 /\ ~receivers'[calls'[Top(u)'.call].sync].process_incoming_call
      <4>1. CASE u = t
        <5>1. Top(u)'.call = c /\ at = "asleep"
          BY <1>9, <1>12, <3>1, <4>1
        <5>2. QED
          BY <5>1
      <4>2. CASE u # t
        <5>1. Top(u).at = "asleep" /\ Top(u)'.call = Top(u).call
          BY <1>12, <3>1, <4>2 DEF Undisturbed
        <5>2. PICK e : e = Top(u).call
          OBVIOUS
        <5>3. calls[e].sync \in DOMAIN receivers
          BY <1>1, <5>1, <5>2, AsleepFacts
        <5>4. calls[e].state = "cs_inprogress" /\ ~receivers[calls[e].sync].process_incoming_call
          BY <1>1, <5>1, <5>2 DEF WakeInv, AsleepUntold
        <5>5. QED
          BY <1>5, <5>1, <5>2, <5>3, <5>4
      <4>3. QED
        BY <4>1, <4>2
    <3>2. QED
      BY <3>1 DEF AsleepUntold
  <2>2. \A e \in DOMAIN calls : Notifying(e) => Notifying(e)'
    <3>1. \A e \in DOMAIN calls : calls[e].from \in Threads
      BY <1>1, Elements DEF CallType
    <3>2. QED
      BY <1>12, <3>1 DEF Notifying, Undisturbed
  <2>3. ASSUME NEW q \in DOMAIN receivers, receivers[q].posted # <<>>, Holds(q) PROVE Holds(q)'
    <3>1. ASSUME receivers[q].thread = t, Top(t).recv = q PROVE FALSE
      <4>1. q # 0
        BY <1>1, Elements
      <4>2. Top(t).at = "processing" /\ HasEvents(q)
        BY <1>3, <2>3, <3>1, <4>1 DEF WaitFrame, HasEvents
      <4>3. QED
        BY <3>1, <4>2
    <3>2. QED
      BY <1>12, <2>3, <3>1
  <2>4. ASSUME NEW q \in DOMAIN receivers, receivers[q].posted # <<>>, receivers[q].process_incoming_call
        PROVE  receivers'[q].process_incoming_call \/ Holds(q)'
    <3>1. CASE at = "processing" /\ q = r
      <4>1. receivers[q].thread = t
        BY <1>4, <3>1 DEF OfThread
      <4>2. threads[t] = q \/ Holds(q)
        BY <1>1, <2>4, <4>1 DEF WakeInv, EventsReached
      <4>3. QED
        BY <1>9, <1>12, <2>3, <2>4, <3>1, <4>1, <4>2
    <3>2. QED
      BY <1>5, <2>4, <3>1
  <2>5. QED
    BY <1>1, <1>5, <1>6, <2>1, <2>2, <2>3, <2>4, WakeKeeps
<1>18. QED
  BY <1>14, <1>15, <1>16, <1>17 DEF TransInv

\* A wait returns the state of a call that has ended.
LEMMA WaitReturns ==
  ASSUME TransInv, NEW t \in Threads, NEW c, c = Top(t).call,
         Top(t).kind = "wait", Top(t).at \in {"looking", "woken"}, Ended(c), Return(t, c),
         UNCHANGED <<internals, threads, finished>>
  PROVE  TransInv'
<1>1. StructInv /\ Types /\ OrderInv /\ StateInv /\ WakeInv
  BY DEF TransInv, StructInv
<1>2. stack[t] # <<>> /\ Len(stack[t]) \in DOMAIN stack[t] /\ Top(t) = stack[t][Len(stack[t])] /\ Top(t) \in FrameType
      /\ Top(t).kind # "loop"
  BY <1>1, TopFacts
<1>3. WaitFrame(t, Top(t)) /\ Top(t).recv \in Nat
  <2>1. PICK n : n = Len(stack[t])
    OBVIOUS
  <2>2. n \in DOMAIN stack[t] /\ Top(t) = stack[t][n]
    BY <1>2, <2>1
  <2>3. WaitFrame(t, stack[t][n]) /\ stack[t][n].recv \in Nat
    BY <1>1, <2>2, FrameFacts
  <2>4. QED
    BY <2>2, <2>3
<1>4. c \in DOMAIN calls /\ Top(t).recv = 0
  BY <1>3 DEF WaitFrame
<1>5. /\ stack' = Pop(stack, t) /\ receivers' = receivers
      /\ calls' = [calls EXCEPT ![c].result = calls[c].state]
  BY DEF Return
<1>6. /\ calls' \in Seq(CallType) /\ DOMAIN calls' = DOMAIN calls
      /\ \A e \in DOMAIN calls : /\ SameCall(e) /\ calls'[e].ran = calls[e].ran /\ calls'[e].state = calls[e].state
                                 /\ calls'[e].result = calls[e].result \/ (e = c /\ calls'[e].result = calls[e].state)
  <2>1. calls' = [e \in DOMAIN calls |-> IF e = c THEN [calls[e] EXCEPT !.result = calls[e].state] ELSE calls[e]]
    BY <1>4, <1>5
  <2>2. ASSUME NEW e \in DOMAIN calls
        PROVE  /\ calls'[e] \in CallType /\ SameCall(e) /\ calls'[e].ran = calls[e].ran
               /\ calls'[e].state = calls[e].state
               /\ calls'[e].result = calls[e].result \/ (e = c /\ calls'[e].result = calls[e].state)
    <3>1. calls[e] \in CallType
      BY <1>1, Elements
    <3>2. CASE e = c
      <4>1. PICK k, q : k = calls[e] /\ q = calls[e].state
        OBVIOUS
      <4>2. k \in CallType /\ q \in CallStates \cup {"none"} /\ calls'[e] = [k EXCEPT !.result = q]
        BY <2>1, <3>1, <3>2, <4>1 DEF CallType
      <4>3. calls'[e] \in CallType
        BY <4>2 DEF CallType
      <4>4. /\ calls'[e].from = k.from /\ calls'[e].to = k.to /\ calls'[e].kind = k.kind
            /\ calls'[e].recv = k.recv /\ calls'[e].sync = k.sync /\ calls'[e].state = k.state
            /\ calls'[e].ran = k.ran /\ calls'[e].result = q
        BY <4>2 DEF CallType
      <4>5. QED
        BY <3>2, <4>1, <4>3, <4>4 DEF SameCall
    <3>3. CASE e # c
      <4>1. calls'[e] = calls[e]
        BY <2>1, <3>3
      <4>2. QED
        BY <3>1, <4>1 DEF SameCall
    <3>4. QED
      BY <3>2, <3>3
  <2>3. calls' = [e \in DOMAIN calls |-> calls'[e]]
    BY <2>1
  <2>4. calls \in Seq(CallType)
    BY <1>1 DEF Types
  <2>5. calls' \in Seq(CallType) /\ DOMAIN calls' = DOMAIN calls
    BY <2>2, <2>3, <2>4, SameLength
  <2>6. QED
    BY <2>2, <2>5
<1>7. Grows
  BY <1>5, <1>6 DEF Grows
<1>8. PoppedFrom(stack', t)
  BY <1>1, <1>2, <1>5, Pops
<1>9. Wakes(stack', stack')
  BY <1>8, WakesNone DEF PoppedFrom
<1>10. /\ stack' \in [Threads -> Seq(FrameType)]
       /\ FramesStay
       /\ \A u \in Threads : \A i \in DOMAIN stack'[u] : OldFrame(u, i) /\ stack'[u][i].recv = stack[u][i].recv
       /\ \A u \in Threads : u # t => Undisturbed(u)
       /\ Top(t)'.at # "asleep"
       /\ \A u \in Threads : \A k, e :
              InFrame(u, k, e) => InFrame(u, k, e)' \/ (u = t /\ k = Top(t).kind /\ e = Top(t).call)
       /\ \A r \in DOMAIN receivers : Holds(r) => Holds(r)' \/ (receivers[r].thread = t /\ Top(t).recv = r)
  BY <1>1, <1>2, <1>7, <1>8, <1>9, PopStep
<1>11. \A u \in Threads : \A i \in DOMAIN stack'[u] : OldFrame(u, i)
  BY <1>10
<1>12. StructInv'
  <2>1. Types'
    BY <1>1, <1>5, <1>6, <1>10 DEF Types
  <2>2. QED
    BY <1>1, <1>6, <1>7, <1>10, <2>1, StructKeeps
<1>13. OrderInv'
  <2>1. \A q \in DOMAIN receivers : Retired(q) => Retired(q)'
    BY <1>5 DEF Retired
  <2>2. QED
    BY <1>1, <1>5, <1>6, <1>7, <1>11, <2>1, OrderKeeps
<1>14. StateInv'
  <2>1. \A e \in DOMAIN calls : Live(e)' => Live(e)
    <3>1. \A e \in DOMAIN calls : calls'[e].recv = calls[e].recv
      BY <1>6 DEF SameCall
    <3>2. \A u \in Threads : \A e : InFrame(u, "run", e)' => InFrame(u, "run", e)
      BY <1>11 DEF InFrame, OldFrame
    <3>3. \A e, q : PostedTo(e, q)' => PostedTo(e, q)
      BY <1>5 DEF PostedTo
    <3>4. QED
      BY <3>1, <3>2, <3>3 DEF Live
  <2>2. \A e \in DOMAIN calls : ~Ended(e) /\ Waited(e) => Waited(e)'
    <3>1. \A e \in DOMAIN calls : calls[e].from \in Threads /\ calls'[e].from = calls[e].from
      BY <1>1, <1>6, Elements DEF CallType, SameCall
    <3>2. QED
      BY <1>10, <3>1 DEF Waited
  <2>3. \A e \in DOMAIN calls : calls'[e].result = calls[e].result \/ (calls'[e].result = calls[e].state /\ Ended(e))
    BY <1>6
  <2>4. QED
    BY <1>1, <1>6, <1>7, <2>1, <2>2, <2>3, StateKeeps
<1>15. WakeInv'
  <2>1. AsleepUntold'
    <3>1. ASSUME NEW u \in Threads, Top(u)'.at = "asleep"
          PROVE  LET e == Top(u).call
                 IN  /\ Top(u).at = "asleep" /\ Top(u)'.call = e
                     /\ calls'[e].state = calls[e].state /\ calls'[e].sync = calls[e].sync
                     /\ receivers'[calls[e].sync].process_incoming_call
                            => receivers[calls[e].sync].process_incoming_call
      <4>1. Top(u).at = "asleep" /\ Top(u)'.call = Top(u).call
        BY <1>10, <3>1 DEF Undisturbed
      <4>2. PICK e : e = Top(u).call
        OBVIOUS
      <4>3. e \in DOMAIN calls
        BY <1>1, <4>1, <4>2, AsleepFacts
      <4>4. QED
        BY <1>5, <1>6, <4>1, <4>2, <4>3 DEF SameCall
    <3>2. QED
      BY <1>1, <3>1, AsleepKeeps DEF WakeInv
  <2>2. \A e \in DOMAIN calls : Notifying(e) => Notifying(e)'
    <3>1. \A e \in DOMAIN calls : calls[e].from \in Threads /\ calls'[e].from = calls[e].from
      BY <1>1, <1>6, Elements DEF CallType, SameCall
    <3>2. QED
      BY <1>10, <3>1 DEF Notifying, Undisturbed
  <2>3. \A q \in DOMAIN receivers : Holds(q) => Holds(q)'
    <3>1. \A q \in DOMAIN receivers : q # 0
      BY <1>1, Elements
    <3>2. QED
      BY <1>4, <1>10, <3>1
  <2>4. QED
    BY <1>1, <1>5, <1>7, <2>1, <2>2, <2>3, WakeKeeps
<1>16. QED
  BY <1>12, <1>13, <1>14, <1>15 DEF TransInv

\* A waiter looking at its call keeps the invariant.
LEMMA Looks ==
  ASSUME TransInv, NEW t \in Threads, Look(t)
  PROVE  TransInv'
<1>1. PICK c, r : c = Top(t).call /\ r = calls[c].sync
  OBVIOUS
<1>2. /\ Top(t).kind = "wait" /\ Top(t).at = "looking" /\ UNCHANGED <<internals, threads, finished>>
      /\ \/ Ended(c) /\ Return(t, c)
         \/ /\ ~Ended(c) /\ receivers[r].process_incoming_call
            /\ receivers' = [receivers EXCEPT ![r].process_incoming_call = FALSE]
            /\ stack' = At(stack, t, "processing") /\ UNCHANGED calls
         \/ /\ ~Ended(c) /\ ~receivers[r].process_incoming_call
            /\ stack' = At(stack, t, "asleep") /\ UNCHANGED <<receivers, calls>>
  BY <1>1 DEF Look
<1>3. CASE Ended(c) /\ Return(t, c)
  BY <1>1, <1>2, <1>3, WaitReturns
<1>4. CASE /\ receivers' = [receivers EXCEPT ![r].process_incoming_call = FALSE]
           /\ stack' = At(stack, t, "processing") /\ UNCHANGED calls
  <2>1. PICK at : at = "processing"
    OBVIOUS
  <2>2. at \in {"looking", "asleep", "woken", "processing"} /\ stack' = At(stack, t, at) /\ at # "asleep"
    BY <1>4, <2>1
  <2>3. UNCHANGED <<internals, threads, calls, finished>>
    BY <1>2, <1>4
  <2>4. QED
    BY <1>1, <1>2, <1>4, <2>1, <2>2, <2>3, WaitGoesOn
<1>5. CASE /\ ~Ended(c) /\ ~receivers[r].process_incoming_call
           /\ stack' = At(stack, t, "asleep") /\ UNCHANGED <<receivers, calls>>
  <2>1. PICK at : at = "asleep"
    OBVIOUS
  <2>2. at \in {"looking", "asleep", "woken", "processing"} /\ stack' = At(stack, t, at)
    BY <1>5, <2>1
  <2>3. UNCHANGED <<internals, threads, calls, finished>> /\ receivers' = receivers
    BY <1>2, <1>5
  <2>4. QED
    BY <1>1, <1>2, <1>5, <2>1, <2>2, <2>3, WaitGoesOn DEF Ended
<1>6. QED
  BY <1>2, <1>3, <1>4, <1>5

\* Waking from a wait keeps the invariant.
LEMMA WaitWakes ==
  ASSUME TransInv, NEW t \in Threads, Wake(t)
  PROVE  TransInv'
<1>1. PICK c, r : c = Top(t).call /\ r = calls[c].sync
  OBVIOUS
<1>2. /\ Top(t).kind = "wait" /\ Top(t).at = "woken" /\ UNCHANGED <<internals, threads, finished>>
      /\ \/ Ended(c) /\ Return(t, c)
         \/ ~Ended(c) /\ stack' = At(stack, t, "processing") /\ UNCHANGED <<receivers, calls>>
  BY <1>1 DEF Wake
<1>3. CASE Ended(c) /\ Return(t, c)
  BY <1>1, <1>2, <1>3, WaitReturns
<1>4. CASE stack' = At(stack, t, "processing") /\ UNCHANGED <<receivers, calls>>
  <2>1. PICK at : at = "processing"
    OBVIOUS
  <2>2. at \in {"looking", "asleep", "woken", "processing"} /\ stack' = At(stack, t, at) /\ at # "asleep"
    BY <1>4, <2>1
  <2>3. UNCHANGED <<internals, threads, calls, finished>> /\ receivers' = receivers
    BY <1>2, <1>4
  <2>4. QED
    BY <1>1, <1>2, <2>2, <2>3, WaitGoesOn
<1>5. QED
  BY <1>2, <1>3, <1>4

\* Waking without a reason keeps the invariant.
LEMMA WakesSpuriously ==
  ASSUME TransInv, NEW t \in Threads, SpuriousWakeup(t)
  PROVE  TransInv'
<1>1. PICK c, r, at : c = Top(t).call /\ r = calls[c].sync /\ at = "woken"
  OBVIOUS
<1>2. Top(t).kind = "wait" /\ Top(t).at = "asleep" /\ stack' = At(stack, t, at)
      /\ UNCHANGED <<internals, threads, calls, finished>> /\ receivers' = receivers
  BY <1>1 DEF SpuriousWakeup
<1>3. at \in {"looking", "asleep", "woken", "processing"} /\ at # "asleep"
  BY <1>1
<1>4. QED
  BY <1>1, <1>2, <1>3, WaitGoesOn

-----------------------------------------------------------------------------
(* A call is run                                                           *)

\* The call that was posted first is run by the thread of the receiver.
LEMMA Delivers ==
  ASSUME TransInv, NEW t \in Threads, NEW r \in DOMAIN receivers, receivers[r].thread = t, receivers[r].posted # <<>>,
         Top(t).at # "asleep", Top(t).at # "notify", Deliver(t, r)
  PROVE  TransInv'
<1>1. StructInv /\ Types /\ OrderInv /\ StateInv /\ WakeInv
  BY DEF TransInv, StructInv
<1>2. PICK p : p = receivers[r].posted
  OBVIOUS
<1>3. PICK c : c = Head(p)
  OBVIOUS
<1>4. PICK q : q = Tail(p)
  OBVIOUS
<1>5. /\ receivers' = [receivers EXCEPT ![r].posted = q]
      /\ calls' = [calls EXCEPT ![c].ran = TRUE]
      /\ stack' = Push(t, "run", c, "running")
      /\ UNCHANGED <<internals, threads, finished>>
  BY <1>2, <1>3, <1>4 DEF Deliver
<1>6. /\ Len(p) \in Nat \ {0} /\ DOMAIN p = 1 .. Len(p) /\ c = p[1] /\ 1 \in DOMAIN p
      /\ q \in Seq(Nat) /\ DOMAIN q = 1 .. Len(p) - 1 /\ \A i \in DOMAIN q : i + 1 \in DOMAIN p /\ q[i] = p[i + 1]
  <2>1. p \in Seq(Nat) /\ p # <<>>
    BY <1>1, <1>2, Elements
  <2>2. Len(p) \in Nat \ {0} /\ DOMAIN p = 1 .. Len(p)
    BY <2>1
  <2>3. q \in Seq(Nat) /\ DOMAIN q = 1 .. Len(p) - 1 /\ \A i \in DOMAIN q : q[i] = p[i + 1]
    <3>1. q \in Seq(Nat) /\ Len(q) = Len(p) - 1
      BY <1>4, <2>1
    <3>2. DOMAIN q = 1 .. Len(p) - 1
      BY <2>2, <3>1
    <3>3. \A i \in 1 .. Len(p) - 1 : q[i] = p[i + 1]
      BY <1>4, <2>1, <2>2
    <3>4. QED
      BY <3>1, <3>2, <3>3
  <2>4. \A i \in DOMAIN q : i + 1 \in DOMAIN p
    BY <2>2, <2>3
  <2>5. c = p[1] /\ 1 \in DOMAIN p
    BY <1>3, <2>1, <2>2
  <2>6. QED
    BY <2>2, <2>3, <2>4, <2>5
<1>7. \A i \in DOMAIN p : i \in Nat \ {0} /\ p[i] \in DOMAIN calls /\ calls[p[i]].recv = r /\ ~calls[p[i]].ran
  BY <1>1, <1>2, <1>6 DEF OrderInv, PostedRight
<1>8. c \in DOMAIN calls /\ calls[c].recv = r /\ ~calls[c].ran /\ r \in Nat \ {0} /\ c \in Nat
  BY <1>1, <1>6, <1>7, Elements
<1>9. calls[c].to = t
  BY <1>1, <1>8 DEF StructInv, CallsRefer, CallRefers, OfThread
<1>10. \A i \in DOMAIN p : i # 1 => c < p[i]
  <2>1. \A i, j \in DOMAIN p : i < j => p[i] < p[j]
    BY <1>1, <1>2 DEF OrderInv, PostedSorted
  <2>2. ASSUME NEW i \in DOMAIN p, i # 1 PROVE 1 < i
    BY <1>6, <2>2
  <2>3. QED
    BY <1>6, <2>1, <2>2
<1>11. /\ receivers' \in Seq(ReceiverType) /\ DOMAIN receivers' = DOMAIN receivers
       /\ \A s \in DOMAIN receivers :
              /\ receivers'[s].thread = receivers[s].thread /\ receivers'[s].sender_set = receivers[s].sender_set
              /\ receivers'[s].process_incoming_call = receivers[s].process_incoming_call
              /\ receivers'[s].posted = IF s = r THEN q ELSE receivers[s].posted
  <2>1. receivers' = [s \in DOMAIN receivers |-> IF s = r THEN [receivers[s] EXCEPT !.posted = q] ELSE receivers[s]]
    BY <1>5
  <2>2. ASSUME NEW s \in DOMAIN receivers
        PROVE  /\ receivers'[s] \in ReceiverType
               /\ receivers'[s].thread = receivers[s].thread /\ receivers'[s].sender_set = receivers[s].sender_set
               /\ receivers'[s].process_incoming_call = receivers[s].process_incoming_call
               /\ receivers'[s].posted = IF s = r THEN q ELSE receivers[s].posted
    <3>1. receivers[s] \in ReceiverType
      BY <1>1, Elements
    <3>2. CASE s = r
      <4>1. receivers'[s] = [receivers[s] EXCEPT !.posted = q]
        BY <2>1, <3>2
      <4>2. QED
        BY <1>6, <3>1, <3>2, <4>1 DEF ReceiverType
    <3>3. CASE s # r
      <4>1. receivers'[s] = receivers[s]
        BY <2>1, <3>3
      <4>2. QED
        BY <3>1, <3>3, <4>1
    <3>4. QED
      BY <3>2, <3>3
  <2>3. receivers' = [s \in DOMAIN receivers |-> receivers'[s]]
    BY <2>1
  <2>4. receivers \in Seq(ReceiverType)
    BY <1>1 DEF Types
  <2>5. receivers' \in Seq(ReceiverType) /\ DOMAIN receivers' = DOMAIN receivers
    BY <2>2, <2>3, <2>4, SameLength
  <2>6. QED
    BY <2>2, <2>5
<1>12. /\ calls' \in Seq(CallType) /\ DOMAIN calls' = DOMAIN calls
       /\ \A e \in DOMAIN calls : /\ SameCall(e) /\ calls'[e].state = calls[e].state
                                  /\ calls'[e].result = calls[e].result /\ (e # c => calls'[e].ran = calls[e].ran)
       /\ calls'[c].ran
  <2>1. calls' = [e \in DOMAIN calls |-> IF e = c THEN [calls[e] EXCEPT !.ran = TRUE] ELSE calls[e]]
    BY <1>5, <1>8
  <2>2. ASSUME NEW e \in DOMAIN calls
        PROVE  /\ calls'[e] \in CallType /\ SameCall(e) /\ calls'[e].state = calls[e].state
               /\ calls'[e].result = calls[e].result /\ (e # c => calls'[e].ran = calls[e].ran)
               /\ (e = c => calls'[e].ran)
    <3>1. calls[e] \in CallType
      BY <1>1, Elements
    <3>2. CASE e = c
      <4>1. PICK k : k = calls[e]
        OBVIOUS
      <4>2. k \in CallType /\ calls'[e] = [k EXCEPT !.ran = TRUE]
        BY <2>1, <3>1, <3>2, <4>1
      <4>3. calls'[e] \in CallType
        BY <4>2 DEF CallType
      <4>4. /\ calls'[e].from = k.from /\ calls'[e].to = k.to /\ calls'[e].kind = k.kind
            /\ calls'[e].recv = k.recv /\ calls'[e].sync = k.sync /\ calls'[e].state = k.state
            /\ calls'[e].ran = TRUE /\ calls'[e].result = k.result
        BY <4>2 DEF CallType
      <4>5. QED
        BY <3>2, <4>1, <4>3, <4>4 DEF SameCall
    <3>3. CASE e # c
      <4>1. calls'[e] = calls[e]
        BY <2>1, <3>3
      <4>2. QED
        BY <3>1, <3>3, <4>1 DEF SameCall
    <3>4. QED
      BY <3>2, <3>3
  <2>3. calls' = [e \in DOMAIN calls |-> calls'[e]]
    BY <2>1
  <2>4. calls \in Seq(CallType)
    BY <1>1 DEF Types
  <2>5. calls' \in Seq(CallType) /\ DOMAIN calls' = DOMAIN calls
    BY <2>2, <2>3, <2>4, SameLength
  <2>6. QED
    BY <1>8, <2>2, <2>5
<1>13. Grows
  BY <1>5, <1>11, <1>12 DEF Grows
<1>14. PICK f : f = [kind |-> "run", call |-> c, at |-> "running", recv |-> 0]
  OBVIOUS
<1>15. f.kind = "run" /\ f.call = c /\ f.at = "running" /\ f.recv = 0
  BY <1>14
<1>16. PushedOn(stack', t, f)
  <2>1. c \in Nat /\ "run" \in {"add", "run", "wait"} /\ "running" \in Threads \cup Places
    BY <1>8 DEF Places
  <2>2. PushedOn(Push(t, "run", c, "running"), t, [kind |-> "run", call |-> c, at |-> "running", recv |-> 0])
    BY <1>1, <2>1, Pushes
  <2>3. QED
    BY <1>5, <1>14, <2>2
<1>17. /\ (\A m : m = Len(stack[t]) + 1 => FrameRight(t, m)') => FramesStay
       /\ \A u \in Threads : \A i \in DOMAIN stack'[u] :
              (OldFrame(u, i) /\ stack'[u][i].recv = stack[u][i].recv) \/ (u = t /\ i = Len(stack[t]) + 1)
       /\ \A u \in Threads : u # t => Undisturbed(u)
       /\ Top(t)' = f
       /\ \A u \in Threads : \A b, e : InFrame(u, b, e) => InFrame(u, b, e)'
       /\ \A s \in DOMAIN receivers : receivers'[s].thread = receivers[s].thread /\ Holds(s) => Holds(s)'
  BY <1>1, <1>16, PushStep
<1>18. stack'[t][Len(stack[t]) + 1] = f
  BY <1>16 DEF PushedOn
<1>19. \A e \in DOMAIN calls : calls[e].from \in Threads /\ calls'[e].from = calls[e].from /\ calls'[e].recv = calls[e].recv
  BY <1>1, <1>12, Elements DEF CallType, SameCall
<1>20. StructInv'
  <2>1. Types'
    BY <1>1, <1>5, <1>11, <1>12, <1>16 DEF Types, PushedOn
  <2>2. RunFrame(t, f)'
    BY <1>8, <1>9, <1>12, <1>15 DEF RunFrame, SameCall
  <2>3. FramesStay
    BY <1>15, <1>17, <1>18, <2>2 DEF FrameRight, AddFrame, WaitFrame
  <2>4. QED
    BY <1>1, <1>5, <1>12, <1>13, <2>1, <2>3, StructKeeps
<1>21. OrderInv'
  <2>1. PostedRight'
    <3>1. ASSUME NEW s \in DOMAIN receivers, NEW i \in DOMAIN receivers'[s].posted, NEW e, e = receivers'[s].posted[i]
          PROVE  e \in DOMAIN calls /\ calls[e].recv = s /\ ~calls[e].ran /\ e # c
      <4>1. CASE s = r
        <5>1. i \in DOMAIN q /\ e = q[i]
          BY <1>11, <3>1, <4>1
        <5>2. i + 1 \in DOMAIN p /\ e = p[i + 1] /\ i + 1 # 1
          BY <1>6, <5>1
        <5>3. QED
          BY <1>7, <1>8, <1>10, <4>1, <5>2
      <4>2. CASE s # r
        <5>1. i \in DOMAIN receivers[s].posted /\ e = receivers[s].posted[i]
          BY <1>11, <3>1, <4>2
        <5>2. e \in DOMAIN calls /\ calls[e].recv = s /\ ~calls[e].ran
          BY <1>1, <5>1 DEF OrderInv, PostedRight
        <5>3. QED
          BY <1>8, <4>2, <5>2
      <4>3. QED
        BY <4>1, <4>2
    <3>2. QED
      BY <1>11, <1>12, <1>19, <3>1 DEF PostedRight
  <2>2. PostedSorted'
    <3>1. \A s \in DOMAIN receivers : \A i, j \in DOMAIN receivers[s].posted :
              i < j => receivers[s].posted[i] < receivers[s].posted[j]
      BY <1>1 DEF OrderInv, PostedSorted
    <3>2. \A i, j \in DOMAIN q : i < j => q[i] < q[j]
      <4>1. ASSUME NEW i \in DOMAIN q, NEW j \in DOMAIN q, i < j PROVE q[i] < q[j]
        <5>1. i + 1 \in DOMAIN p /\ j + 1 \in DOMAIN p /\ i + 1 < j + 1
          BY <1>6, <4>1
        <5>2. p[i + 1] < p[j + 1]
          BY <1>2, <3>1, <5>1
        <5>3. QED
          BY <1>6, <5>2
      <4>2. QED
        BY <4>1
    <3>3. QED
      BY <1>11, <3>1, <3>2 DEF PostedSorted
  <2>3. RunsOnce'
    <3>1. \A u \in Threads : \A i \in DOMAIN stack'[u] : stack'[u][i].kind = "run" =>
              (OldFrame(u, i) /\ stack'[u][i].call # c) \/ (u = t /\ i = Len(stack[t]) + 1 /\ stack'[u][i].call = c)
      <4>1. ASSUME NEW u \in Threads, NEW i \in DOMAIN stack'[u], stack'[u][i].kind = "run", OldFrame(u, i)
            PROVE  stack'[u][i].call # c
        <5>1. calls[stack'[u][i].call].ran
          BY <1>1, <4>1, FrameFacts DEF OldFrame, RunFrame
        <5>2. QED
          BY <1>8, <5>1
      <4>2. QED
        BY <1>15, <1>17, <1>18, <4>1
    <3>2. QED
      BY <1>1, <3>1 DEF OrderInv, RunsOnce, OldFrame
  <2>4. ASSUME NEW e \in DOMAIN calls, calls[e].recv = r, ~calls[e].ran
        PROVE  \E i \in DOMAIN p : p[i] = e
    <3>1. PostedTo(e, r) \/ Retired(r)
      BY <1>1, <1>8, <2>4 DEF OrderInv, NoneSkipped
    <3>2. QED
      BY <1>2, <3>1 DEF PostedTo, Retired
  <2>5. NoneSkipped'
    <3>1. ASSUME NEW e \in DOMAIN calls, NEW s, s = calls[e].recv, s # 0, ~calls'[e].ran
          PROVE  PostedTo(e, s)' \/ Retired(s)'
      <4>1. e # c /\ ~calls[e].ran /\ s \in DOMAIN receivers
        BY <1>1, <1>12, <3>1 DEF StructInv, CallsRefer, CallRefers, OfThread
      <4>2. CASE s = r
        <5>1. PICK i \in DOMAIN p : p[i] = e
          BY <2>4, <3>1, <4>1, <4>2
        <5>2. i # 1
          BY <1>6, <4>1, <5>1
        <5>3. i - 1 \in DOMAIN q /\ q[i - 1] = e
          <6>1. i - 1 \in DOMAIN q /\ (i - 1) + 1 = i
            BY <1>6, <5>2
          <6>2. QED
            BY <1>6, <5>1, <6>1
        <5>4. QED
          BY <1>11, <4>1, <4>2, <5>3 DEF PostedTo
      <4>3. CASE s # r
        <5>1. PostedTo(e, s) \/ Retired(s)
          BY <1>1, <3>1, <4>1 DEF OrderInv, NoneSkipped
        <5>2. QED
          BY <1>5, <1>11, <4>1, <4>3, <5>1 DEF PostedTo, Retired
      <4>4. QED
        BY <4>2, <4>3
    <3>2. QED
      BY <1>12, <1>19, <3>1 DEF NoneSkipped
  <2>6. RunInOrder'
    <3>1. ASSUME NEW e \in DOMAIN calls, NEW d \in DOMAIN calls, e < d, calls[e].recv = calls[d].recv,
                 calls[d].recv # 0, calls'[d].ran
          PROVE  calls'[e].ran
      <4>1. CASE d = c
        <5>1. ASSUME ~calls[e].ran PROVE FALSE
          <6>1. PICK i \in DOMAIN p : p[i] = e
            BY <1>8, <2>4, <3>1, <4>1, <5>1
          <6>2. i # 1 /\ e \in Nat
            BY <1>1, <1>6, <1>8, <3>1, <4>1, <6>1, Elements
          <6>3. c < e
            BY <1>10, <6>1, <6>2
          <6>4. QED
            BY <1>8, <3>1, <4>1, <6>2, <6>3
        <5>2. QED
          BY <1>12, <5>1 DEF SameCall
      <4>2. CASE d # c
        <5>1. calls[d].ran
          BY <1>12, <3>1, <4>2
        <5>2. calls[e].ran
          BY <1>1, <3>1, <5>1 DEF OrderInv, RunInOrder
        <5>3. QED
          BY <1>12, <5>2 DEF SameCall
      <4>3. QED
        BY <4>1, <4>2
    <3>2. QED
      BY <1>12, <1>19, <3>1 DEF RunInOrder
  <2>7. QED
    BY <2>1, <2>2, <2>3, <2>5, <2>6 DEF OrderInv
<1>22. \A e, s : s \in DOMAIN receivers /\ PostedTo(e, s)' => PostedTo(e, s)
  <2>1. ASSUME NEW s \in DOMAIN receivers, NEW i \in DOMAIN receivers'[s].posted
        PROVE  \E j \in DOMAIN receivers[s].posted : receivers[s].posted[j] = receivers'[s].posted[i]
    <3>1. CASE s = r
      <4>1. i \in DOMAIN q /\ receivers'[s].posted[i] = q[i]
        BY <1>11, <2>1, <3>1
      <4>2. i + 1 \in DOMAIN p /\ p[i + 1] = q[i]
        BY <1>6, <4>1
      <4>3. QED
        BY <1>2, <3>1, <4>1, <4>2
    <3>2. CASE s # r
      BY <1>11, <2>1, <3>2
    <3>3. QED
      BY <3>1, <3>2
  <2>2. QED
    BY <2>1 DEF PostedTo
<1>23. StateInv'
  <2>1. \A e \in DOMAIN calls : Live(e)' => Live(e)
    <3>1. Live(c)
      BY <1>2, <1>6, <1>8 DEF Live, PostedTo
    <3>2. ASSUME NEW e \in DOMAIN calls, e # c, NEW u \in Threads, InFrame(u, "run", e)' PROVE InFrame(u, "run", e)
      BY <1>15, <1>17, <1>18, <3>2 DEF InFrame, OldFrame
    <3>3. ASSUME NEW e \in DOMAIN calls, calls[e].recv # 0, PostedTo(e, calls[e].recv)' PROVE PostedTo(e, calls[e].recv)
      <4>1. PICK s : s = calls[e].recv
        OBVIOUS
      <4>2. s \in DOMAIN receivers /\ calls'[e].recv = s
        BY <1>1, <1>19, <3>3, <4>1 DEF StructInv, CallsRefer, CallRefers, OfThread
      <4>3. PostedTo(e, s)'
        BY <1>19, <3>3, <4>1, <4>2
      <4>4. QED
        BY <1>22, <4>1, <4>2, <4>3
    <3>4. QED
      BY <1>19, <3>1, <3>2, <3>3 DEF Live
  <2>2. \A e \in DOMAIN calls : Waited(e) => Waited(e)'
    BY <1>17, <1>19 DEF Waited
  <2>3. QED
    BY <1>1, <1>12, <1>13, <2>1, <2>2, StateKeeps
<1>24. WakeInv'
  <2>1. AsleepUntold'
    <3>1. ASSUME NEW u \in Threads, Top(u)'.at = "asleep"
          PROVE  LET e == Top(u).call
                 IN  /\ Top(u).at = "asleep" /\ Top(u)'.call = e
                     /\ calls'[e].state = calls[e].state /\ calls'[e].sync = calls[e].sync
                     /\ receivers'[calls[e].sync].process_incoming_call
                            => receivers[calls[e].sync].process_incoming_call
      <4>1. Top(u).at = "asleep" /\ Top(u)'.call = Top(u).call
        BY <1>15, <1>17, <3>1 DEF Undisturbed
      <4>2. PICK e : e = Top(u).call
        OBVIOUS
      <4>3. e \in DOMAIN calls /\ calls[e].sync \in DOMAIN receivers
        BY <1>1, <4>1, <4>2, AsleepFacts
      <4>4. QED
        BY <1>11, <1>12, <4>1, <4>2, <4>3 DEF SameCall
    <3>2. QED
      BY <1>1, <3>1, AsleepKeeps DEF WakeInv
  <2>2. \A e \in DOMAIN calls : Notifying(e) => Notifying(e)'
    BY <1>17, <1>19 DEF Notifying, Undisturbed
  <2>3. \A s \in DOMAIN receivers : Holds(s) => Holds(s)'
    BY <1>11, <1>17
  <2>4. EventsReached'
    <3>1. ASSUME NEW s \in DOMAIN receivers, receivers'[s].posted # <<>> PROVE receivers[s].posted # <<>>
      BY <1>11, <3>1
    <3>2. QED
      BY <1>1, <1>5, <1>11, <2>3, <3>1 DEF WakeInv, EventsReached
  <2>5. EventsTold'
    <3>1. ASSUME NEW s \in DOMAIN receivers, NEW i \in DOMAIN receivers'[s].posted, NEW e, e = receivers'[s].posted[i]
          PROVE  receivers'[s].process_incoming_call \/ Notifying(e)' \/ Holds(s)'
      <4>1. PostedTo(e, s)
        BY <1>22, <3>1 DEF PostedTo
      <4>2. PICK j \in DOMAIN receivers[s].posted : receivers[s].posted[j] = e
        BY <4>1 DEF PostedTo
      <4>3. e \in DOMAIN calls
        BY <1>1, <4>2 DEF OrderInv, PostedRight
      <4>4. receivers[s].process_incoming_call \/ Notifying(e) \/ Holds(s)
        BY <1>1, <4>2 DEF WakeInv, EventsTold
      <4>5. QED
        BY <1>11, <2>2, <2>3, <4>3, <4>4
    <3>2. ASSUME NEW s \in DOMAIN receivers', NEW i \in DOMAIN receivers'[s].posted
          PROVE  receivers'[s].process_incoming_call \/ Notifying(receivers[s].posted[i])' \/ Holds(s)'
      <4>1. PICK e : e = receivers'[s].posted[i]
        OBVIOUS
      <4>2. receivers'[s].process_incoming_call \/ Notifying(e)' \/ Holds(s)'
        BY <1>11, <3>1, <3>2, <4>1
      <4>3. QED
        BY <4>1, <4>2
    <3>3. QED
      BY <3>2 DEF EventsTold
  <2>6. QED
    BY <2>1, <2>4, <2>5 DEF WakeInv
<1>25. QED
  BY <1>20, <1>21, <1>23, <1>24 DEF TransInv

\* Taking a posted call keeps the invariant.
LEMMA ProcessesCalls ==
  ASSUME TransInv, NEW t \in Threads, ProcessCalls(t)
  PROVE  TransInv'
<1>1. StructInv /\ Types
  BY DEF TransInv, StructInv
<1>2. Top(t).kind = "wait" /\ Top(t).at = "processing"
  BY DEF ProcessCalls
<1>3. CASE HasEvents(Top(t).recv)
  <2>1. PICK r, n : r = Top(t).recv /\ n = Len(stack[t])
    OBVIOUS
  <2>2. n \in DOMAIN stack[t] /\ Top(t) = stack[t][n]
    BY <1>1, <1>2, <2>1, TopFacts
  <2>3. WaitFrame(t, Top(t))
    BY <1>1, <2>2, FrameFacts
  <2>4. r # 0 /\ receivers[r].posted # <<>>
    BY <1>3, <2>1 DEF HasEvents
  <2>5. r \in DOMAIN receivers /\ receivers[r].thread = t
    BY <1>2, <2>1, <2>3, <2>4 DEF WaitFrame, OfThread
  <2>6. Deliver(t, r)
    BY <1>3, <2>1 DEF ProcessCalls
  <2>7. QED
    BY <1>2, <2>4, <2>5, <2>6, Delivers
<1>4. CASE ~HasEvents(Top(t).recv)
  <2>1. PICK c, r, at : c = Top(t).call /\ r = calls[c].sync /\ at = "looking"
    OBVIOUS
  <2>2. stack' = At(stack, t, at) /\ UNCHANGED <<internals, threads, calls, finished>> /\ receivers' = receivers
    BY <1>4, <2>1 DEF ProcessCalls
  <2>3. at \in {"looking", "asleep", "woken", "processing"} /\ at # "asleep"
    BY <2>1
  <2>4. QED
    BY <1>2, <1>4, <2>1, <2>2, <2>3, WaitGoesOn
<1>5. QED
  BY <1>3, <1>4

\* One round of the event loop keeps the invariant.
LEMMA LoopsOnce ==
  ASSUME TransInv, NEW t \in Threads, EventLoop(t)
  PROVE  TransInv'
<1>1. StructInv
  BY DEF TransInv
<1>2. PICK r : r = threads[t]
  OBVIOUS
<1>3. r # 0 /\ receivers[r].posted # <<>> /\ Deliver(t, r) /\ Top(t).kind = "loop" /\ t \notin finished
  BY <1>2 DEF EventLoop
<1>4. r \in DOMAIN receivers /\ receivers[r].thread = t
  BY <1>1, <1>2, <1>3 DEF StructInv, ReceiversFound, OfThread
<1>5. Free(t)
  BY <1>3 DEF Free
<1>6. Top(t).at # "asleep" /\ Top(t).at # "notify"
  BY <1>1, <1>5, FreeAwake
<1>7. QED
  BY <1>3, <1>4, <1>6, Delivers

-----------------------------------------------------------------------------
(* Waiters are told                                                        *)

\* The state of the calls cs is set.
LEMMA SetsState ==
  ASSUME Types, NEW cs, NEW state \in CallStates, calls' = SetState(cs, state)
  PROVE  /\ calls' \in Seq(CallType) /\ DOMAIN calls' = DOMAIN calls
         /\ \A e \in DOMAIN calls : /\ SameCall(e) /\ calls'[e].ran = calls[e].ran
                                    /\ calls'[e].result = calls[e].result
                                    /\ e \in cs => calls'[e].state = state
                                    /\ e \notin cs => calls'[e].state = calls[e].state
<1>1. calls' = [e \in DOMAIN calls |-> IF e \in cs THEN [calls[e] EXCEPT !.state = state] ELSE calls[e]]
  BY DEF SetState
<1>2. ASSUME NEW e \in DOMAIN calls
      PROVE  /\ calls'[e] \in CallType /\ SameCall(e) /\ calls'[e].ran = calls[e].ran
             /\ calls'[e].result = calls[e].result
             /\ e \in cs => calls'[e].state = state
             /\ e \notin cs => calls'[e].state = calls[e].state
  <2>1. calls[e] \in CallType
    BY Elements
  <2>2. CASE e \in cs
    <3>1. PICK k : k = calls[e]
      OBVIOUS
    <3>2. k \in CallType /\ calls'[e] = [k EXCEPT !.state = state]
      BY <1>1, <2>1, <2>2, <3>1
    <3>3. calls'[e] \in CallType
      BY <3>2 DEF CallType
    <3>4. /\ calls'[e].from = k.from /\ calls'[e].to = k.to /\ calls'[e].kind = k.kind
          /\ calls'[e].recv = k.recv /\ calls'[e].sync = k.sync /\ calls'[e].state = state
          /\ calls'[e].ran = k.ran /\ calls'[e].result = k.result
      BY <3>2 DEF CallType
    <3>5. QED
      BY <2>2, <3>1, <3>3, <3>4 DEF SameCall
  <2>3. CASE e \notin cs
    <3>1. calls'[e] = calls[e]
      BY <1>1, <2>3
    <3>2. QED
      BY <2>1, <2>3, <3>1 DEF SameCall
  <2>4. QED
    BY <2>2, <2>3
<1>3. calls' = [e \in DOMAIN calls |-> calls'[e]]
  BY <1>1
<1>4. calls \in Seq(CallType)
  BY DEF Types
<1>5. calls' \in Seq(CallType) /\ DOMAIN calls' = DOMAIN calls
  BY <1>2, <1>3, <1>4, SameLength
<1>6. QED
  BY <1>2, <1>5

\* Nobody who waits for one of the calls cs is left asleep.
LEMMA NoneAsleep ==
  ASSUME NEW s \in [Threads -> Seq(FrameType)], NEW cs, stack' = NotifyAll(s, cs), Types',
         NEW u \in Threads, Top(u)'.at = "asleep"
  PROVE  Top(u)'.call \notin cs
<1>1. PICK n : n = Len(stack'[u])
  OBVIOUS
<1>2. n \in DOMAIN stack'[u] /\ Top(u)' = stack'[u][n]
  BY <1>1, TopNext
<1>3. Wakes(s, stack')
  BY NotifiesAll
<1>4. stack'[u][n] = s[u][n]
  <2>1. stack'[u][n].at = "asleep"
    BY <1>2
  <2>2. QED
    BY <1>2, <1>3, <2>1, StillAsleep
<1>5. n = Len(s[u]) /\ s[u] # <<>>
  <2>1. Len(stack'[u]) = Len(s[u]) /\ DOMAIN stack'[u] = DOMAIN s[u]
    BY <1>3 DEF Wakes
  <2>2. QED
    BY <1>1, <1>2, <2>1
<1>6. \A v \in Threads : s[v] # <<>> /\ s[v][Len(s[v])].call \in cs => NotifyAll(s, cs)[v][Len(s[v])].at # "asleep"
  BY NotifiesAll
<1>7. QED
  BY <1>2, <1>4, <1>5, <1>6

\* Those asleep go on waiting for calls whose state is not set.
LEMMA AsleepNotSet ==
  ASSUME StructInv, WakeInv, StructInv', NEW s \in [Threads -> Seq(FrameType)], NEW cs, stack' = NotifyAll(s, cs),
         \A u \in Threads : Undisturbed(u) \/ Top(u)'.at # "asleep",
         \A e \in DOMAIN calls : SameCall(e) /\ (e \notin cs => calls'[e].state = calls[e].state),
         \A r \in DOMAIN receivers :
             receivers'[r].process_incoming_call = receivers[r].process_incoming_call
  PROVE  AsleepUntold'
<1>1. ASSUME NEW u \in Threads, Top(u)'.at = "asleep"
      PROVE  LET e == Top(u).call
             IN  /\ Top(u).at = "asleep" /\ Top(u)'.call = e
                 /\ calls'[e].state = calls[e].state /\ calls'[e].sync = calls[e].sync
                 /\ receivers'[calls[e].sync].process_incoming_call
                        => receivers[calls[e].sync].process_incoming_call
  <2>1. Top(u).at = "asleep" /\ Top(u)'.call = Top(u).call
    BY <1>1 DEF Undisturbed
  <2>2. PICK e : e = Top(u).call
    OBVIOUS
  <2>3. e \in DOMAIN calls /\ calls[e].sync \in DOMAIN receivers
    BY <2>1, <2>2, AsleepFacts
  <2>4. Types'
    BY DEF StructInv
  <2>5. e \notin cs
    BY <1>1, <2>1, <2>2, <2>4, NoneAsleep
  <2>6. QED
    BY <2>1, <2>2, <2>3, <2>5 DEF SameCall
<1>2. QED
  BY <1>1, AsleepKeeps DEF WakeInv

\* The end of a call keeps the invariant.
LEMMA EndsCall ==
  ASSUME TransInv, NEW t \in Threads, CallDone(t)
  PROVE  TransInv'
<1>1. StructInv /\ Types /\ OrderInv /\ StateInv /\ WakeInv
  BY DEF TransInv, StructInv
<1>2. PICK c : c = Top(t).call
  OBVIOUS
<1>3. PICK told : told = IF calls[c].to = DirectCallPseudoId THEN {} ELSE {c}
  OBVIOUS
<1>4. PICK s : s = Pop(stack, t)
  OBVIOUS
<1>5. /\ Top(t).kind = "run"
      /\ calls' = SetState(told, "cs_done")
      /\ stack' = NotifyAll(s, told)
      /\ UNCHANGED <<internals, threads, receivers, finished>>
  BY <1>2, <1>3, <1>4 DEF CallDone
<1>6. stack[t] # <<>> /\ Len(stack[t]) \in DOMAIN stack[t] /\ Top(t) = stack[t][Len(stack[t])] /\ Top(t).kind # "loop"
  BY <1>1, <1>5, TopFacts
<1>7. PICK n : n = Len(stack[t])
  OBVIOUS
<1>8. n \in DOMAIN stack[t] /\ Top(t) = stack[t][n]
  BY <1>6, <1>7
<1>9. RunFrame(t, Top(t))
  BY <1>1, <1>8, FrameFacts
<1>10. c \in DOMAIN calls /\ calls[c].ran /\ Top(t).recv = 0 /\ Top(t).at = "running"
  BY <1>2, <1>5, <1>9 DEF RunFrame
<1>11. /\ calls' \in Seq(CallType) /\ DOMAIN calls' = DOMAIN calls
       /\ \A e \in DOMAIN calls : /\ SameCall(e) /\ calls'[e].ran = calls[e].ran
                                  /\ calls'[e].result = calls[e].result
                                  /\ e \in told => calls'[e].state = "cs_done"
                                  /\ e \notin told => calls'[e].state = calls[e].state
  <2>1. PICK state : state = "cs_done"
    OBVIOUS
  <2>2. state \in CallStates /\ calls' = SetState(told, state)
    BY <1>5, <2>1 DEF CallStates
  <2>3. QED
    BY <1>1, <2>1, <2>2, SetsState
<1>12. Grows
  BY <1>5, <1>11 DEF Grows
<1>13. PoppedFrom(s, t) /\ s \in [Threads -> Seq(FrameType)]
  BY <1>1, <1>4, <1>6, Pops DEF PoppedFrom
<1>14. Wakes(s, stack')
  BY <1>5, <1>13, NotifiesAll
<1>15. /\ stack' \in [Threads -> Seq(FrameType)]
       /\ FramesStay
       /\ \A u \in Threads : \A i \in DOMAIN stack'[u] : OldFrame(u, i) /\ stack'[u][i].recv = stack[u][i].recv
       /\ \A u \in Threads : u # t => Undisturbed(u)
       /\ Top(t)'.at # "asleep"
       /\ \A u \in Threads : \A k, e :
              InFrame(u, k, e) => InFrame(u, k, e)' \/ (u = t /\ k = Top(t).kind /\ e = Top(t).call)
       /\ \A r \in DOMAIN receivers : Holds(r) => Holds(r)' \/ (receivers[r].thread = t /\ Top(t).recv = r)
  BY <1>1, <1>6, <1>12, <1>13, <1>14, PopStep
<1>16. \A u \in Threads : \A i \in DOMAIN stack'[u] : OldFrame(u, i)
  BY <1>15
<1>17. StructInv'
  <2>1. Types'
    BY <1>1, <1>5, <1>11, <1>15 DEF Types
  <2>2. QED
    BY <1>1, <1>5, <1>11, <1>12, <1>15, <2>1, StructKeeps
<1>18. OrderInv'
  <2>1. \A r \in DOMAIN receivers : Retired(r) => Retired(r)'
    BY <1>5 DEF Retired
  <2>2. QED
    BY <1>1, <1>5, <1>11, <1>12, <1>16, <2>1, OrderKeeps
<1>19. StateInv'
  <2>1. \A e \in DOMAIN calls : calls[e].from \in Threads /\ calls'[e].from = calls[e].from /\ calls'[e].recv = calls[e].recv
    BY <1>1, <1>11, Elements DEF CallType, SameCall
  <2>2. \A u \in Threads : \A e : InFrame(u, "run", e)' => InFrame(u, "run", e)
    BY <1>16 DEF InFrame, OldFrame
  <2>3. \A e, r : PostedTo(e, r)' => PostedTo(e, r)
    BY <1>5 DEF PostedTo
  <2>4. \A e \in DOMAIN calls : Live(e)' => Live(e)
    BY <2>1, <2>2, <2>3 DEF Live
  <2>5. ~Live(c)'
    <3>1. ASSUME calls[c].recv # 0, PostedTo(c, calls[c].recv)' PROVE FALSE
      <4>1. PICK r : r = calls[c].recv
        OBVIOUS
      <4>2. PostedTo(c, r) /\ r \in DOMAIN receivers
        BY <1>1, <1>10, <2>1, <2>3, <3>1, <4>1 DEF StructInv, CallsRefer, CallRefers, OfThread
      <4>3. QED
        BY <1>1, <1>10, <4>2 DEF PostedTo, OrderInv, PostedRight
    <3>2. ASSUME NEW u \in Threads, InFrame(u, "run", c)' PROVE FALSE
      <4>1. PICK i \in DOMAIN stack'[u] : stack'[u][i].kind = "run" /\ stack'[u][i].call = c
        BY <3>2 DEF InFrame
      <4>2. i \in DOMAIN stack[u] /\ stack[u][i].kind = "run" /\ stack[u][i].call = c
        BY <1>16, <4>1 DEF OldFrame
      <4>3. u = t /\ i = n
        BY <1>1, <1>2, <1>5, <1>8, <4>2 DEF OrderInv, RunsOnce
      <4>4. n \notin DOMAIN stack'[t]
        <5>1. DOMAIN stack'[t] = 1 .. n - 1 /\ n \in Nat
          BY <1>1, <1>7, <1>13, <1>14, StackLengths DEF PoppedFrom, Wakes, Lengths
        <5>2. QED
          BY <5>1
      <4>5. QED
        BY <4>1, <4>3, <4>4
    <3>3. QED
      BY <1>10, <2>1, <3>1, <3>2 DEF Live
  <2>6. \A e \in DOMAIN calls : Waited(e) => Waited(e)'
    BY <1>5, <1>15, <2>1 DEF Waited
  <2>7. \A e \in DOMAIN calls : \/ calls'[e].state = calls[e].state
                                \/ calls'[e].state = "cs_done" /\ calls'[e].ran /\ ~Live(e)'
    <3>1. \A e \in told : e = c
      BY <1>3
    <3>2. QED
      BY <1>10, <1>11, <2>5, <3>1
  <2>8. \A e \in DOMAIN calls : calls'[e].result = calls[e].result
    BY <1>11
  <2>9. QED
    BY <1>1, <1>11, <1>12, <2>4, <2>6, <2>7, <2>8, StateKeeps
<1>20. WakeInv'
  <2>1. AsleepUntold'
    <3>1. \A u \in Threads : Undisturbed(u) \/ Top(u)'.at # "asleep"
      BY <1>15
    <3>2. \A e \in DOMAIN calls : SameCall(e) /\ (e \notin told => calls'[e].state = calls[e].state)
      BY <1>11
    <3>3. QED
      BY <1>1, <1>5, <1>13, <1>17, <3>1, <3>2, AsleepNotSet
  <2>2. \A e \in DOMAIN calls : Notifying(e) => Notifying(e)'
    <3>1. \A e \in DOMAIN calls : calls[e].from \in Threads /\ calls'[e].from = calls[e].from
      BY <1>1, <1>11, Elements DEF CallType, SameCall
    <3>2. QED
      BY <1>10, <1>15, <3>1 DEF Notifying, Undisturbed
  <2>3. \A r \in DOMAIN receivers : Holds(r) => Holds(r)'
    <3>1. \A r \in DOMAIN receivers : r # 0
      BY <1>1, Elements
    <3>2. QED
      BY <1>10, <1>15, <3>1
  <2>4. QED
    BY <1>1, <1>5, <1>12, <2>1, <2>2, <2>3, WakeKeeps
<1>21. QED
  BY <1>17, <1>18, <1>19, <1>20 DEF TransInv

\* Steps that end the waits of calls cs, and wake those who wait for them.
LEMMA EndsWaits ==
  ASSUME TransInv, NEW cs, NEW state \in CallStates, calls' = SetState(cs, state), stack' = NotifyAll(stack, cs),
         receivers' \in Seq(ReceiverType), DOMAIN receivers' = DOMAIN receivers,
         \A r \in DOMAIN receivers :
             /\ receivers'[r].thread = receivers[r].thread
             /\ receivers'[r].sender_set => receivers[r].sender_set
             /\ receivers'[r].process_incoming_call = receivers[r].process_incoming_call
             /\ receivers'[r].posted = receivers[r].posted \/ Retired(r)',
         internals' = internals, finished \subseteq finished', finished' \subseteq Threads,
         threads' \in [Threads -> Nat],
         \A x \in Threads : \/ threads'[x] = threads[x]
                            \/ threads'[x] = 0 /\ (threads[x] # 0 => receivers'[threads[x]].posted = <<>>),
         \A e \in DOMAIN calls : e \in cs =>
             \/ /\ state = "cs_canceled" /\ calls[e].sync \in DOMAIN receivers
                /\ ~receivers'[calls[e].sync].sender_set
             \/ /\ state = "cs_receiver_thread_finished" /\ calls[e].to \in finished' /\ calls[e].recv # 0
                /\ receivers'[calls[e].recv].posted = <<>>
                /\ \A u \in Threads : ~InFrame(u, "run", e)
  PROVE  TransInv'
<1>1. StructInv /\ Types /\ OrderInv /\ StateInv /\ WakeInv
  BY DEF TransInv, StructInv
<1>2. /\ calls' \in Seq(CallType) /\ DOMAIN calls' = DOMAIN calls
      /\ \A e \in DOMAIN calls : /\ SameCall(e) /\ calls'[e].ran = calls[e].ran
                                 /\ calls'[e].result = calls[e].result
                                 /\ e \in cs => calls'[e].state = state
                                 /\ e \notin cs => calls'[e].state = calls[e].state
  BY <1>1, SetsState
<1>3. Grows
  BY <1>2 DEF Grows
<1>4. stack \in [Threads -> Seq(FrameType)]
  BY <1>1 DEF Types
<1>5. PICK s : s = stack
  OBVIOUS
<1>6. s \in [Threads -> Seq(FrameType)] /\ stack' = NotifyAll(s, cs)
  BY <1>4, <1>5
<1>7. Wakes(s, stack')
  BY <1>6, NotifiesAll
<1>8. Wakes(stack, stack')
  BY <1>5, <1>7
<1>9. /\ stack' \in [Threads -> Seq(FrameType)]
      /\ FramesStay
      /\ \A u \in Threads : \A i \in DOMAIN stack'[u] : OldFrame(u, i) /\ stack'[u][i].recv = stack[u][i].recv
      /\ \A u \in Threads : Undisturbed(u)
      /\ \A u \in Threads : \A k, c : InFrame(u, k, c) => InFrame(u, k, c)'
      /\ \A r \in DOMAIN receivers : Holds(r) => Holds(r)'
  BY <1>1, <1>3, <1>8, WakeStep
<1>10. \A u \in Threads : \A i \in DOMAIN stack'[u] : OldFrame(u, i)
  BY <1>9
<1>11. \A r \in DOMAIN receivers : r # 0
  BY <1>1, Elements
<1>12. StructInv'
  <2>1. Types'
    BY <1>1, <1>2, <1>9 DEF Types
  <2>2. \A x \in Threads : threads'[x] # 0 => threads'[x] = threads[x]
    OBVIOUS
  <2>3. QED
    BY <1>1, <1>2, <1>3, <1>9, <2>1, <2>2, StructKeeps
<1>13. OrderInv'
  <2>1. ASSUME NEW r \in DOMAIN receivers, Retired(r) PROVE Retired(r)'
    <3>1. receivers'[r].posted = <<>>
      BY <2>1 DEF Retired
    <3>2. \A x \in Threads : threads'[x] # r
      BY <1>11, <2>1 DEF Retired
    <3>3. QED
      BY <3>1, <3>2 DEF Retired
  <2>2. QED
    BY <1>1, <1>2, <1>3, <1>10, <2>1, OrderKeeps
<1>14. StateInv'
  <2>1. \A e \in DOMAIN calls : calls[e].from \in Threads /\ calls'[e].from = calls[e].from /\ calls'[e].recv = calls[e].recv
    BY <1>1, <1>2, Elements DEF CallType, SameCall
  <2>2. \A u \in Threads : \A e : InFrame(u, "run", e)' => InFrame(u, "run", e)
    BY <1>10 DEF InFrame, OldFrame
  <2>3. \A e \in DOMAIN calls : calls[e].recv # 0 => calls[e].recv \in DOMAIN receivers
    BY <1>1 DEF StructInv, CallsRefer, CallRefers, OfThread
  <2>4. \A e, r : r \in DOMAIN receivers /\ PostedTo(e, r)' => PostedTo(e, r)
    BY DEF PostedTo, Retired
  <2>5. \A e \in DOMAIN calls : Live(e)' => Live(e)
    <3>1. ASSUME NEW e \in DOMAIN calls, NEW r, r = calls[e].recv, r # 0, PostedTo(e, r)' PROVE PostedTo(e, r)
      BY <2>3, <2>4, <3>1
    <3>2. QED
      BY <2>1, <2>2, <3>1 DEF Live
  <2>6. ASSUME NEW e \in DOMAIN calls, e \in cs, state # "cs_canceled" PROVE ~Live(e)'
    <3>1. PICK r : r = calls[e].recv
      OBVIOUS
    <3>2. receivers'[r].posted = <<>> /\ \A u \in Threads : ~InFrame(u, "run", e)
      BY <2>6, <3>1
    <3>3. ~PostedTo(e, r)'
      BY <3>2 DEF PostedTo
    <3>4. QED
      BY <2>1, <2>2, <3>1, <3>2, <3>3 DEF Live
  <2>7. \A e \in DOMAIN calls : Waited(e) => Waited(e)'
    BY <1>9, <2>1 DEF Waited
  <2>8. \A e \in DOMAIN calls :
            \/ calls'[e].state = calls[e].state
            \/ calls'[e].state = "cs_receiver_thread_finished" /\ calls[e].to \in finished' /\ ~Live(e)'
            \/ /\ calls'[e].state = "cs_canceled" /\ calls[e].sync \in DOMAIN receivers
               /\ ~receivers'[calls[e].sync].sender_set
    BY <1>2, <2>6
  <2>9. \A e \in DOMAIN calls : calls'[e].result = calls[e].result
    BY <1>2
  <2>10. QED
    BY <1>1, <1>2, <1>3, <2>5, <2>7, <2>8, <2>9, StateKeeps
<1>15. WakeInv'
  <2>1. AsleepUntold'
    <3>1. \A e \in DOMAIN calls : SameCall(e) /\ (e \notin cs => calls'[e].state = calls[e].state)
      BY <1>2
    <3>2. QED
      BY <1>1, <1>6, <1>9, <1>12, <3>1, AsleepNotSet
  <2>2. \A e \in DOMAIN calls : Notifying(e) => Notifying(e)'
    <3>1. \A e \in DOMAIN calls : calls[e].from \in Threads /\ calls'[e].from = calls[e].from
      BY <1>1, <1>2, Elements DEF CallType, SameCall
    <3>2. QED
      BY <1>9, <3>1 DEF Notifying, Undisturbed
  <2>3. ASSUME NEW r \in DOMAIN receivers, receivers'[r].posted # <<>>, threads[receivers[r].thread] = r
        PROVE  threads'[receivers[r].thread] = r
    <3>1. receivers[r].thread \in Threads
      BY <1>1, Elements DEF ReceiverType
    <3>2. QED
      BY <1>11, <2>3, <3>1
  <2>4. \A r \in DOMAIN receivers : receivers'[r].posted \in {receivers[r].posted, <<>>}
    BY DEF Retired
  <2>5. QED
    BY <1>1, <1>3, <1>9, <2>1, <2>2, <2>3, <2>4, WakeKeeps
<1>16. QED
  BY <1>12, <1>13, <1>14, <1>15 DEF TransInv

\* CancelDisableWaitingCall keeps the invariant.
LEMMA CancelsWaits ==
  ASSUME TransInv, NEW x \in Threads, CancelDisableWaitingCall(x)
  PROVE  TransInv'
<1>1. StructInv /\ Types
  BY DEF TransInv, StructInv
<1>2. PICK r : r = threads[x]
  OBVIOUS
<1>3. PICK cs : cs = {c \in DOMAIN calls : calls[c].sync = r /\ WaiterExists(c)}
  OBVIOUS
<1>4. PICK state : state = "cs_canceled"
  OBVIOUS
<1>5. /\ r # 0 /\ calls' = SetState(cs, state) /\ stack' = NotifyAll(stack, cs)
      /\ receivers' = [receivers EXCEPT ![r].sender_set = FALSE]
      /\ UNCHANGED <<internals, threads, finished>>
  BY <1>2, <1>3, <1>4 DEF CancelDisableWaitingCall
<1>6. r \in DOMAIN receivers
  BY <1>1, <1>2, <1>5 DEF StructInv, ReceiversFound, OfThread
<1>7. receivers' = [q \in DOMAIN receivers |-> IF q = r THEN [receivers[q] EXCEPT !.sender_set = FALSE] ELSE receivers[q]]
  BY <1>5
<1>8. ASSUME NEW q \in DOMAIN receivers
      PROVE  /\ receivers'[q] \in ReceiverType /\ receivers'[q].thread = receivers[q].thread
             /\ receivers'[q].process_incoming_call = receivers[q].process_incoming_call
             /\ receivers'[q].posted = receivers[q].posted
             /\ q # r => receivers'[q].sender_set = receivers[q].sender_set
             /\ q = r => receivers'[q].sender_set = FALSE
  <2>1. receivers[q] \in ReceiverType
    BY <1>1, Elements
  <2>2. CASE q = r
    <3>1. PICK k : k = receivers[q]
      OBVIOUS
    <3>2. k \in ReceiverType /\ receivers'[q] = [k EXCEPT !.sender_set = FALSE]
      BY <1>7, <2>1, <2>2, <3>1
    <3>3. receivers'[q] \in ReceiverType
      BY <3>2 DEF ReceiverType
    <3>4. receivers'[q].thread = k.thread /\ receivers'[q].process_incoming_call = k.process_incoming_call
          /\ receivers'[q].posted = k.posted /\ receivers'[q].sender_set = FALSE
      BY <3>2 DEF ReceiverType
    <3>5. QED
      BY <2>2, <3>1, <3>3, <3>4
  <2>3. CASE q # r
    <3>1. receivers'[q] = receivers[q]
      BY <1>7, <2>3
    <3>2. QED
      BY <2>1, <2>3, <3>1
  <2>4. QED
    BY <2>2, <2>3
<1>9. receivers' \in Seq(ReceiverType) /\ DOMAIN receivers' = DOMAIN receivers
  <2>1. receivers' = [q \in DOMAIN receivers |-> receivers'[q]]
    BY <1>7
  <2>2. receivers \in Seq(ReceiverType)
    BY <1>1 DEF Types
  <2>3. QED
    BY <1>8, <2>1, <2>2, SameLength
<1>10. \A q \in DOMAIN receivers :
           /\ receivers'[q].thread = receivers[q].thread
           /\ receivers'[q].sender_set => receivers[q].sender_set
           /\ receivers'[q].process_incoming_call = receivers[q].process_incoming_call
           /\ receivers'[q].posted = receivers[q].posted
  BY <1>8
<1>11. \A e \in DOMAIN calls : e \in cs => calls[e].sync \in DOMAIN receivers /\ ~receivers'[calls[e].sync].sender_set
  BY <1>3, <1>6, <1>8
<1>12. internals' = internals /\ finished \subseteq finished' /\ finished' \subseteq Threads
       /\ threads' \in [Threads -> Nat] /\ threads' = threads /\ state \in CallStates
  BY <1>1, <1>4, <1>5 DEF Types, CallStates
<1>13. QED
  BY <1>4, <1>5, <1>9, <1>10, <1>11, <1>12, EndsWaits

\* The end of a receiver's thread keeps the invariant.
LEMMA FinishesThread ==
  ASSUME TransInv, NEW t \in Threads, OnFinished_ReceiverThread(t)
  PROVE  TransInv'
<1>1. StructInv /\ Types
  BY DEF TransInv, StructInv
<1>2. PICK r : r = threads[t]
  OBVIOUS
<1>3. PICK cs : cs = IF internals /\ r # 0 THEN Told(r) ELSE {}
  OBVIOUS
<1>4. PICK state : state = "cs_receiver_thread_finished"
  OBVIOUS
<1>5. /\ stack[t] = <<>> /\ finished' = finished \cup {t}
      /\ calls' = SetState(cs, state) /\ stack' = NotifyAll(stack, cs)
      /\ threads' = [threads EXCEPT ![t] = 0]
      /\ receivers' = DropPosted(r)
      /\ internals' = internals
  BY <1>2, <1>3, <1>4 DEF OnFinished_ReceiverThread
<1>6. threads \in [Threads -> Nat] /\ r \in Nat /\ finished \subseteq Threads
  BY <1>1, <1>2 DEF Types
<1>7. /\ receivers' \in Seq(ReceiverType) /\ DOMAIN receivers' = DOMAIN receivers
      /\ \A q \in DOMAIN receivers :
             /\ receivers'[q].thread = receivers[q].thread
             /\ receivers'[q].sender_set = receivers[q].sender_set
             /\ receivers'[q].process_incoming_call = receivers[q].process_incoming_call
             /\ receivers'[q].posted = IF q = r THEN <<>> ELSE receivers[q].posted
  BY <1>1, <1>5, <1>6, Drops
<1>8. threads' \in [Threads -> Nat] /\ threads'[t] = 0 /\ \A x \in Threads : x # t => threads'[x] = threads[x]
  BY <1>5, <1>6
<1>9. r # 0 => r \in DOMAIN receivers /\ receivers[r].thread = t
  BY <1>1, <1>2 DEF StructInv, ReceiversFound, OfThread
<1>10. \A q \in DOMAIN receivers : receivers'[q].posted = receivers[q].posted \/ Retired(q)'
  <2>1. ASSUME r \in DOMAIN receivers PROVE Retired(r)'
    <3>1. receivers'[r].posted = <<>> /\ r # 0
      BY <1>1, <1>7, <2>1, Elements
    <3>2. ASSUME NEW x \in Threads PROVE threads'[x] # r
      <4>1. CASE x = t
        BY <1>8, <3>1, <4>1
      <4>2. CASE x # t
        <5>1. threads[x] = r => receivers[r].thread = x
          BY <1>1, <3>1 DEF StructInv, ReceiversFound, OfThread
        <5>2. QED
          BY <1>8, <1>9, <3>1, <4>2, <5>1
      <4>3. QED
        BY <4>1, <4>2
    <3>3. QED
      BY <3>1, <3>2 DEF Retired
  <2>2. QED
    BY <1>7, <2>1
<1>11. \A x \in Threads : \/ threads'[x] = threads[x]
                          \/ threads'[x] = 0 /\ (threads[x] # 0 => receivers'[threads[x]].posted = <<>>)
  BY <1>2, <1>7, <1>8, <1>9
<1>12. ASSUME NEW e \in DOMAIN calls, e \in cs
       PROVE  /\ calls[e].to \in finished' /\ calls[e].recv # 0
              /\ receivers'[calls[e].recv].posted = <<>>
              /\ \A u \in Threads : ~InFrame(u, "run", e)
  <2>1. r # 0 /\ calls[e].recv = r
    BY <1>3, <1>12 DEF Told
  <2>2. calls[e].to = t
    BY <1>1, <1>9, <2>1 DEF StructInv, CallsRefer, CallRefers, OfThread
  <2>3. ASSUME NEW u \in Threads, NEW i \in DOMAIN stack[u], stack[u][i].kind = "run", stack[u][i].call = e
        PROVE  FALSE
    <3>1. RunFrame(u, stack[u][i])
      BY <1>1, FrameFacts
    <3>2. u = t
      BY <2>1, <2>2, <2>3, <3>1 DEF RunFrame
    <3>3. QED
      BY <1>5, <2>3, <3>2
  <2>4. QED
    BY <1>5, <1>7, <1>9, <2>1, <2>2, <2>3 DEF InFrame
<1>13. internals' = internals /\ finished \subseteq finished' /\ finished' \subseteq Threads /\ state \in CallStates
  BY <1>4, <1>5, <1>6 DEF CallStates
<1>14. QED
  BY <1>4, <1>5, <1>7, <1>8, <1>10, <1>11, <1>12, <1>13, EndsWaits

-----------------------------------------------------------------------------
(* The theorems                                                            *)

\* Every step keeps the invariant.
LEMMA TransStep == TransInv /\ [Next]_vars => TransInv'
<1>1. ASSUME TransInv, Next PROVE TransInv'
  <2>1. Cancels \subseteq Threads /\ Finishes \subseteq Threads
    BY TransthreadConstants
  <2>2. ASSUME NEW t \in Threads, Step(t) PROVE TransInv'
    BY <1>1, <2>2, InsertsReceiver, TellsReceiver, Looks, WaitWakes, ProcessesCalls, LoopsOnce, EndsCall DEF Step
  <2>3. ASSUME NEW t \in Threads, NEW x \in Threads, AddTargetThreadId(t, x) PROVE TransInv'
    BY <1>1, <2>3, RegistersThread
  <2>4. ASSUME NEW t \in Threads, NEW x \in Threads, NEW kind \in Kinds, CallFromThread(t, x, kind) PROVE TransInv'
    BY <1>1, <2>4, PostsCall
  <2>5. ASSUME NEW t \in Threads, NEW kind \in Kinds, CallDirectly(t, kind) PROVE TransInv'
    BY <1>1, <2>5, CallsDirectly
  <2>6. ASSUME NEW t \in Threads, SpuriousWakeup(t) \/ CreateInternals(t) PROVE TransInv'
    BY <1>1, <2>6, WakesSpuriously, CreatesInternals
  <2>7. ASSUME NEW t \in Cancels, CancelDisableWaitingCall(t) PROVE TransInv'
    BY <1>1, <2>1, <2>7, CancelsWaits
  <2>8. ASSUME NEW t \in Finishes, OnFinished_ReceiverThread(t) PROVE TransInv'
    BY <1>1, <2>1, <2>8, FinishesThread
  <2>9. ASSUME DestroyCaller PROVE TransInv'
    BY <1>1, <2>9, DestroysCaller
  <2>10. QED
    BY <1>1, <2>2, <2>3, <2>4, <2>5, <2>6, <2>7, <2>8, <2>9 DEF Next
<1>2. ASSUME TransInv, UNCHANGED vars PROVE TransInv'
  <2>1. /\ internals' = internals /\ threads' = threads /\ receivers' = receivers /\ calls' = calls
        /\ stack' = stack /\ finished' = finished
    BY <1>2 DEF vars
  <2>2. StructInv'
    BY <1>2, <2>1 DEF TransInv, StructInv, Types, ReceiversFound, OfThread, CallsRefer, CallRefers, FramesRight,
                      FrameRight, AddFrame, RunFrame, WaitFrame
  <2>3. OrderInv'
    BY <1>2, <2>1 DEF TransInv, OrderInv, PostedRight, PostedSorted, RunsOnce, NoneSkipped, PostedTo, Retired, RunInOrder
  <2>4. StateInv'
    <3>1. \A c : Waited(c)' = Waited(c) /\ Live(c)' = Live(c)
      BY <2>1 DEF Waited, InFrame, Live, PostedTo
    <3>2. QED
      BY <1>2, <2>1, <3>1 DEF TransInv, StateInv, StateRight, StateTrue
  <2>5. WakeInv'
    <3>1. \A c : Notifying(c)' = Notifying(c)
      BY <2>1 DEF Notifying, Top
    <3>2. \A r : Holds(r)' = Holds(r)
      BY <2>1 DEF Holds
    <3>3. EventsReached' /\ EventsTold'
      BY <1>2, <2>1, <3>1, <3>2 DEF TransInv, WakeInv, EventsReached, EventsTold
    <3>4. AsleepUntold'
      BY <1>2, <2>1 DEF TransInv, WakeInv, AsleepUntold, Top
    <3>5. QED
      BY <3>3, <3>4 DEF WakeInv
  <2>6. QED
    BY <2>2, <2>3, <2>4, <2>5 DEF TransInv
<1>3. QED
  BY <1>1, <1>2

\* The invariant holds in every state.
LEMMA TransInvariant == Spec => []TransInv
<1>1. Init => TransInv
  BY TransInit
<1>2. QED
  BY <1>1, TransStep, PTL DEF Spec

\* What a thread waits for reaches it, in order: a thread asleep in
\* WaitProcessing has a call in progress and misses none that is posted to it,
\* and the calls posted to a receiver run in the order of CallFromThread.
THEOREM CallsSeen == Spec => []PostedCallsSeen
<1>1. TransInv => PostedCallsSeen
  <2>1. SUFFICES ASSUME TransInv PROVE PostedCallsSeen
    OBVIOUS
  <2>2. StructInv /\ Types /\ OrderInv /\ WakeInv
    BY <2>1 DEF TransInv, StructInv
  <2>3. Len(receivers) \in Nat /\ DOMAIN receivers = 1 .. Len(receivers)
    BY <2>2 DEF Types
  <2>4. TypeOK
    <3>1. \A x \in Threads : threads[x] \in 0 .. Len(receivers) /\ (threads[x] # 0 => receivers[threads[x]].thread = x)
      BY <2>2, <2>3 DEF StructInv, Types, ReceiversFound, OfThread
    <3>2. threads \in [Threads -> 0 .. Len(receivers)]
      BY <2>2, <3>1 DEF Types
    <3>3. ASSUME NEW c \in DOMAIN calls
          PROVE  /\ calls[c].state \in CallStates /\ calls[c].result \in CallStates \cup {"none"}
                 /\ calls[c].recv \in 0 .. Len(receivers) /\ calls[c].sync \in 0 .. Len(receivers)
      <4>1. calls[c] \in CallType
        BY <2>2, Elements
      <4>2. calls[c].recv \in 0 .. Len(receivers) /\ calls[c].sync \in 0 .. Len(receivers)
        BY <2>2, <2>3 DEF StructInv, CallsRefer, CallRefers, OfThread
      <4>3. QED
        BY <4>1, <4>2 DEF CallType
    <3>4. \A t \in Threads : \A i \in DOMAIN stack[t] : stack[t][i].kind \in {"add", "run", "wait"}
      BY <2>2, FrameFacts
    <3>5. QED
      BY <2>2, <3>1, <3>2, <3>3, <3>4 DEF TypeOK, Types
  <2>5. NoLostWakeup
    <3>1. ASSUME NEW t \in Threads, Top(t).at = "asleep", NEW c, c = Top(t).call, NEW r, r = calls[c].sync
          PROVE  /\ calls[c].state = "cs_inprogress"
                 /\ receivers[r].posted # <<>> =>
                     \/ \E e \in DOMAIN calls :
                            PostedTo(e, r) /\ Top(calls[e].from).call = e /\ Top(calls[e].from).at = "notify"
                     \/ \E i \in DOMAIN stack[t] : stack[t][i].recv = r
      <4>1. r \in DOMAIN receivers /\ receivers[r].thread = t
        BY <2>2, <3>1, AsleepFacts
      <4>2. calls[c].state = "cs_inprogress" /\ ~receivers[r].process_incoming_call
        BY <2>2, <3>1 DEF WakeInv, AsleepUntold
      <4>3. ASSUME receivers[r].posted # <<>>, ~Holds(r)
            PROVE  \E e \in DOMAIN calls :
                       PostedTo(e, r) /\ Top(calls[e].from).call = e /\ Top(calls[e].from).at = "notify"
        <5>1. receivers[r].posted \in Seq(Nat)
          BY <2>2, <4>1, Elements
        <5>2. 1 \in DOMAIN receivers[r].posted
          BY <4>3, <5>1
        <5>3. PICK e : e = receivers[r].posted[1]
          OBVIOUS
        <5>4. e \in DOMAIN calls /\ PostedTo(e, r)
          BY <2>2, <4>1, <5>2, <5>3 DEF OrderInv, PostedRight, PostedTo
        <5>5. Notifying(e)
          BY <2>2, <4>1, <4>2, <4>3, <5>2, <5>3 DEF WakeInv, EventsTold
        <5>6. QED
          BY <5>4, <5>5 DEF Notifying
      <4>4. QED
        BY <4>1, <4>2, <4>3 DEF Holds
    <3>2. QED
      BY <3>1 DEF NoLostWakeup
  <2>6. RunInOrder
    BY <2>2 DEF OrderInv
  <2>7. QED
    BY <2>4, <2>5, <2>6 DEF PostedCallsSeen
<1>2. QED
  BY <1>1, TransInvariant, PTL

\* What WaitProcessing returns is true: the call has run, its receiver has
\* finished, or the waits of the thread are disabled.
THEOREM ResultsTrue == Spec => []ResultIsTrue
<1>1. TransInv => ResultIsTrue
  <2>1. ASSUME TransInv, NEW c \in DOMAIN calls, NEW result, result = calls[c].result
        PROVE  /\ result # "cs_inprogress"
               /\ result = "cs_done" => ProxyResult(c) = "transport"
               /\ result = "cs_receiver_thread_finished" => calls[c].to \in finished
               /\ result = "cs_canceled" => ~receivers[calls[c].sync].sender_set
    <3>1. StateTrue(calls[c], result) /\ result # "cs_inprogress"
      BY <2>1 DEF TransInv, StateInv, StateRight
    <3>2. QED
      BY <3>1 DEF StateTrue, ProxyResult
  <2>2. QED
    BY <2>1 DEF ResultIsTrue
<1>2. QED
  BY <1>1, TransInvariant, PTL

\* Read and Write of the proxy run in the transport's thread while the caller,
\* whose buffer they have a pointer to, waits, unless its waits are disabled.
THEOREM BuffersInUse == Spec => []BufferInUse
<1>1. TransInv => BufferInUse
  <2>1. ASSUME TransInv, NEW t \in Threads, NEW i \in DOMAIN stack[t], NEW c, c = stack[t][i].call,
               stack[t][i].kind = "run", calls[c].recv # 0, UsesBuffer(calls[c].kind)
        PROVE  Waited(c) \/ ~receivers[calls[c].sync].sender_set
    <3>1. RunFrame(t, stack[t][i])
      BY <2>1, FrameFacts DEF TransInv
    <3>2. c \in DOMAIN calls
      BY <2>1, <3>1 DEF RunFrame
    <3>3. StateRight(c)
      BY <2>1, <3>2 DEF TransInv, StateInv
    <3>4. Live(c)
      BY <2>1 DEF Live, InFrame
    <3>5. Waits(calls[c].kind)
      BY <2>1 DEF UsesBuffer, Waits
    <3>6. CASE calls[c].state = "cs_inprogress"
      BY <3>3, <3>5, <3>6 DEF StateRight
    <3>7. CASE calls[c].state = "cs_canceled"
      BY <3>3, <3>7 DEF StateRight, StateTrue
    <3>8. QED
      BY <3>3, <3>4, <3>6, <3>7 DEF StateRight
  <2>2. QED
    BY <2>1 DEF BufferInUse
<1>2. QED
  BY <1>1, TransInvariant, PTL
=============================================================================
