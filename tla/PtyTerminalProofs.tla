------------------------- MODULE PtyTerminalProofs -------------------------
(***************************************************************************)
(* Theorems of PtyTerminal for any number of tabs, sessions, connections   *)
(* and self-heal threads.  First its life cycle: type correctness, that no *)
(* running shell is ever forgotten by the registry, who takes a session    *)
(* from a view, and that the event loop kills for idleness only what       *)
(* nobody watches; of a self-heal thread that reaps, this is false.  Then  *)
(* what the views are shown: a stream has no gap, the catch-up buffer is   *)
(* recent, an exit frame is true, and every step is a step of TerminalView *)
(* (the refinement).                                                       *)
(***************************************************************************)
EXTENDS PtyTerminal, SequenceTheorems, TLAPS

Inv0 == TypeOK /\ Control

(* A group of variables that does not change keeps its type.               *)
LEMMA Frames ==
  ASSUME Inv0
  PROVE  /\ UNCHANGED regVars => RegType'
         /\ UNCHANGED ptyVars => PtyType'
         /\ UNCHANGED sesVars => SesType'
         /\ UNCHANGED <<rpc, hand>> => ThreadType'
         /\ UNCHANGED actVars => ActorType'
         /\ UNCHANGED connVars => ConnType'
<1>0. RegType /\ PtyType /\ SesType /\ ThreadType /\ ActorType /\ ConnType
  BY DEF Inv0, TypeOK
<1>1. UNCHANGED regVars => RegType'
  BY <1>0 DEF RegType, regVars
<1>2. UNCHANGED ptyVars => PtyType'
  BY <1>0 DEF PtyType, ptyVars
<1>3. UNCHANGED sesVars => SesType'
  BY <1>0 DEF SesType, sesVars
<1>4. UNCHANGED <<rpc, hand>> => ThreadType'
  BY <1>0 DEF ThreadType
<1>5. UNCHANGED actVars => ActorType'
  BY <1>0 DEF ActorType, actVars
<1>6. UNCHANGED connVars => ConnType'
  BY <1>0 DEF ConnType, connVars
<1>7. QED
  BY <1>1, <1>2, <1>3, <1>4, <1>5, <1>6

LEMMA InitInv0 == Init => Inv0
<1> SUFFICES ASSUME Init PROVE Inv0
  OBVIOUS
<1> USE ConstantsAssumption, NamesAssumption DEF Init
<1>1. RegType
  BY DEF RegType
<1>2. PtyType
  BY DEF PtyType
<1>3. SesType
  BY DEF SesType
<1>4. ThreadType
  BY DEF ThreadType, ReaderPcs, Threads
<1>5. ActorType
  BY DEF ActorType, ActorPcs, Actors
<1>6. ConnType
  BY DEF ConnType
<1>7. Control
  BY DEF Control, HasTarget, Actors
<1>8. QED
  BY <1>1, <1>2, <1>3, <1>4, <1>5, <1>6, <1>7 DEF Inv0, TypeOK

-----------------------------------------------------------------------------
(* The shell, its reader thread and the clock.                             *)

LEMMA PublishInv0 ==
  ASSUME Inv0, NEW s \in Sessions, ReaderPublish(s)
  PROVE  Inv0'
<1> DEFINE new == outSeq[s] + 1
           all == Append(ring[s], new)
<1>a. RegType /\ PtyType /\ SesType /\ ThreadType /\ ActorType /\ ConnType /\ Control
  BY DEF Inv0, TypeOK
<1>b. /\ outSeq[s] \in Nat /\ unread[s] \in Nat /\ unread[s] > 0
      /\ outSeq[s] + unread[s] <= MaxOut /\ MaxOut \in Nat
      /\ ring[s] \in Seq(Chunks) /\ att[s] \in Views \cup {None}
  BY <1>a, ConstantsAssumption DEF SesType, PtyType, Control, ReaderPublish
<1>c. new \in Chunks /\ new \in Items /\ new \in 0 .. MaxOut
  BY <1>b DEF Chunks, Items
<1>d. all \in Seq(Chunks)
  BY <1>b, <1>c
<1>e. PICK i \in 1 .. Len(all) : ring' = [ring EXCEPT ![s] = SubSeq(all, i, Len(all))]
  BY DEF ReaderPublish
<1> HIDE DEF all
<1>f. SubSeq(all, i, Len(all)) \in Seq(Chunks)
  BY <1>d
<1>1. PtyType'
  BY <1>a, <1>b DEF PtyType, ReaderPublish
<1>2. SesType'
  <2>1. outSeq' \in [Sessions -> 0 .. MaxOut]
    BY <1>a, <1>c DEF SesType, ReaderPublish
  <2>2. ring' \in [Sessions -> Seq(Chunks)]
    BY <1>a, <1>e, <1>f DEF SesType
  <2>3. idle' \in [Sessions -> 0 .. Grace]
    BY <1>a, ConstantsAssumption DEF SesType, ReaderPublish
  <2>4. UNCHANGED <<att, exited, exitView, stop, pong>>
    BY DEF ReaderPublish
  <2>5. QED
    BY <1>a, <2>1, <2>2, <2>3, <2>4 DEF SesType
<1>3. ThreadType'
  <2>1. CASE att[s] = None
    BY <1>a, <2>1 DEF ThreadType, ReaderPcs, ReaderPublish
  <2>2. CASE att[s] # None
    <3>1. [view |-> att[s], item |-> new] \in [view : Views, item : Items]
      BY <1>b, <1>c, <2>2
    <3>2. hand' = [hand EXCEPT ![s] = [view |-> att[s], item |-> new]]
      BY <2>2 DEF ReaderPublish
    <3>3. rpc' = [rpc EXCEPT ![s] = "deliver"]
      BY <2>2 DEF ReaderPublish
    <3>4. QED
      BY <1>a, <3>1, <3>2, <3>3 DEF ThreadType, ReaderPcs
  <2>3. QED
    BY <2>1, <2>2
<1>4. Control'
  <2>1. UNCHANGED <<pc, tgt, job, vst, bound>>
    BY DEF ReaderPublish, actVars, connVars
  <2>2. \A u \in Sessions : outSeq'[u] + unread'[u] <= MaxOut
    BY <1>a, <1>b DEF Control, SesType, PtyType, ReaderPublish
  <2>3. \A a \in Actors : hand'[a] = hand[a]
    BY <1>a, NamesAssumption DEF ReaderPublish, ThreadType, Threads
  <2>4. \A u \in Sessions : rpc'[u] = "deliver" => hand'[u] # None
    BY <1>a, <1>b, <1>c, NamesAssumption DEF Control, ReaderPublish, ThreadType, Threads
  <2>5. QED
    BY <1>a, <2>1, <2>2, <2>3, <2>4 DEF Control
<1>5. UNCHANGED <<regVars, actVars, connVars>>
  BY DEF ReaderPublish
<1>6. QED
  BY <1>1, <1>2, <1>3, <1>4, <1>5, Frames DEF Inv0, TypeOK

LEMMA ReaderInv0 ==
  ASSUME Inv0, NEW s \in Sessions, Reader(s)
  PROVE  Inv0'
<1>a. RegType /\ PtyType /\ SesType /\ ThreadType /\ ActorType /\ ConnType /\ Control
  BY DEF Inv0, TypeOK
\* The steps that only move the reader's program counter.
<1>1. CASE ReaderTop(s) \/ ReaderEmpty(s) \/ ReaderAfterEmpty(s) \/ ReaderError(s)
  <2>1. UNCHANGED <<regVars, ptyVars, sesVars, hand, actVars, connVars>>
    BY <1>1 DEF ReaderTop, ReaderEmpty, ReaderAfterEmpty, ReaderError
  <2>2. PICK l \in {"after", "read", "empty", "top"} : rpc' = [rpc EXCEPT ![s] = l]
    BY <1>1 DEF ReaderTop, ReaderEmpty, ReaderAfterEmpty, ReaderError
  <2>3. ThreadType'
    BY <1>a, <2>1, <2>2 DEF ThreadType, ReaderPcs
  <2>4. Control'
    BY <1>a, <2>1, <2>2 DEF Control, ThreadType, actVars, connVars, sesVars, ptyVars
  <2>5. QED
    BY <2>1, <2>3, <2>4, Frames DEF Inv0, TypeOK
<1>2. CASE ReaderPublish(s)
  BY <1>2, PublishInv0
<1>3. CASE ReaderDeliver(s)
  <2>1. UNCHANGED <<regVars, ptyVars, sesVars, actVars>>
    BY <1>3 DEF ReaderDeliver
  <2>2. hand[s] \in [view : Views, item : Items]
    BY <1>a, <1>3 DEF ReaderDeliver, Control, ThreadType, Threads
  <2>3. ThreadType'
    BY <1>a, <1>3 DEF ThreadType, ReaderPcs, ReaderDeliver, Deliver
  <2>4. ConnType'
    BY <1>a, <1>3, <2>2 DEF ConnType, ReaderDeliver, Deliver
  <2>5. Control'
    <3>1. \A a \in Actors : hand'[a] = hand[a]
      BY <1>a, <1>3, NamesAssumption DEF ReaderDeliver, Deliver, ThreadType, Threads
    <3>2. \A u \in Sessions : rpc'[u] = "deliver" => hand'[u] # None
      BY <1>a, <1>3 DEF Control, ReaderDeliver, Deliver, ThreadType, Threads
    <3>3. UNCHANGED <<pc, tgt, job, vst, bound, outSeq, unread>>
      BY <1>3 DEF ReaderDeliver, actVars, sesVars, ptyVars
    <3>4. QED
      BY <1>a, <3>1, <3>2, <3>3 DEF Control
  <2>6. QED
    BY <2>1, <2>3, <2>4, <2>5, Frames DEF Inv0, TypeOK
<1>4. CASE ReaderEnds(s)
  <2>1. UNCHANGED <<regVars, ptyVars, hand, actVars, connVars>>
    BY <1>4 DEF ReaderEnds
  <2>2. ThreadType'
    BY <1>a, <1>4 DEF ThreadType, ReaderPcs, ReaderEnds
  <2>3. SesType'
    BY <1>a, <1>4 DEF SesType, ReaderEnds
  <2>4. Control'
    BY <1>a, <1>4 DEF Control, ThreadType, ReaderEnds, actVars, connVars, ptyVars
  <2>5. QED
    BY <2>1, <2>2, <2>3, <2>4, Frames DEF Inv0, TypeOK
<1>5. CASE ReaderNotifies(s)
  <2>1. UNCHANGED <<regVars, ptyVars, actVars, connVars>>
    BY <1>5 DEF ReaderNotifies
  <2>2. ThreadType'
    <3>1. rpc' \in [Sessions -> ReaderPcs]
      BY <1>a, <1>5 DEF ThreadType, ReaderPcs, ReaderNotifies
    <3>2. att[s] # None => [view |-> att[s], item |-> Exit] \in [view : Views, item : Items]
      BY <1>a DEF SesType, Items
    <3>3. hand' \in [Threads -> [view : Views, item : Items] \cup {None}]
      BY <1>a, <1>5, <3>2 DEF ThreadType, ReaderNotifies, NotifyExit, Untold
    <3>4. QED
      BY <3>1, <3>3 DEF ThreadType
  <2>3. SesType'
    BY <1>a, <1>5 DEF SesType, ReaderNotifies, NotifyExit, Untold
  <2>4. Control'
    <3>1. \A a \in Actors : hand'[a] = hand[a]
      BY <1>a, <1>5, NamesAssumption
      DEF ReaderNotifies, NotifyExit, ThreadType, Threads
    <3>2. \A u \in Sessions : rpc'[u] = "deliver" => hand'[u] # None
      BY <1>a, <1>5, NamesAssumption
      DEF Control, ReaderNotifies, NotifyExit, Untold, ThreadType, Threads, SesType, Items
    <3>3. UNCHANGED <<pc, tgt, job, vst, bound, outSeq, unread>>
      BY <1>5 DEF ReaderNotifies, actVars, connVars, ptyVars
    <3>4. QED
      BY <1>a, <3>1, <3>2, <3>3 DEF Control
  <2>5. QED
    BY <2>1, <2>2, <2>3, <2>4, Frames DEF Inv0, TypeOK
<1>6. QED
  BY <1>1, <1>2, <1>3, <1>4, <1>5 DEF Reader

LEMMA ShellInv0 ==
  ASSUME Inv0, NEW s \in Sessions, ShellOutput(s) \/ ShellExits(s) \/ PongAges(s)
  PROVE  Inv0'
<1>a. RegType /\ PtyType /\ SesType /\ ThreadType /\ ActorType /\ ConnType /\ Control
  BY DEF Inv0, TypeOK
<1>1. CASE ShellOutput(s)
  <2>1. UNCHANGED <<regVars, sesVars, rpc, hand, actVars, connVars>>
    BY <1>1 DEF ShellOutput
  <2>2. unread[s] \in Nat /\ outSeq[s] \in Nat /\ outSeq[s] + unread[s] < MaxOut
    BY <1>a, <1>1 DEF ShellOutput, PtyType, SesType
  <2>3. PtyType'
    BY <1>a, <1>1, <2>2, ConstantsAssumption DEF ShellOutput, PtyType
  <2>4. Control'
    BY <1>a, <1>1, <2>2, ConstantsAssumption
    DEF ShellOutput, Control, PtyType, SesType, sesVars, actVars, connVars
  <2>5. QED
    BY <2>1, <2>3, <2>4, Frames DEF Inv0, TypeOK
<1>2. CASE ShellExits(s)
  <2>1. UNCHANGED <<regVars, sesVars, rpc, hand, actVars, connVars, stuck, unread>>
    BY <1>2 DEF ShellExits
  <2>2. PtyType'
    BY <1>a, <1>2 DEF ShellExits, PtyType
  <2>3. Control'
    BY <1>a, <2>1 DEF Control, sesVars, actVars, connVars
  <2>4. QED
    BY <2>1, <2>2, <2>3, Frames DEF Inv0, TypeOK
<1>3. CASE PongAges(s)
  <2>1. UNCHANGED <<regVars, ptyVars, outSeq, rpc, hand, actVars, connVars>>
    BY <1>3 DEF PongAges
  <2>2. SesType'
    BY <1>a, <1>3 DEF PongAges, SesType
  <2>3. Control'
    BY <1>a, <2>1 DEF Control, ptyVars, actVars, connVars
  <2>4. QED
    BY <2>1, <2>2, <2>3, Frames DEF Inv0, TypeOK
<1>4. QED
  BY <1>1, <1>2, <1>3

LEMMA TickInv0 ==
  ASSUME Inv0, Tick
  PROVE  Inv0'
<1>a. RegType /\ PtyType /\ SesType /\ ThreadType /\ ActorType /\ ConnType /\ Control
  BY DEF Inv0, TypeOK
<1>1. UNCHANGED <<regVars, ptyVars, outSeq, rpc, hand, actVars, connVars>>
  BY DEF Tick
<1>2. \A n \in 0 .. Grace : Older(n) \in 0 .. Grace
  BY ConstantsAssumption DEF Older
<1>3. SesType'
  BY <1>a, <1>2 DEF Tick, SesType
<1>4. Control'
  BY <1>a, <1>1 DEF Control, ptyVars, actVars, connVars
<1>5. QED
  BY <1>1, <1>3, <1>4, Frames DEF Inv0, TypeOK

-----------------------------------------------------------------------------
(* The kill path, get_or_create and the self-heal thread.                  *)

\* What the end of a handler leaves of the two variables it assigns.
LEMMA HandlerEndsTypes ==
  ASSUME ConnType, NEW v \in Views, HandlerEnds(v)
  PROVE  /\ vst' \in [Views -> {"off", "connecting", "replay", "live", "closing", "closed"}]
         /\ sock' \in [Views -> {"open", "dropped", "closed"}]
         /\ \A w \in Views : vst'[w] # vst[w] => vst'[w] = "closed"
<1>1. vst \in [Views -> {"off", "connecting", "replay", "live", "closing", "closed"}]
  BY DEF ConnType
<1>2. sock \in [Views -> {"open", "dropped", "closed"}]
  BY DEF ConnType
<1>3. vst' = [vst EXCEPT ![v] = "closed"]
  BY DEF HandlerEnds
<1>4. PICK x \in {"open", "dropped", "closed"} : sock' = [sock EXCEPT ![v] = x]
  BY <1>2 DEF HandlerEnds
<1>5. QED
  BY <1>1, <1>2, <1>3, <1>4

LEMMA KillPathInv0 ==
  ASSUME Inv0, NEW a \in Actors, KillPath(a)
  PROVE  Inv0'
<1>a. RegType /\ PtyType /\ SesType /\ ThreadType /\ ActorType /\ ConnType /\ Control
  BY DEF Inv0, TypeOK
<1>b. tgt[a] \in Sessions
  BY <1>a DEF KillPath, KillNotifies, KillDelivers, KillShell, DropView, KillUnregisters,
              KillEnds, Control, HasTarget
<1>1. CASE KillNotifies(a)
  <2>1. UNCHANGED <<regVars, ptyVars, rpc, tgt, job, sweep, doomed, why, connVars>>
    BY <1>1 DEF KillNotifies
  <2>2. ThreadType'
    <3>1. att[tgt[a]] # None =>
            [view |-> att[tgt[a]], item |-> Exit] \in [view : Views, item : Items]
      BY <1>a, <1>b DEF SesType, Items
    <3>2. QED
      BY <1>a, <1>1, <3>1 DEF ThreadType, KillNotifies, NotifyExit, Untold
  <2>3. SesType'
    BY <1>a, <1>b, <1>1 DEF SesType, KillNotifies, NotifyExit, Untold
  <2>4. ActorType'
    BY <1>a, <1>1, <2>1 DEF ActorType, ActorPcs, KillNotifies, Goto
  <2>5. Control'
    <3>1. \A s \in Sessions : hand'[s] = hand[s]
      BY <1>a, <1>1, NamesAssumption DEF KillNotifies, NotifyExit, ThreadType, Threads
    <3>2. \A b \in Actors : pc'[b] = "deliver" => hand'[b] # None
      BY <1>a, <1>b, <1>1, NamesAssumption
      DEF Control, KillNotifies, NotifyExit, Untold, Goto, ThreadType, ActorType, Threads,
          SesType, Items
    <3>3. UNCHANGED <<rpc, tgt, job, vst, bound, outSeq, unread>>
      BY <1>1 DEF KillNotifies, connVars, ptyVars
    <3>4. \A b \in Actors : pc'[b] # pc[b] => pc'[b] \in {"deliver", "kill"} /\ pc[b] = "notify"
      BY <1>a, <1>1 DEF KillNotifies, Goto, ActorType
    <3>5. QED
      BY <1>a, <1>b, <3>1, <3>2, <3>3, <3>4 DEF Control, HasTarget, Actors
  <2>6. QED
    BY <2>1, <2>2, <2>3, <2>4, <2>5, Frames DEF Inv0, TypeOK
<1>2. CASE KillDelivers(a)
  <2>1. UNCHANGED <<regVars, ptyVars, sesVars, rpc, tgt, job, sweep, doomed, why>>
    BY <1>2 DEF KillDelivers
  <2>2. hand[a] \in [view : Views, item : Items]
    BY <1>a, <1>2 DEF KillDelivers, Control, ThreadType, Threads
  <2>3. ThreadType'
    BY <1>a, <1>2 DEF ThreadType, KillDelivers, Deliver
  <2>4. ConnType'
    BY <1>a, <1>2, <2>2 DEF ConnType, KillDelivers, Deliver
  <2>5. ActorType'
    BY <1>a, <1>2, <2>1 DEF ActorType, ActorPcs, KillDelivers, Goto
  <2>6. Control'
    <3>1. \A s \in Sessions : hand'[s] = hand[s]
      BY <1>a, <1>2, NamesAssumption DEF KillDelivers, Deliver, ThreadType, Threads
    <3>2. \A b \in Actors : pc'[b] = "deliver" => hand'[b] # None
      BY <1>a, <1>2 DEF Control, KillDelivers, Deliver, Goto, ThreadType, ActorType, Threads
    <3>3. UNCHANGED <<rpc, tgt, job, vst, bound, outSeq, unread>>
      BY <1>2 DEF KillDelivers, sesVars, ptyVars
    <3>4. \A b \in Actors : pc'[b] # pc[b] => pc'[b] = "kill" /\ pc[b] = "deliver"
      BY <1>a, <1>2 DEF KillDelivers, Goto, ActorType
    <3>5. QED
      BY <1>a, <1>b, <3>1, <3>2, <3>3, <3>4 DEF Control, HasTarget, Actors
  <2>7. QED
    BY <2>1, <2>3, <2>4, <2>5, <2>6, Frames DEF Inv0, TypeOK
<1>3. CASE KillShell(a)
  <2>1. UNCHANGED <<regVars, sesVars, rpc, hand, tgt, job, sweep, doomed, why, connVars>>
    BY <1>3 DEF KillShell
  <2>2. PtyType'
    BY <1>a, <1>b, <1>3 DEF PtyType, KillShell
  <2>3. ActorType'
    BY <1>a, <1>3, <2>1 DEF ActorType, ActorPcs, KillShell, Goto
  <2>4. Control'
    <3>1. UNCHANGED <<rpc, hand, tgt, job, vst, bound, outSeq, unread>>
      BY <1>3 DEF KillShell, connVars, sesVars
    <3>2. \A b \in Actors : pc'[b] # pc[b] => pc'[b] = "drop" /\ pc[b] = "kill"
      BY <1>a, <1>3 DEF KillShell, Goto, ActorType
    <3>3. QED
      BY <1>a, <1>b, <3>1, <3>2 DEF Control, HasTarget, Actors
  <2>5. QED
    BY <2>1, <2>2, <2>3, <2>4, Frames DEF Inv0, TypeOK
<1>4. CASE DropView(a)
  <2>1. UNCHANGED <<regVars, ptyVars, rpc, hand, tgt, job, sweep, why, connVars>>
    BY <1>4 DEF DropView
  <2>2. SesType'
    BY <1>a, <1>b, <1>4, ConstantsAssumption DEF SesType, DropView
  <2>3. ActorType'
    BY <1>a, <1>b, <1>4, <2>1 DEF ActorType, ActorPcs, DropView, Goto, SesType
  <2>4. Control'
    <3>1. UNCHANGED <<rpc, hand, tgt, job, vst, bound, outSeq, unread>>
      BY <1>4 DEF DropView, connVars, ptyVars
    <3>2. \A b \in Actors : pc'[b] # pc[b] => pc'[b] = "unregister" /\ pc[b] = "drop"
      BY <1>a, <1>4 DEF DropView, Goto, ActorType
    <3>3. QED
      BY <1>a, <1>b, <3>1, <3>2 DEF Control, HasTarget, Actors
  <2>5. QED
    BY <2>1, <2>2, <2>3, <2>4, Frames DEF Inv0, TypeOK
<1>5. CASE KillUnregisters(a)
  <2>1. UNCHANGED <<keyOf, ptyVars, sesVars, rpc, hand, tgt, job, sweep, doomed,
                    why, connVars>>
    BY <1>5 DEF KillUnregisters
  <2>2. RegType'
    BY <1>a, <1>5, <2>1 DEF RegType, KillUnregisters, Unregister
  <2>3. ActorType'
    BY <1>a, <1>5, <2>1 DEF ActorType, ActorPcs, KillUnregisters, Goto
  <2>4. Control'
    <3>1. UNCHANGED <<rpc, hand, tgt, job, vst, bound, outSeq, unread>>
      BY <1>5 DEF KillUnregisters, connVars, ptyVars, sesVars
    <3>2. \A b \in Actors : pc'[b] # pc[b] => pc'[b] = "clear" /\ pc[b] = "unregister"
      BY <1>a, <1>5 DEF KillUnregisters, Goto, ActorType
    <3>3. QED
      BY <1>a, <1>b, <3>1, <3>2 DEF Control, HasTarget, Actors
  <2>5. QED
    BY <2>1, <2>2, <2>3, <2>4, Frames DEF Inv0, TypeOK
<1>6. CASE KillEnds(a)
  <2>1. UNCHANGED <<regVars, ptyVars, sesVars, rpc, hand, sweep, bound, replay,
                    queue, got, pump>>
    BY <1>6 DEF KillEnds
  <2>2. RegType'
    BY <1>a, <1>b, <1>6, <2>1 DEF RegType, regVars
  <2>3. ActorType'
    BY <1>a, <1>6, <2>1 DEF ActorType, ActorPcs, KillEnds, Goto, ActorRests
  <2>4. ConnType'
    <3>1. closing' \in SUBSET Views
      BY <1>a, <1>6 DEF ConnType, ActorType, KillEnds, ScheduleClose
    <3>2. \/ UNCHANGED <<vst, sock>>
          \/ job[a] \in Views /\ HandlerEnds(job[a])
      BY <1>6 DEF KillEnds, Sweeping
    <3>3. vst' \in [Views -> {"off", "connecting", "replay", "live", "closing", "closed"}]
      BY <1>a, <3>2, HandlerEndsTypes DEF ConnType
    <3>4. sock' \in [Views -> {"open", "dropped", "closed"}]
      BY <1>a, <3>2, HandlerEndsTypes DEF ConnType
    <3>5. QED
      BY <1>a, <2>1, <3>1, <3>3, <3>4 DEF ConnType
  <2>5. Control'
    <3>1. UNCHANGED <<rpc, hand, bound, outSeq, unread>>
      BY <1>6 DEF KillEnds, ptyVars, sesVars
    <3>2. \A b \in Actors : b # a => tgt'[b] = tgt[b] /\ pc'[b] = pc[b] /\ job'[b] = job[b]
      BY <1>a, <1>6 DEF KillEnds, Goto, ActorRests, ActorType
    <3>3. pc'[a] \in {"sweep", "idle"} /\ (pc'[a] = "sweep" => job'[a] = job[a]) /\ pc[a] = "clear"
      BY <1>a, <1>6 DEF KillEnds, Goto, ActorRests, ActorType
    <3>4. \A v \in Views : vst'[v] # vst[v] => vst'[v] = "closed"
      BY <1>a, <1>6 DEF KillEnds, HandlerEnds, ConnType
    <3>5. QED
      BY <1>a, <3>1, <3>2, <3>3, <3>4 DEF Control, HasTarget, Actors
  <2>6. QED
    BY <2>1, <2>2, <2>3, <2>4, <2>5, Frames DEF Inv0, TypeOK
<1>7. QED
  BY <1>1, <1>2, <1>3, <1>4, <1>5, <1>6 DEF KillPath

\* Control after a step of actor a alone: everything it says of the others, of
\* the reader threads and of the views stays as it was.
LEMMA ActorControl ==
  ASSUME Inv0, NEW a \in Actors,
         UNCHANGED <<rpc, hand, vst, bound, outSeq, unread>>,
         \A b \in Actors \ {a} : pc'[b] = pc[b] /\ tgt'[b] = tgt[b] /\ job'[b] = job[b],
         pc'[a] \in HasTarget => tgt'[a] \in Sessions,
         pc'[a] # "deliver",
         a = Loop =>
            /\ pc'[a] # "idle" => job'[a] \in Views \cup {Reaper}
            /\ pc'[a] \in {"create", "attach", "detach", "exitcheck", "start", "pid"} =>
                  job'[a] \in Views
  PROVE  Control'
<1>1. Control
  BY DEF Inv0
<1>2. \A b \in Actors : pc'[b] \in HasTarget => tgt'[b] \in Sessions
  BY <1>1 DEF Control
<1>3. \A b \in Actors : pc'[b] = "deliver" => hand'[b] # None
  BY <1>1 DEF Control
<1>4. /\ pc'[Loop] # "idle" => job'[Loop] \in Views \cup {Reaper}
      /\ pc'[Loop] \in {"create", "attach", "detach", "exitcheck"} => job'[Loop] \in Views
      /\ pc'[Loop] \in {"start", "pid"} => job'[Loop] \in Views
  <2>1. CASE a = Loop
    BY <2>1
  <2>2. CASE a # Loop
    BY <1>1, <2>2 DEF Control, Actors
  <2>3. QED
    BY <2>1, <2>2
<1>5. QED
  BY <1>1, <1>2, <1>3, <1>4 DEF Control

LEMMA GetOrCreateInv0 ==
  ASSUME Inv0, NEW a \in Actors, GetOrCreate(a)
  PROVE  Inv0'
<1>a. RegType /\ PtyType /\ SesType /\ ThreadType /\ ActorType /\ ConnType /\ Control
  BY DEF Inv0, TypeOK
<1>b. None \notin Sessions
  BY NamesAssumption
<1>1. ASSUME NEW s \in Sessions, TryReap(a, s) PROVE Inv0'
  <2>1. UNCHANGED <<regVars, ptyVars, outSeq, ring, att, exited, exitView, idle,
                    pong, rpc, hand, job, doomed, connVars>>
    BY <1>1 DEF TryReap
  <2>2. SesType'
    BY <1>a, <1>1, <2>1 DEF SesType, TryReap, Condemn
  <2>3. ActorType'
    BY <1>a, <1>1, <2>1 DEF ActorType, ActorPcs, TryReap, Condemn, Goto
  <2>4. Control'
    <3>1. \A b \in Actors \ {a} : pc'[b] = pc[b] /\ tgt'[b] = tgt[b] /\ job'[b] = job[b]
      BY <1>a, <1>1, <2>1 DEF TryReap, Condemn, Goto, ActorType
    <3>2. \/ pc'[a] = "notify" /\ tgt'[a] = s
          \/ pc'[a] = "sweep"
      BY <1>a, <1>1 DEF TryReap, Condemn, Goto, ActorType
    <3>3. pc[a] = "sweep" /\ job'[a] = job[a]
      BY <1>1 DEF TryReap
    <3>4. UNCHANGED <<rpc, hand, vst, bound, outSeq, unread>>
      BY <2>1 DEF connVars, ptyVars
    <3>5. a = Loop => job[a] \in Views \cup {Reaper}
      BY <1>a, <3>3 DEF Control
    <3>6. QED
      BY <3>1, <3>2, <3>3, <3>4, <3>5, ActorControl DEF HasTarget
  <2>5. QED
    BY <2>1, <2>2, <2>3, <2>4, Frames DEF Inv0, TypeOK
<1>2. CASE SweepEnds(a)
  <2>1. UNCHANGED <<regVars, ptyVars, sesVars, rpc, hand, tgt, sweep, doomed, why, connVars>>
    BY <1>2 DEF SweepEnds
  <2>2. ActorType'
    BY <1>a, <1>2, <2>1 DEF ActorType, ActorPcs, SweepEnds, Goto, ActorRests
  <2>3. Control'
    <3>1. \A b \in Actors \ {a} : pc'[b] = pc[b] /\ tgt'[b] = tgt[b] /\ job'[b] = job[b]
      BY <1>a, <1>2, <2>1 DEF SweepEnds, Goto, ActorRests, ActorType
    <3>2. \/ pc'[a] = "idle"
          \/ pc'[a] = "create" /\ job'[a] = job[a] /\ job[a] # Reaper
      BY <1>a, <1>2 DEF SweepEnds, Goto, ActorRests, ActorType
    <3>3. a = Loop => job[a] \in Views \cup {Reaper}
      BY <1>a, <1>2 DEF Control, SweepEnds
    <3>4. UNCHANGED <<rpc, hand, vst, bound, outSeq, unread>>
      BY <2>1 DEF connVars, ptyVars, sesVars
    <3>5. QED
      BY <3>1, <3>2, <3>3, <3>4, ActorControl DEF HasTarget
  <2>4. QED
    BY <2>1, <2>2, <2>3, Frames DEF Inv0, TypeOK
<1>3. CASE FindSession(a)
  <2>1. UNCHANGED <<regVars, ptyVars, sesVars, rpc, hand, sweep, doomed, why, connVars>>
    BY <1>3 DEF FindSession
  <2>2. PICK k \in JobKeys(a) :
           /\ ~Vacant(k)
           /\ tgt' = [tgt EXCEPT ![a] = IF a = Loop THEN registry[k] ELSE None]
    BY <1>3 DEF FindSession
  <2>3. registry[k] \in Sessions
    BY <1>a, <2>2, ConstantsAssumption DEF JobKeys, RegType, Vacant
  <2>4. ActorType'
    BY <1>a, <1>3, <2>1, <2>2, <2>3 DEF ActorType, ActorPcs, FindSession, Goto, ActorRests, HasSession
  <2>5. Control'
    <3>1. \A b \in Actors \ {a} : pc'[b] = pc[b] /\ tgt'[b] = tgt[b] /\ job'[b] = job[b]
      BY <1>a, <1>3, <2>2 DEF FindSession, Goto, ActorRests, HasSession, ActorType
    <3>2. \/ pc'[a] = "idle"
          \/ a = Loop /\ pc'[a] = "attach" /\ tgt'[a] = registry[k] /\ job'[a] = job[a]
      BY <1>a, <1>3, <2>2 DEF FindSession, Goto, ActorRests, HasSession, ActorType
    <3>3. a = Loop => job[a] \in Views
      BY <1>a, <1>3 DEF Control, FindSession
    <3>4. UNCHANGED <<rpc, hand, vst, bound, outSeq, unread>>
      BY <2>1 DEF connVars, ptyVars, sesVars
    <3>5. QED
      BY <2>3, <3>1, <3>2, <3>3, <3>4, ActorControl DEF HasTarget
  <2>6. QED
    BY <2>1, <2>4, <2>5, Frames DEF Inv0, TypeOK
<1>4. CASE Spawn(a)
  <2>1. UNCHANGED <<stuck, unread, sesVars, rpc, hand, job, sweep, doomed, why, connVars>>
    BY <1>4 DEF Spawn
  <2>2. PICK k \in JobKeys(a), s \in Unborn :
           /\ shell' = [shell EXCEPT ![s] = "running"]
           /\ keyOf' = [keyOf EXCEPT ![s] = k]
           /\ registry' = [registry EXCEPT ![k] = s]
           /\ tgt' = [tgt EXCEPT ![a] = s]
    BY <1>4 DEF Spawn
  <2>3. k \in Keys /\ s \in Sessions
    BY ConstantsAssumption DEF JobKeys, Unborn
  <2>4. RegType'
    BY <1>a, <2>1, <2>2, <2>3 DEF RegType
  <2>5. PtyType'
    BY <1>a, <2>1, <2>2, <2>3 DEF PtyType
  <2>6. pc' = [pc EXCEPT ![a] = "start"]
    BY <1>4 DEF Spawn, Goto
  <2>7. ActorType'
    BY <1>a, <2>1, <2>2, <2>3, <2>6 DEF ActorType, ActorPcs
  <2>8. Control'
    <3>1. \A b \in Actors \ {a} : pc'[b] = pc[b] /\ tgt'[b] = tgt[b] /\ job'[b] = job[b]
      BY <1>a, <2>1, <2>2, <2>6 DEF ActorType
    <3>2. pc'[a] = "start" /\ tgt'[a] = s /\ job'[a] = job[a]
      BY <1>a, <2>1, <2>2, <2>6 DEF ActorType
    <3>3. a = Loop => job[a] \in Views
      BY <1>a, <1>4 DEF Control, Spawn
    <3>4. UNCHANGED <<rpc, hand, vst, bound, outSeq, unread>>
      BY <2>1 DEF connVars, sesVars
    <3>5. QED
      BY <2>3, <3>1, <3>2, <3>3, <3>4, ActorControl
  <2>9. QED
    BY <2>1, <2>4, <2>5, <2>7, <2>8, Frames DEF Inv0, TypeOK
<1>5. CASE SpawnFails(a)
  <2>1. UNCHANGED <<regVars, ptyVars, sesVars, rpc, hand, tgt, sweep, doomed, why, bound,
                    replay, queue, got, pump, closing>>
    BY <1>5 DEF SpawnFails
  <2>2. pc' = [pc EXCEPT ![a] = "idle"] /\ job' = [job EXCEPT ![a] = None]
    BY <1>5 DEF SpawnFails, Goto, ActorRests
  <2>3. ActorType'
    BY <1>a, <2>1, <2>2 DEF ActorType, ActorPcs
  <2>4. a = Loop => job[a] \in Views
    BY <1>a, <1>5 DEF Control, SpawnFails
  <2>5. /\ vst' \in [Views -> {"off", "connecting", "replay", "live", "closing", "closed"}]
        /\ sock' \in [Views -> {"open", "dropped", "closed"}]
        /\ \A w \in Views : vst'[w] # vst[w] => vst'[w] = "closed"
    <3>1. CASE a = Loop
      BY <1>a, <1>5, <2>4, <3>1, HandlerEndsTypes DEF SpawnFails
    <3>2. CASE a # Loop
      BY <1>a, <1>5, <3>2 DEF SpawnFails, ConnType
    <3>3. QED
      BY <3>1, <3>2
  <2>6. ConnType'
    BY <1>a, <2>1, <2>5 DEF ConnType
  <2>7. Control'
    <3>1. \A b \in Actors : b # a => tgt'[b] = tgt[b] /\ pc'[b] = pc[b] /\ job'[b] = job[b]
      BY <1>a, <2>1, <2>2 DEF ActorType
    <3>2. pc'[a] = "idle"
      BY <1>a, <2>2 DEF ActorType
    <3>3. UNCHANGED <<rpc, hand, bound, outSeq, unread>>
      BY <2>1 DEF ptyVars, sesVars
    <3>4. QED
      BY <1>a, <2>5, <3>1, <3>2, <3>3 DEF Control, HasTarget, Actors
  <2>8. QED
    BY <2>1, <2>3, <2>6, <2>7, Frames DEF Inv0, TypeOK
<1>6. CASE StartReader(a)
  <2>1. UNCHANGED <<regVars, ptyVars, sesVars, hand, tgt, job, sweep, doomed, why, connVars>>
    BY <1>6 DEF StartReader
  <2>2. tgt[a] \in Sessions
    BY <1>a, <1>6 DEF Control, StartReader, HasTarget
  <2>3. rpc' = [rpc EXCEPT ![tgt[a]] = "top"] /\ pc' = [pc EXCEPT ![a] = "pid"] /\ pc[a] = "start"
    BY <1>6 DEF StartReader, Goto
  <2>4. ThreadType'
    BY <1>a, <2>1, <2>2, <2>3 DEF ThreadType, ReaderPcs
  <2>5. ActorType'
    BY <1>a, <2>1, <2>3 DEF ActorType, ActorPcs
  <2>6. Control'
    <3>1. UNCHANGED <<tgt, job, hand, vst, bound, outSeq, unread>>
      BY <2>1 DEF connVars, ptyVars, sesVars
    <3>2. \A b \in Actors : pc'[b] # pc[b] => pc'[b] = "pid" /\ pc[b] = "start"
      BY <1>a, <2>3 DEF ActorType
    <3>3. \A u \in Sessions : rpc'[u] # rpc[u] => rpc'[u] = "top"
      BY <1>a, <2>3 DEF ThreadType
    <3>4. QED
      BY <1>a, <3>1, <3>2, <3>3 DEF Control, HasTarget, Actors
  <2>7. QED
    BY <2>1, <2>4, <2>5, <2>6, Frames DEF Inv0, TypeOK
<1>7. CASE Created(a)
  <2>1. UNCHANGED <<regVars, ptyVars, sesVars, rpc, hand, sweep, doomed, why, connVars>>
    BY <1>7 DEF Created
  <2>2. tgt[a] \in Sessions /\ pc[a] = "pid"
    BY <1>a, <1>7 DEF Control, Created, HasTarget
  <2>3. RegType'
    BY <1>a, <2>1 DEF RegType, regVars
  <2>4. tgt' = [tgt EXCEPT ![a] = IF a = Loop THEN tgt[a] ELSE None]
    BY <1>7 DEF Created
  <2>5. ActorType'
    BY <1>a, <1>7, <2>1, <2>2, <2>4 DEF ActorType, ActorPcs, Created, Goto, ActorRests, HasSession
  <2>6. Control'
    <3>1. \A b \in Actors \ {a} : pc'[b] = pc[b] /\ tgt'[b] = tgt[b] /\ job'[b] = job[b]
      BY <1>a, <1>7, <2>4 DEF Created, Goto, ActorRests, HasSession, ActorType
    <3>2. \/ pc'[a] = "idle"
          \/ a = Loop /\ pc'[a] = "attach" /\ tgt'[a] = tgt[a] /\ job'[a] = job[a]
      BY <1>a, <1>7, <2>4 DEF Created, Goto, ActorRests, HasSession, ActorType
    <3>3. a = Loop => job[a] \in Views
      BY <1>a, <2>2 DEF Control
    <3>4. UNCHANGED <<rpc, hand, vst, bound, outSeq, unread>>
      BY <2>1 DEF connVars, ptyVars, sesVars
    <3>5. QED
      BY <2>2, <3>1, <3>2, <3>3, <3>4, ActorControl DEF HasTarget
  <2>7. QED
    BY <2>1, <2>3, <2>5, <2>6, Frames DEF Inv0, TypeOK
<1>8. QED
  BY <1>1, <1>2, <1>3, <1>4, <1>5, <1>6, <1>7 DEF GetOrCreate

LEMMA HealInv0 ==
  ASSUME Inv0, NEW a \in Actors, Heal(a)
  PROVE  Inv0'
<1>a. RegType /\ PtyType /\ SesType /\ ThreadType /\ ActorType /\ ConnType /\ Control
  BY DEF Inv0, TypeOK
<1>b. Registered \in SUBSET Sessions
  BY DEF Registered
<1>1. UNCHANGED <<keyOf, ptyVars, sesVars, rpc, hand, doomed, why, connVars>>
  BY DEF Heal, HealEnsures, HealForgets, HealEnters, regVars
<1>2. RegType'
  BY <1>a, <1>1 DEF RegType, Heal, HealEnsures, HealForgets, HealEnters, Unregister, regVars
<1>3. ActorType' /\ \/ a \in Healers
                    \/ a = Loop /\ pc[a] \in {"forget", "enter"}
  <2>1. CASE HealEnsures(a)
    <3>1. registry[HealKey] \in Sessions \cup {None}
      BY <1>a, ConstantsAssumption DEF RegType
    <3>2. QED
      BY <1>a, <1>b, <1>1, <2>1, <3>1 DEF ActorType, ActorPcs, HealEnsures, Snapshot, Goto
  <2>2. CASE HealForgets(a)
    BY <1>a, <1>1, <2>2 DEF ActorType, ActorPcs, HealForgets, Goto, Actors
  <2>3. CASE HealEnters(a)
    BY <1>a, <1>b, <1>1, <2>3 DEF ActorType, ActorPcs, HealEnters, Snapshot, Goto, Actors
  <2>4. QED
    BY <2>1, <2>2, <2>3 DEF Heal
<1>4. Control'
  <2>1. UNCHANGED <<rpc, hand, vst, bound, outSeq, unread>>
    BY <1>1 DEF connVars, ptyVars, sesVars
  <2>2. \A b \in Actors \ {a} : pc'[b] = pc[b] /\ tgt'[b] = tgt[b] /\ job'[b] = job[b]
    <3>1. CASE HealEnsures(a)
      BY <1>a, <3>1 DEF ActorType, HealEnsures, Snapshot, Goto
    <3>2. CASE HealForgets(a)
      BY <1>a, <3>2 DEF ActorType, HealForgets, Goto
    <3>3. CASE HealEnters(a)
      BY <1>a, <3>3 DEF ActorType, HealEnters, Snapshot, Goto
    <3>4. QED
      BY <3>1, <3>2, <3>3 DEF Heal
  <2>3. \/ pc'[a] \in {"sweep", "enter"}
        \/ pc'[a] = "forget" /\ tgt'[a] \in Sessions
    <3>1. CASE HealEnsures(a)
      <4>1. registry[HealKey] \in Sessions \cup {None}
        BY <1>a, ConstantsAssumption DEF RegType
      <4>2. QED
        BY <1>a, <3>1, <4>1 DEF ActorType, HealEnsures, Snapshot, Goto
    <3>2. CASE HealForgets(a)
      BY <1>a, <3>2 DEF ActorType, HealForgets, Goto
    <3>3. CASE HealEnters(a)
      BY <1>a, <3>3 DEF ActorType, HealEnters, Snapshot, Goto
    <3>4. QED
      BY <3>1, <3>2, <3>3 DEF Heal
  <2>4. a = Loop => job'[a] = job[a] /\ job[a] \in Views \cup {Reaper}
    BY <1>a, <1>3, NamesAssumption DEF Heal, HealEnsures, HealForgets, HealEnters, Control
  <2>5. QED
    BY <2>1, <2>2, <2>3, <2>4, ActorControl DEF HasTarget
<1>5. QED
  BY <1>1, <1>2, <1>3, <1>4, Frames DEF Inv0, TypeOK

LEMMA ReaperInv0 ==
  ASSUME Inv0, ReaperWakes
  PROVE  Inv0'
<1>a. ActorType
  BY DEF Inv0, TypeOK
<1>b. Loop \in Actors
  BY DEF Actors
<1>1. UNCHANGED <<regVars, ptyVars, sesVars, rpc, hand, tgt, doomed, why, connVars>>
  BY DEF ReaperWakes
<1>2. /\ job' = [job EXCEPT ![Loop] = Reaper]
      /\ pc' = [pc EXCEPT ![Loop] = "sweep"]
      /\ sweep' = [sweep EXCEPT ![Loop] = Registered]
  BY DEF ReaperWakes, Snapshot, Goto
<1>3. ActorType'
  BY <1>a, <1>b, <1>1, <1>2 DEF ActorType, ActorPcs, Registered
<1>4. Control'
  <2>1. UNCHANGED <<rpc, hand, vst, bound, outSeq, unread>>
    BY <1>1 DEF connVars, ptyVars, sesVars
  <2>2. \A b \in Actors \ {Loop} : pc'[b] = pc[b] /\ tgt'[b] = tgt[b] /\ job'[b] = job[b]
    BY <1>a, <1>1, <1>2 DEF ActorType
  <2>3. pc'[Loop] = "sweep" /\ job'[Loop] = Reaper
    BY <1>a, <1>b, <1>2 DEF ActorType
  <2>4. QED
    BY <1>b, <2>1, <2>2, <2>3, ActorControl DEF HasTarget
<1>5. QED
  BY <1>1, <1>3, <1>4, Frames DEF Inv0, TypeOK

-----------------------------------------------------------------------------
(* Connections.                                                            *)

\* A step that touches only what a connection has been sent, has queued and
\* whose socket it is leaves everything Control speaks of alone.
LEMMA TrafficInv0 ==
  ASSUME Inv0, NEW v \in Views,
         SendReplay(v) \/ PumpSends(v) \/ CloseView(v) \/ ClientDrops(v)
  PROVE  Inv0'
<1>a. ConnType /\ Control
  BY DEF Inv0, TypeOK
<1>1. UNCHANGED <<regVars, ptyVars, sesVars, rpc, hand, actVars, vst, bound>>
  BY DEF SendReplay, PumpSends, CloseView, ClientDrops
<1>2. ConnType'
  <2>1. CASE SendReplay(v)
    <3>1. replay[v] \in Seq(Chunks) /\ replay[v] # <<>>
      BY <1>a, <2>1 DEF ConnType, SendReplay
    <3>2. Head(replay[v]) \in Items /\ Tail(replay[v]) \in Seq(Chunks)
      BY <3>1 DEF Items
    <3>3. QED
      BY <1>a, <1>1, <2>1, <3>2 DEF ConnType, SendReplay
  <2>2. CASE PumpSends(v)
    <3>1. queue[v] \in Seq(Items) /\ queue[v] # <<>>
      BY <1>a, <2>2 DEF ConnType, PumpSends
    <3>2. Head(queue[v]) \in Items /\ Tail(queue[v]) \in Seq(Items)
      BY <3>1
    <3>3. /\ got' \in [Views -> Seq(Items)]
          /\ queue' \in [Views -> Seq(Items)]
      BY <1>a, <2>2, <3>2 DEF ConnType, PumpSends
    <3>4. /\ pump' \in [Views -> {"off", "run", "done"}]
          /\ sock' \in [Views -> {"open", "dropped", "closed"}]
      BY <1>a, <2>2 DEF ConnType, PumpSends
    <3>5. UNCHANGED <<vst, bound, replay, closing>>
      BY <2>2 DEF PumpSends
    <3>6. QED
      BY <1>a, <3>3, <3>4, <3>5 DEF ConnType
  <2>3. CASE CloseView(v)
    BY <1>a, <1>1, <2>3 DEF ConnType, CloseView
  <2>4. CASE ClientDrops(v)
    BY <1>a, <1>1, <2>4 DEF ConnType, ClientDrops
  <2>5. QED
    BY <2>1, <2>2, <2>3, <2>4
<1>3. Control'
  BY <1>a, <1>1 DEF Control, actVars, ptyVars, sesVars
<1>4. QED
  BY <1>1, <1>2, <1>3, Frames DEF Inv0, TypeOK

LEMMA DetachViewTypes ==
  ASSUME SesType, NEW s \in Sessions, NEW v, DetachView(s, v)
  PROVE  att' \in [Sessions -> Views \cup {None}]
BY DEF SesType, DetachView

\* A heartbeat, a pong and the start of the pump run while the loop is free and
\* leave every actor where it is.
LEMMA WatchdogInv0 ==
  ASSUME Inv0, NEW v \in Views, StartPump(v) \/ HeartbeatDrops(v) \/ Pong(v)
  PROVE  Inv0'
<1>a. SesType /\ ConnType /\ Control
  BY DEF Inv0, TypeOK
<1>1. UNCHANGED <<regVars, ptyVars, outSeq, rpc, hand, actVars, bound>>
  BY DEF StartPump, HeartbeatDrops, Pong, sesVars, connVars
<1>2. SesType'
  <2>1. CASE StartPump(v)
    BY <1>a, <2>1 DEF SesType, StartPump, sesVars
  <2>2. CASE HeartbeatDrops(v)
    <3>1. att' \in [Sessions -> Views \cup {None}]
      BY <1>a, <2>2, DetachViewTypes DEF Control, HeartbeatDrops
    <3>2. UNCHANGED <<outSeq, ring, exited, exitView, stop, idle, pong>>
      BY <2>2 DEF HeartbeatDrops
    <3>3. QED
      BY <1>a, <3>1, <3>2 DEF SesType
  <2>3. CASE Pong(v)
    BY <1>a, <2>3 DEF SesType, Pong
  <2>4. QED
    BY <2>1, <2>2, <2>3
<1>3. ConnType' /\ \A w \in Views : vst'[w] = "live" => vst[w] \in {"replay", "live"}
  <2>1. CASE StartPump(v)
    BY <1>a, <2>1 DEF ConnType, StartPump
  <2>2. CASE HeartbeatDrops(v)
    BY <1>a, <2>2 DEF ConnType, HeartbeatDrops
  <2>3. CASE Pong(v)
    BY <1>a, <2>3 DEF ConnType, Pong, connVars
  <2>4. QED
    BY <2>1, <2>2, <2>3
<1>4. \A w \in Views : vst'[w] # vst[w] => vst'[w] = "live"
  BY <1>a DEF ConnType, StartPump, HeartbeatDrops, Pong, connVars
<1>5. Control'
  BY <1>a, <1>1, <1>3, <1>4 DEF Control, actVars, ptyVars
<1>6. QED
  BY <1>1, <1>2, <1>3, <1>5, Frames DEF Inv0, TypeOK

LEMMA ConnectInv0 ==
  ASSUME Inv0, NEW v \in Views, Connect(v)
  PROVE  Inv0'
<1>a. ActorType /\ ConnType /\ Control
  BY DEF Inv0, TypeOK
<1>b. Loop \in Actors
  BY DEF Actors
<1>1. UNCHANGED <<regVars, ptyVars, sesVars, rpc, hand, tgt, doomed, why, bound>>
  BY DEF Connect
<1>2. /\ job' = [job EXCEPT ![Loop] = v]
      /\ pc' = [pc EXCEPT ![Loop] = "sweep"]
      /\ sweep' = [sweep EXCEPT ![Loop] = Registered]
      /\ vst' = [vst EXCEPT ![v] = "connecting"]
  BY DEF Connect, Snapshot, Goto, LoopJob
<1>3. ActorType'
  BY <1>a, <1>b, <1>1, <1>2 DEF ActorType, ActorPcs, Registered
<1>4. ConnType'
  BY <1>a DEF ConnType, Connect
<1>5. Control'
  <2>1. \A b \in Actors : b # Loop => pc'[b] = pc[b] /\ tgt'[b] = tgt[b]
    BY <1>a, <1>1, <1>2 DEF ActorType
  <2>2. pc'[Loop] = "sweep" /\ job'[Loop] = v
    BY <1>a, <1>b, <1>2 DEF ActorType
  <2>3. \A w \in Views : vst'[w] # vst[w] => vst'[w] = "connecting"
    BY <1>a, <1>2 DEF ConnType
  <2>4. UNCHANGED <<rpc, hand, bound, outSeq, unread>>
    BY <1>1 DEF ptyVars, sesVars
  <2>5. QED
    BY <1>a, <2>1, <2>2, <2>3, <2>4 DEF Control, HasTarget, Actors
<1>6. QED
  BY <1>1, <1>3, <1>4, <1>5, Frames DEF Inv0, TypeOK

LEMMA AttachInv0 ==
  ASSUME Inv0, NEW v \in Views, Attach(v)
  PROVE  Inv0'
<1>a. SesType /\ ActorType /\ ConnType /\ Control
  BY DEF Inv0, TypeOK
<1>b. Loop \in Actors
  BY DEF Actors
<1> DEFINE s == tgt[Loop]
<1>c. s \in Sessions
  BY <1>a, <1>b DEF Control, Attach, HasTarget
<1>1. UNCHANGED <<regVars, ptyVars, outSeq, ring, exited, stop, idle, rpc, hand, sweep,
                  doomed, why, got, pump, sock, closing>>
  BY DEF Attach
<1>2. /\ bound' = [bound EXCEPT ![v] = s]
      /\ replay' = [replay EXCEPT ![v] = ring[s]]
      /\ queue' = [queue EXCEPT ![v] = IF exited[s] THEN <<Exit>> ELSE <<>>]
      /\ att' = [att EXCEPT ![s] = v]
      /\ exitView' = [exitView EXCEPT ![s] = IF exited[s] THEN v ELSE None]
      /\ pong' = [pong EXCEPT ![s] = "none"]
      /\ vst' = [vst EXCEPT ![v] = "replay"]
      /\ tgt' = [tgt EXCEPT ![Loop] = None]
      /\ pc' = [pc EXCEPT ![Loop] = "idle"]
      /\ job' = [job EXCEPT ![Loop] = None]
  BY DEF Attach, ActorRests, Goto
<1> HIDE DEF s
<1>3. SesType'
  BY <1>a, <1>c, <1>1, <1>2, ConstantsAssumption DEF SesType
<1>4. ActorType'
  BY <1>a, <1>b, <1>1, <1>2 DEF ActorType, ActorPcs
<1>5. ConnType'
  <2>1. ring[s] \in Seq(Chunks) /\ <<Exit>> \in Seq(Items) /\ <<>> \in Seq(Items)
    BY <1>a, <1>c DEF SesType, Items
  <2>2. /\ bound' \in [Views -> Sessions \cup {None}]
        /\ replay' \in [Views -> Seq(Chunks)]
        /\ queue' \in [Views -> Seq(Items)]
    BY <1>a, <1>c, <1>2, <2>1 DEF ConnType
  <2>3. vst' \in [Views -> {"off", "connecting", "replay", "live", "closing", "closed"}]
    BY <1>a, <1>2 DEF ConnType
  <2>4. QED
    BY <1>a, <1>1, <2>2, <2>3 DEF ConnType
<1>6. Control'
  <2>1. \A b \in Actors : b # Loop => pc'[b] = pc[b] /\ tgt'[b] = tgt[b]
    BY <1>a, <1>2 DEF ActorType
  <2>2. pc'[Loop] = "idle"
    BY <1>a, <1>b, <1>2 DEF ActorType
  <2>3. \A w \in Views : w # v => vst'[w] = vst[w] /\ bound'[w] = bound[w]
    BY <1>a, <1>2 DEF ConnType
  <2>4. bound'[v] \in Sessions
    BY <1>a, <1>c, <1>2 DEF ConnType
  <2>5. UNCHANGED <<rpc, hand, outSeq, unread>>
    BY <1>1 DEF ptyVars
  <2>6. QED
    BY <1>a, <2>1, <2>2, <2>3, <2>4, <2>5 DEF Control, HasTarget, Actors
<1>7. QED
  BY <1>1, <1>3, <1>4, <1>5, <1>6, Frames DEF Inv0, TypeOK

\* The finally block of a handler, from the end of its receive loop on.
LEMMA FinallyInv0 ==
  ASSUME Inv0, NEW v \in Views,
         ReceiveClose(v) \/ ReceiveEnds(v) \/ Detach(v) \/ ExitCheck(v)
  PROVE  Inv0'
<1>a. SesType /\ ActorType /\ ConnType /\ Control
  BY DEF Inv0, TypeOK
<1>b. Loop \in Actors
  BY DEF Actors
<1>1. CASE ReceiveClose(v) \/ ReceiveEnds(v)
  <2>1. UNCHANGED <<regVars, ptyVars, outSeq, rpc, hand, doomed, sweep, bound>>
    BY <1>1 DEF ReceiveClose, ReceiveEnds, sesVars
  <2>2. bound[v] \in Sessions
    BY <1>a, <1>1 DEF Control, ReceiveClose, ReceiveEnds
  <2>3. /\ vst' = [vst EXCEPT ![v] = "closing"]
        /\ pump' = [pump EXCEPT ![v] = "done"]
        /\ job' = [job EXCEPT ![Loop] = v]
        /\ tgt' = [tgt EXCEPT ![Loop] = bound[v]]
        /\ UNCHANGED <<replay, queue, got, sock, closing>>
    BY <1>1 DEF ReceiveClose, ReceiveEnds, LoopJob, Condemn
  <2>4. vst[v] = "live"
    BY <1>1 DEF ReceiveClose, ReceiveEnds
  <2>5. SesType'
    <3>1. CASE ReceiveClose(v)
      BY <1>a, <3>1 DEF SesType, ReceiveClose, Condemn
    <3>2. CASE ReceiveEnds(v)
      BY <1>a, <3>2, Frames DEF ReceiveEnds
    <3>3. QED
      BY <1>1, <3>1, <3>2
  <2>6. ActorType' /\ pc'[Loop] \in {"notify", "detach"}
                   /\ \A b \in Actors : b # Loop => pc'[b] = pc[b]
    <3>1. CASE ReceiveClose(v)
      BY <1>a, <1>b, <2>1, <2>2, <2>3, <3>1
      DEF ActorType, ActorPcs, ReceiveClose, Condemn, Goto
    <3>2. CASE ReceiveEnds(v)
      BY <1>a, <1>b, <2>1, <2>2, <2>3, <3>2 DEF ActorType, ActorPcs, ReceiveEnds, Goto
    <3>3. QED
      BY <1>1, <3>1, <3>2
  <2>7. ConnType'
    BY <1>a, <2>1, <2>3 DEF ConnType
  <2>8. Control'
    <3>1. \A b \in Actors : b # Loop => tgt'[b] = tgt[b]
      BY <1>a, <2>3 DEF ActorType
    <3>2. tgt'[Loop] = bound[v] /\ job'[Loop] = v
      BY <1>a, <1>b, <2>3 DEF ActorType
    <3>3. \A w \in Views : w # v => vst'[w] = vst[w]
      BY <1>a, <2>3 DEF ConnType
    <3>4. UNCHANGED <<rpc, hand, bound, outSeq, unread>>
      BY <2>1 DEF ptyVars
    <3>5. QED
      BY <1>a, <2>2, <2>4, <2>6, <3>1, <3>2, <3>3, <3>4 DEF Control, Actors
  <2>9. QED
    BY <2>1, <2>5, <2>6, <2>7, <2>8, Frames DEF Inv0, TypeOK
<1>2. CASE Detach(v)
  <2>1. UNCHANGED <<regVars, ptyVars, outSeq, ring, exited, exitView, stop, idle, pong,
                    rpc, hand, tgt, job, sweep, doomed, why, connVars>>
    BY <1>2 DEF Detach
  <2>2. SesType'
    <3>1. att' \in [Sessions -> Views \cup {None}]
      BY <1>a, <1>b, <1>2, DetachViewTypes DEF Control, Detach, HasTarget
    <3>2. QED
      BY <1>a, <2>1, <3>1 DEF SesType
  <2>3. pc' = [pc EXCEPT ![Loop] = "exitcheck"] /\ pc[Loop] = "detach"
    BY <1>2 DEF Detach, Goto
  <2>4. ActorType'
    BY <1>a, <2>1, <2>3 DEF ActorType, ActorPcs
  <2>5. Control'
    <3>1. UNCHANGED <<rpc, hand, tgt, job, vst, bound, outSeq, unread>>
      BY <2>1 DEF connVars, ptyVars
    <3>2. \A b \in Actors : pc'[b] # pc[b] => pc'[b] = "exitcheck" /\ pc[b] = "detach"
      BY <1>a, <2>3 DEF ActorType
    <3>3. QED
      BY <1>a, <1>b, <3>1, <3>2 DEF Control, HasTarget
  <2>6. QED
    BY <2>1, <2>2, <2>4, <2>5, Frames DEF Inv0, TypeOK
<1>3. CASE ExitCheck(v)
  <2>1. UNCHANGED <<regVars, ptyVars, outSeq, rpc, hand, sweep, doomed, bound, replay,
                    queue, got, pump, closing>>
    BY <1>3 DEF ExitCheck
  <2>2. tgt[Loop] \in Sessions /\ pc[Loop] = "exitcheck" /\ job[Loop] = v
    BY <1>a, <1>b, <1>3 DEF Control, ExitCheck, HasTarget
  <2>3. CASE exited[tgt[Loop]]
    <3>1. Condemn(Loop, tgt[Loop], "exited") /\ UNCHANGED <<job, vst, sock>>
      BY <1>3, <2>3 DEF ExitCheck
    <3>3. SesType'
      BY <1>a, <1>3, <3>1 DEF SesType, ExitCheck, Condemn
    <3>4. ActorType'
      BY <1>a, <2>1, <2>2, <3>1 DEF ActorType, ActorPcs, Condemn, Goto
    <3>5. ConnType'
      BY <1>a, <2>1, <3>1 DEF ConnType
    <3>7. Control'
      <4>1. \A b \in Actors \ {Loop} : pc'[b] = pc[b] /\ tgt'[b] = tgt[b] /\ job'[b] = job[b]
        BY <1>a, <3>1 DEF Condemn, Goto, ActorType
      <4>2. pc'[Loop] = "notify" /\ tgt'[Loop] = tgt[Loop] /\ job'[Loop] = v
        BY <1>a, <1>b, <2>2, <3>1 DEF Condemn, Goto, ActorType
      <4>3. UNCHANGED <<rpc, hand, vst, bound, outSeq, unread>>
        BY <2>1, <3>1 DEF ptyVars
      <4>4. QED
        BY <1>b, <2>2, <4>1, <4>2, <4>3, ActorControl
    <3>8. QED
      BY <2>1, <3>3, <3>4, <3>5, <3>7, Frames DEF Inv0, TypeOK
  <2>4. CASE ~exited[tgt[Loop]]
    <3>1. /\ tgt' = [tgt EXCEPT ![Loop] = None]
          /\ HandlerEnds(v)
          /\ pc' = [pc EXCEPT ![Loop] = "idle"]
          /\ job' = [job EXCEPT ![Loop] = None]
          /\ UNCHANGED <<stop, why, ring, att, exited, exitView, idle, pong>>
      BY <1>3, <2>4 DEF ExitCheck, ActorRests, Goto
    <3>2. SesType'
      BY <1>a, <2>1, <3>1 DEF SesType
    <3>3. ActorType'
      BY <1>a, <2>1, <3>1 DEF ActorType, ActorPcs
    <3>4. ConnType'
      BY <1>a, <2>1, <3>1, HandlerEndsTypes DEF ConnType
    <3>5. Control'
      <4>1. \A b \in Actors : b # Loop => pc'[b] = pc[b] /\ tgt'[b] = tgt[b]
        BY <1>a, <3>1 DEF ActorType
      <4>2. pc'[Loop] = "idle"
        BY <1>a, <1>b, <3>1 DEF ActorType
      <4>3. \A w \in Views : vst'[w] # vst[w] => vst'[w] = "closed"
        BY <1>a, <3>1, HandlerEndsTypes
      <4>4. UNCHANGED <<rpc, hand, bound, outSeq, unread>>
        BY <2>1 DEF ptyVars
      <4>5. QED
        BY <1>a, <4>1, <4>2, <4>3, <4>4 DEF Control, HasTarget, Actors
    <3>6. QED
      BY <2>1, <3>2, <3>3, <3>4, <3>5, Frames DEF Inv0, TypeOK
  <2>5. QED
    BY <2>3, <2>4
<1>4. QED
  BY <1>1, <1>2, <1>3

-----------------------------------------------------------------------------

LEMMA NextInv0 == Inv0 /\ [Next]_vars => Inv0'
<1> SUFFICES ASSUME Inv0, [Next]_vars PROVE Inv0'
  OBVIOUS
<1>1. ASSUME NEW s \in Sessions, ShellOutput(s) \/ ShellExits(s) \/ Reader(s) \/ PongAges(s)
      PROVE  Inv0'
  BY <1>1, ShellInv0, ReaderInv0
<1>2. ASSUME NEW a \in Actors, KillPath(a) \/ GetOrCreate(a) \/ Heal(a)
      PROVE  Inv0'
  BY <1>2, KillPathInv0, GetOrCreateInv0, HealInv0
<1>3. ASSUME NEW v \in Views, Handler(v) \/ Client(v)
      PROVE  Inv0'
  BY <1>3, TrafficInv0, WatchdogInv0, ConnectInv0, AttachInv0, FinallyInv0
  DEF Handler, Client
<1>4. CASE ReaperWakes
  BY <1>4, ReaperInv0
<1>5. CASE Tick
  BY <1>5, TickInv0
<1>6. CASE UNCHANGED vars
  BY <1>6, Frames DEF vars, Inv0, TypeOK, Control, actVars, connVars, sesVars, ptyVars
<1>7. QED
  BY <1>1, <1>2, <1>3, <1>4, <1>5, <1>6 DEF Next

\* A program counter vouches for what its thread has in hand: whoever is past the
\* decision to kill has a target, a delivering thread has an item (session.py).
THEOREM ControlHolds == Spec => []Inv0
<1>1. Inv0 /\ [Next]_vars => Inv0'
  BY NextInv0
<1>2. QED
  BY InitInv0, <1>1, PTL DEF Spec

\* However many tabs, sessions, views and self-heal threads there are, every
\* variable keeps its type through every interleaving.
THEOREM TypeCorrect == Spec => []TypeOK
<1>1. Inv0 => TypeOK
  BY DEF Inv0
<1>2. QED
  BY <1>1, ControlHolds, PTL

-----------------------------------------------------------------------------
(* No running shell is forgotten.  Kept is inductive on top of Inv0.       *)

Kept == Lifecycle /\ NoOrphanShell

\* Kept reads only these variables: a step that leaves them alone preserves it.
keptVars == <<shell, exited, stuck, registry, pc, tgt, sweep, bound, rpc>>

LEMMA KeptFrame ==
  ASSUME Kept, UNCHANGED keptVars
  PROVE  Kept'
BY DEF Kept, keptVars, Lifecycle, NoOrphanShell, BeingKilled, Born, Alive, SessionAlive,
       Registered

\* A step of the reader of s: it runs only for a session in use, and may call
\* the session over only when its shell is dead.
LEMMA KeptReader ==
  ASSUME Inv0, Kept, NEW s \in Sessions, Born(s),
         UNCHANGED <<shell, stuck, registry, pc, tgt, sweep, bound>>,
         \A u \in Sessions \ {s} : exited'[u] = exited[u] /\ rpc'[u] = rpc[u],
         exited'[s] = exited[s] \/ (exited'[s] /\ ~Alive(s)),
         rpc'[s] = "notify" => ~Alive(s)
  PROVE  Kept'
<1>1. ASSUME NEW u \in Sessions PROVE BeingKilled(u)' <=> BeingKilled(u)
  BY DEF BeingKilled
<1>2. NoOrphanShell'
  BY <1>1 DEF Kept, NoOrphanShell, Alive, Registered
<1>3. \A a \in Actors : pc[a] = "forget" => tgt[a] \in Sessions
  BY DEF Inv0, Control, HasTarget
<1>4. Lifecycle'
  BY <1>1, <1>3 DEF Kept, Lifecycle, Born, Alive, SessionAlive, Registered
<1>5. QED
  BY <1>2, <1>4 DEF Kept

LEMMA ReaderKept ==
  ASSUME Inv0, Kept, NEW s \in Sessions, Reader(s)
  PROVE  Kept'
<1>a. SesType /\ ThreadType
  BY DEF Inv0, TypeOK
<1>b. rpc[s] # "off"
  BY DEF Reader, ReaderTop, ReaderPublish, ReaderDeliver, ReaderEmpty, ReaderAfterEmpty,
         ReaderError, ReaderEnds, ReaderNotifies
<1>c. Born(s)
  BY <1>b DEF Kept, Lifecycle
<1>1. UNCHANGED <<shell, stuck, registry, pc, tgt, sweep, bound>>
  BY DEF Reader, ReaderTop, ReaderPublish, ReaderDeliver, ReaderEmpty, ReaderAfterEmpty,
         ReaderError, ReaderEnds, ReaderNotifies, regVars, ptyVars, actVars, connVars
<1>2. \A u \in Sessions \ {s} : rpc'[u] = rpc[u]
  BY <1>a DEF ThreadType, Reader, ReaderTop, ReaderPublish, ReaderDeliver, ReaderEmpty,
              ReaderAfterEmpty, ReaderError, ReaderEnds, ReaderNotifies
<1>3. \A u \in Sessions \ {s} : exited'[u] = exited[u]
  BY <1>a DEF SesType, Reader, ReaderTop, ReaderPublish, ReaderDeliver, ReaderEmpty,
              ReaderAfterEmpty, ReaderError, ReaderEnds, ReaderNotifies, NotifyExit, sesVars
<1>4. rpc[s] = "notify" => ~Alive(s)
  BY DEF Kept, Lifecycle
<1>5. exited'[s] = exited[s] \/ (exited'[s] /\ ~Alive(s))
  BY <1>a, <1>4 DEF SesType, Reader, ReaderTop, ReaderPublish, ReaderDeliver, ReaderEmpty,
              ReaderAfterEmpty, ReaderError, ReaderEnds, ReaderNotifies, NotifyExit, sesVars
<1>6. rpc'[s] = "notify" => ~Alive(s)
  BY <1>a DEF ThreadType, Reader, ReaderTop, ReaderPublish, ReaderDeliver, ReaderEmpty,
              ReaderAfterEmpty, ReaderError, ReaderEnds, ReaderNotifies
<1>7. QED
  BY <1>c, <1>1, <1>2, <1>3, <1>5, <1>6, KeptReader

LEMMA ShellExitsKept ==
  ASSUME Inv0, Kept, NEW s \in Sessions, ShellExits(s)
  PROVE  Kept'
<1>1. UNCHANGED <<exited, stuck, registry, pc, tgt, sweep, bound, rpc>>
  BY DEF ShellExits, regVars, sesVars, actVars, connVars
<1>2. \A u \in Sessions : (Alive(u)' => Alive(u)) /\ (Born(u)' <=> Born(u))
  BY DEF Inv0, TypeOK, PtyType, ShellExits, Alive, Born
<1>3. \A u \in Sessions : BeingKilled(u)' <=> BeingKilled(u)
  BY <1>1 DEF BeingKilled
<1>4. \A a \in Actors : pc[a] \in HasTarget => tgt[a] \in Sessions
  BY DEF Inv0, Control
<1>5. NoOrphanShell'
  BY <1>1, <1>2, <1>3 DEF Kept, NoOrphanShell, Registered
<1>6. Lifecycle'
  <2>1. \A u \in Sessions : ~Born(u)' => ~exited'[u] /\ u \notin stuck' /\ u \notin Registered'
    BY <1>1, <1>2 DEF Kept, Lifecycle, Registered
  <2>2. \A a \in Actors : \A u \in sweep'[a] : Born(u)'
    BY <1>1, <1>2 DEF Kept, Lifecycle, Inv0, TypeOK, ActorType
  <2>3. \A v \in Views : bound'[v] \in Sessions => Born(bound[v])'
    BY <1>1, <1>2 DEF Kept, Lifecycle
  <2>4. \A a \in Actors : pc'[a] \in HasTarget => Born(tgt[a])'
    BY <1>1, <1>2, <1>4 DEF Kept, Lifecycle
  <2>5. \A a \in Actors :
           pc'[a] \in {"drop", "unregister", "clear"} => ~Alive(tgt[a])' \/ tgt'[a] \in stuck'
    BY <1>1, <1>2, <1>4 DEF Kept, Lifecycle, HasTarget
  <2>6. \A a \in Actors : pc'[a] = "forget" => ~SessionAlive(tgt[a])'
    BY <1>1, <1>2, <1>4 DEF Kept, Lifecycle, HasTarget, SessionAlive
  <2>7. /\ \A u \in Sessions : rpc'[u] # "off" => Born(u)'
        /\ \A u \in Sessions : rpc'[u] = "notify" => ~Alive(u)'
        /\ \A u \in Sessions : exited'[u] /\ Alive(u)' => BeingKilled(u)' \/ u \in stuck'
    BY <1>1, <1>2, <1>3 DEF Kept, Lifecycle
  <2>8. QED
    BY <2>1, <2>2, <2>3, <2>4, <2>5, <2>6, <2>7 DEF Lifecycle
<1>7. QED
  BY <1>5, <1>6 DEF Kept

KillStage == {"notify", "deliver", "kill"}

\* What is no loss to the registry: a session that is dead, could not be killed,
\* or is still to be killed after the step.
Excused(s) == ~Alive(s) \/ s \in stuck \/ BeingKilled(s)'

\* A step of actor a that kills and creates nothing.
LEMMA KeptActor ==
  ASSUME Inv0, Kept, NEW a \in Actors,
         UNCHANGED <<shell, stuck, rpc>>,
         \A b \in Actors \ {a} : pc'[b] = pc[b] /\ tgt'[b] = tgt[b] /\ sweep'[b] = sweep[b],
         \A s \in Registered' : s \in Registered,
         \A s \in Registered : s \in Registered' \/ Excused(s),
         \A s \in Sessions : exited'[s] = exited[s] \/ (exited'[s] /\ Born(s) /\ Excused(s)),
         pc[a] \in KillStage => pc'[a] \in KillStage /\ tgt'[a] = tgt[a],
         pc'[a] \in HasTarget => tgt'[a] \in Sessions /\ Born(tgt'[a]),
         pc'[a] \in {"drop", "unregister", "clear"} => ~Alive(tgt'[a]) \/ tgt'[a] \in stuck,
         pc'[a] = "forget" => ~SessionAlive(tgt'[a]),
         \A s \in sweep'[a] : Born(s),
         \A v \in Views : bound'[v] \in Sessions => Born(bound'[v])
  PROVE  Kept'
<1>1. \A s \in Sessions : (Alive(s)' <=> Alive(s)) /\ (Born(s)' <=> Born(s))
  BY DEF Alive, Born
<1>2. \A s \in Sessions : BeingKilled(s) => BeingKilled(s)'
  BY DEF BeingKilled, KillStage
<1>3. \A b \in Actors : pc[b] \in HasTarget => tgt[b] \in Sessions
  BY DEF Inv0, Control
<1>4. \A s \in Sessions : exited[s] => exited'[s]
  OBVIOUS
<1>5. NoOrphanShell'
  BY <1>1, <1>2 DEF Kept, NoOrphanShell, Excused
<1>6. Lifecycle'
  <2>1. \A s \in Sessions : ~Born(s)' => ~exited'[s] /\ s \notin stuck' /\ s \notin Registered'
    BY <1>1 DEF Kept, Lifecycle
  <2>2. \A b \in Actors : \A s \in sweep'[b] : Born(s)'
    BY DEF Kept, Lifecycle, Born
  <2>3. \A v \in Views : bound'[v] \in Sessions => Born(bound[v])'
    BY DEF Born
  <2>4. \A b \in Actors : pc'[b] \in HasTarget => Born(tgt[b])'
    BY <1>3 DEF Kept, Lifecycle, Born
  <2>5. \A b \in Actors :
           pc'[b] \in {"drop", "unregister", "clear"} => ~Alive(tgt[b])' \/ tgt'[b] \in stuck'
    BY <1>3 DEF Kept, Lifecycle, HasTarget, Alive
  <2>6. \A b \in Actors : pc'[b] = "forget" => ~SessionAlive(tgt[b])'
    <3> TAKE b \in Actors
    <3> HAVE pc'[b] = "forget"
    <3>1. CASE b = a
      <4>1. ~SessionAlive(tgt'[a]) /\ tgt'[a] \in Sessions
        BY <3>1 DEF HasTarget
      <4>2. QED
        BY <1>4, <3>1, <4>1 DEF SessionAlive, Alive
    <3>2. CASE b # a
      <4>1. tgt'[b] = tgt[b] /\ tgt[b] \in Sessions /\ ~SessionAlive(tgt[b])
        BY <1>3, <3>2 DEF Kept, Lifecycle, HasTarget
      <4>2. QED
        BY <1>4, <4>1 DEF SessionAlive, Alive
    <3>3. QED
      BY <3>1, <3>2
  <2>7. /\ \A s \in Sessions : rpc'[s] # "off" => Born(s)'
        /\ \A s \in Sessions : rpc'[s] = "notify" => ~Alive(s)'
    BY <1>1 DEF Kept, Lifecycle
  <2>8. \A s \in Sessions : exited'[s] /\ Alive(s)' => BeingKilled(s)' \/ s \in stuck'
    BY <1>1, <1>2 DEF Kept, Lifecycle, Excused
  <2>9. QED
    BY <2>1, <2>2, <2>3, <2>4, <2>5, <2>6, <2>7, <2>8 DEF Lifecycle
<1>7. QED
  BY <1>5, <1>6 DEF Kept

\* The kill: the shell of the target dies, or the failure is remembered.
LEMMA KillShellKept ==
  ASSUME Inv0, Kept, NEW a \in Actors, KillShell(a)
  PROVE  Kept'
<1>a. PtyType /\ ActorType
  BY DEF Inv0, TypeOK
<1> DEFINE t == tgt[a]
<1>b. t \in Sessions /\ Born(t) /\ pc[a] = "kill"
  BY DEF Inv0, Control, Kept, Lifecycle, KillShell, HasTarget
<1>1. UNCHANGED <<exited, registry, tgt, sweep, bound, rpc>>
  BY DEF KillShell, regVars, sesVars, connVars
<1>2. /\ \A s \in Sessions : (Alive(s)' => Alive(s)) /\ (Born(s)' <=> Born(s))
      /\ \A s \in stuck : s \in stuck'
      /\ \A s \in stuck' : s \in Sessions => Born(s)
      /\ shell'[t] # "running" \/ t \in stuck'
  BY <1>a, <1>b DEF PtyType, KillShell, Alive, Born, Kept, Lifecycle
<1>3. /\ \A b \in Actors \ {a} : pc'[b] = pc[b]
      /\ pc'[a] = "drop"
  BY <1>a DEF ActorType, KillShell, Goto
<1>4. \A s \in Sessions : s # t => (BeingKilled(s) => BeingKilled(s)')
  BY <1>1, <1>3 DEF BeingKilled
<1>5. \A b \in Actors : pc[b] \in HasTarget => tgt[b] \in Sessions
  BY DEF Inv0, Control
<1> HIDE DEF t
<1>6. NoOrphanShell'
  BY <1>1, <1>2, <1>4 DEF Kept, NoOrphanShell, Registered, Alive
<1>7. Lifecycle'
  <2>1. \A s \in Sessions : ~Born(s)' => ~exited'[s] /\ s \notin stuck' /\ s \notin Registered'
    BY <1>1, <1>2 DEF Kept, Lifecycle, Registered
  <2>2. /\ \A b \in Actors : \A s \in sweep'[b] : Born(s)'
        /\ \A v \in Views : bound'[v] \in Sessions => Born(bound[v])'
    BY <1>a, <1>1, <1>2 DEF Kept, Lifecycle, ActorType
  <2>3. \A b \in Actors : pc'[b] \in HasTarget => Born(tgt[b])'
    BY <1>b, <1>1, <1>2, <1>3, <1>5 DEF Kept, Lifecycle, t, HasTarget
  <2>4. \A b \in Actors :
           pc'[b] \in {"drop", "unregister", "clear"} => ~Alive(tgt[b])' \/ tgt'[b] \in stuck'
    BY <1>1, <1>2, <1>3, <1>5 DEF Kept, Lifecycle, HasTarget, t, Alive
  <2>5. \A b \in Actors : pc'[b] = "forget" => ~SessionAlive(tgt[b])'
    BY <1>1, <1>2, <1>3, <1>5 DEF Kept, Lifecycle, HasTarget, SessionAlive
  <2>6. /\ \A s \in Sessions : rpc'[s] # "off" => Born(s)'
        /\ \A s \in Sessions : rpc'[s] = "notify" => ~Alive(s)'
        /\ \A s \in Sessions : exited'[s] /\ Alive(s)' => BeingKilled(s)' \/ s \in stuck'
    BY <1>1, <1>2, <1>4 DEF Kept, Lifecycle, Alive
  <2>7. QED
    BY <2>1, <2>2, <2>3, <2>4, <2>5, <2>6 DEF Lifecycle
<1>8. QED
  BY <1>6, <1>7 DEF Kept

\* The birth of a session: it is registered in the same step, under a key that
\* held nothing.
LEMMA SpawnKept ==
  ASSUME Inv0, Kept, NEW a \in Actors, Spawn(a)
  PROVE  Kept'
<1>a. RegType /\ PtyType /\ ActorType
  BY DEF Inv0, TypeOK
<1>b. None \notin Sessions
  BY NamesAssumption
<1>1. PICK k \in JobKeys(a), n \in Unborn :
         /\ Vacant(k)
         /\ shell' = [shell EXCEPT ![n] = "running"]
         /\ registry' = [registry EXCEPT ![k] = n]
         /\ tgt' = [tgt EXCEPT ![a] = n]
  BY DEF Spawn
<1>2. k \in Keys /\ n \in Sessions /\ ~Born(n)
  BY ConstantsAssumption DEF JobKeys, Unborn, Born
<1>3. UNCHANGED <<stuck, exited, rpc, sweep, bound>>
  BY DEF Spawn, sesVars, connVars
<1>4. /\ pc[a] = "create" /\ pc'[a] = "start" /\ tgt'[a] = n
      /\ \A b \in Actors \ {a} : pc'[b] = pc[b] /\ tgt'[b] = tgt[b]
  BY <1>a, <1>1 DEF ActorType, Spawn, Goto
<1>5. /\ Born(n)' /\ \A s \in Sessions : Born(s) => Born(s)'
      /\ \A s \in Sessions : s # n => (Alive(s)' <=> Alive(s)) /\ (Born(s)' <=> Born(s))
  BY <1>a, <1>1, <1>2 DEF PtyType, Alive, Born
<1>6. Registered' = Registered \cup {n}
  <2>1. registry'[k] = n /\ \A j \in Keys : j # k => registry'[j] = registry[j]
    BY <1>a, <1>1, <1>2 DEF RegType
  <2>2. registry[k] \notin Sessions
    BY <1>b, <1>1 DEF Vacant
  <2>3. ASSUME NEW s \in Sessions
        PROVE  s \in Registered' <=> s \in Registered \cup {n}
    BY <1>2, <2>1, <2>2 DEF Registered
  <2>4. Registered' \subseteq Sessions /\ Registered \subseteq Sessions
    BY DEF Registered
  <2>5. QED
    BY <1>2, <2>3, <2>4
<1>7. \A s \in Sessions : BeingKilled(s) => BeingKilled(s)'
  BY <1>4 DEF BeingKilled
<1>8. \A b \in Actors : pc[b] \in HasTarget => tgt[b] \in Sessions /\ tgt[b] # n
  BY <1>2 DEF Inv0, Control, Kept, Lifecycle
<1>9. NoOrphanShell'
  BY <1>3, <1>5, <1>6, <1>7 DEF Kept, NoOrphanShell
<1>10. Lifecycle'
  <2>1. \A s \in Sessions : ~Born(s)' => ~exited'[s] /\ s \notin stuck' /\ s \notin Registered'
    BY <1>3, <1>5, <1>6 DEF Kept, Lifecycle
  <2>2. /\ \A b \in Actors : \A s \in sweep'[b] : Born(s)'
        /\ \A v \in Views : bound'[v] \in Sessions => Born(bound[v])'
    BY <1>a, <1>3, <1>5 DEF Kept, Lifecycle, ActorType
  <2>3. \A b \in Actors : pc'[b] \in HasTarget => Born(tgt[b])'
    BY <1>4, <1>5, <1>8 DEF Kept, Lifecycle
  <2>4. \A b \in Actors :
           pc'[b] \in {"drop", "unregister", "clear"} => ~Alive(tgt[b])' \/ tgt'[b] \in stuck'
    BY <1>3, <1>4, <1>5, <1>8 DEF Kept, Lifecycle, HasTarget
  <2>5. \A b \in Actors : pc'[b] = "forget" => ~SessionAlive(tgt[b])'
    BY <1>3, <1>4, <1>5, <1>8 DEF Kept, Lifecycle, HasTarget, SessionAlive
  <2>6. \A s \in Sessions : rpc'[s] # "off" => Born(s)'
    BY <1>3, <1>5 DEF Kept, Lifecycle
  <2>7. \A s \in Sessions : rpc'[s] = "notify" => ~Alive(s)'
    BY <1>2, <1>3, <1>5 DEF Kept, Lifecycle
  <2>8. \A s \in Sessions : exited'[s] /\ Alive(s)' => BeingKilled(s)' \/ s \in stuck'
    BY <1>2, <1>3, <1>5, <1>7 DEF Kept, Lifecycle
  <2>9. QED
    BY <2>1, <2>2, <2>3, <2>4, <2>5, <2>6, <2>7, <2>8 DEF Lifecycle
<1>11. QED
  BY <1>9, <1>10 DEF Kept

LEMMA KillPathKept ==
  ASSUME Inv0, Kept, NEW a \in Actors, KillPath(a)
  PROVE  Kept'
<1>a. RegType /\ SesType /\ ActorType
  BY DEF Inv0, TypeOK
<1>b. tgt[a] \in Sessions /\ Born(tgt[a])
  BY DEF KillPath, KillNotifies, KillDelivers, KillShell, DropView, KillUnregisters,
         KillEnds, Inv0, Control, Kept, Lifecycle, HasTarget
<1>c. /\ \A s \in sweep[a] : Born(s)
      /\ \A v \in Views : bound[v] \in Sessions => Born(bound[v])
  BY DEF Kept, Lifecycle
<1>d. pc[a] \in {"drop", "unregister", "clear"} => ~Alive(tgt[a]) \/ tgt[a] \in stuck
  BY DEF Kept, Lifecycle
<1>1. CASE KillNotifies(a) \/ KillDelivers(a)
  <2>1. UNCHANGED <<shell, stuck, rpc, registry, tgt, sweep, bound>>
    BY <1>1 DEF KillNotifies, KillDelivers, regVars, ptyVars, connVars
  <2>2. /\ \A b \in Actors \ {a} : pc'[b] = pc[b]
        /\ pc'[a] \in {"deliver", "kill"}
    BY <1>a, <1>1 DEF ActorType, KillNotifies, KillDelivers, Goto
  <2>3. BeingKilled(tgt[a])'
    BY <2>1, <2>2 DEF BeingKilled
  <2>4. \A s \in Sessions : exited'[s] = exited[s] \/ (s = tgt[a] /\ exited'[s])
    BY <1>a, <1>1 DEF SesType, KillNotifies, KillDelivers, NotifyExit, sesVars
  <2>5. \A s \in Sessions :
           exited'[s] = exited[s] \/ (exited'[s] /\ Born(s) /\ Excused(s))
    BY <1>b, <2>1, <2>3, <2>4 DEF Excused, BeingKilled
  <2>6. Registered' = Registered
    BY <2>1 DEF Registered
  <2>7. QED
    BY <1>b, <1>c, <2>1, <2>2, <2>5, <2>6, KeptActor DEF KillStage, HasTarget
<1>2. CASE KillShell(a)
  BY <1>2, KillShellKept
<1>3. CASE DropView(a)
  <2>1. UNCHANGED <<shell, stuck, rpc, registry, tgt, sweep, bound>>
    BY <1>3 DEF DropView, regVars, ptyVars, connVars
  <2>2. /\ \A b \in Actors \ {a} : pc'[b] = pc[b]
        /\ pc'[a] = "unregister" /\ pc[a] = "drop"
    BY <1>a, <1>3 DEF ActorType, DropView, Goto
  <2>3. \A s \in Sessions : exited'[s] = exited[s] \/ (s = tgt[a] /\ exited'[s])
    BY <1>a, <1>3 DEF SesType, DropView
  <2>4. \A s \in Sessions :
           exited'[s] = exited[s] \/ (exited'[s] /\ Born(s) /\ Excused(s))
    BY <1>b, <1>d, <2>2, <2>3 DEF Excused
  <2>5. Registered' = Registered
    BY <2>1 DEF Registered
  <2>6. QED
    BY <1>b, <1>c, <1>d, <2>1, <2>2, <2>4, <2>5, KeptActor DEF KillStage
<1>4. CASE KillUnregisters(a)
  <2>1. UNCHANGED <<shell, stuck, exited, rpc, tgt, sweep, bound>>
    BY <1>4 DEF KillUnregisters, ptyVars, sesVars, connVars
  <2>2. /\ \A b \in Actors \ {a} : pc'[b] = pc[b]
        /\ pc'[a] = "clear" /\ pc[a] = "unregister"
    BY <1>a, <1>4 DEF ActorType, KillUnregisters, Goto
  <2>3. /\ \A s \in Registered' : s \in Registered
        /\ \A s \in Registered : s \in Registered' \/ s = tgt[a]
    BY <1>4, NamesAssumption DEF KillUnregisters, Unregister, Registered
  <2>4. \A s \in Registered : s \in Registered' \/ Excused(s)
    BY <1>d, <2>2, <2>3 DEF Excused
  <2>5. QED
    BY <1>b, <1>c, <1>d, <2>1, <2>2, <2>3, <2>4, KeptActor DEF KillStage
<1>5. CASE KillEnds(a)
  <2>1. UNCHANGED <<shell, stuck, exited, rpc, registry, sweep, bound>>
    BY <1>5 DEF regVars, KillEnds, ptyVars, sesVars
  <2>2. /\ \A b \in Actors \ {a} : pc'[b] = pc[b] /\ tgt'[b] = tgt[b]
        /\ pc'[a] \in {"idle", "sweep"} /\ pc[a] = "clear"
    BY <1>a, <1>5 DEF ActorType, KillEnds, Goto, ActorRests
  <2>3. Registered' = Registered
    BY <2>1 DEF Registered
  <2>4. QED
    BY <1>c, <2>1, <2>2, <2>3, KeptActor DEF KillStage, HasTarget
<1>6. QED
  BY <1>1, <1>2, <1>3, <1>4, <1>5 DEF KillPath

\* The new reader runs for a session in use.
LEMMA StartReaderKept ==
  ASSUME Inv0, Kept, NEW a \in Actors, StartReader(a)
  PROVE  Kept'
<1>a. ThreadType /\ ActorType
  BY DEF Inv0, TypeOK
<1>b. tgt[a] \in Sessions /\ Born(tgt[a])
  BY DEF StartReader, Inv0, Control, Kept, Lifecycle, HasTarget
<1>1. UNCHANGED <<shell, stuck, exited, registry, tgt, sweep, bound>>
  BY DEF StartReader, regVars, ptyVars, sesVars, connVars
<1>2. \A b \in Actors : pc'[b] = pc[b] \/ (pc[b] = "start" /\ pc'[b] = "pid")
  BY <1>a DEF ActorType, StartReader, Goto
<1>3. \A s \in Sessions : rpc'[s] = rpc[s] \/ (s = tgt[a] /\ rpc'[s] = "top")
  BY <1>a DEF ThreadType, StartReader
<1>4. \A s \in Sessions : BeingKilled(s) => BeingKilled(s)'
  BY <1>1, <1>2 DEF BeingKilled
<1>5. NoOrphanShell'
  BY <1>1, <1>4 DEF Kept, NoOrphanShell, Alive, Registered
<1>6. Lifecycle'
  <2>1. \A s \in Sessions : ~Born(s)' => ~exited'[s] /\ s \notin stuck' /\ s \notin Registered'
    BY <1>1 DEF Kept, Lifecycle, Registered, Born
  <2>2. /\ \A b \in Actors : \A s \in sweep'[b] : Born(s)'
        /\ \A v \in Views : bound'[v] \in Sessions => Born(bound[v])'
    BY <1>1 DEF Kept, Lifecycle, Born
  <2>3. \A b \in Actors : pc'[b] \in HasTarget => Born(tgt[b])'
    BY <1>1, <1>2 DEF Kept, Lifecycle, HasTarget, Born
  <2>4. /\ \A b \in Actors :
              pc'[b] \in {"drop", "unregister", "clear"} => ~Alive(tgt[b])' \/ tgt'[b] \in stuck'
        /\ \A b \in Actors : pc'[b] = "forget" => ~SessionAlive(tgt[b])'
    BY <1>1, <1>2 DEF Kept, Lifecycle, SessionAlive, Alive
  <2>5. /\ \A s \in Sessions : rpc'[s] # "off" => Born(s)'
        /\ \A s \in Sessions : rpc'[s] = "notify" => ~Alive(s)'
    BY <1>b, <1>1, <1>3 DEF Kept, Lifecycle, Born, Alive
  <2>6. \A s \in Sessions : exited'[s] /\ Alive(s)' => BeingKilled(s)' \/ s \in stuck'
    BY <1>1, <1>4 DEF Kept, Lifecycle, Alive
  <2>7. QED
    BY <2>1, <2>2, <2>3, <2>4, <2>5, <2>6 DEF Lifecycle
<1>7. QED
  BY <1>5, <1>6 DEF Kept

LEMMA GetOrCreateKept ==
  ASSUME Inv0, Kept, NEW a \in Actors, GetOrCreate(a)
  PROVE  Kept'
<1>a. RegType /\ ActorType
  BY DEF Inv0, TypeOK
<1>b. /\ \A s \in sweep[a] : Born(s)
      /\ \A v \in Views : bound[v] \in Sessions => Born(bound[v])
      /\ \A s \in Registered : Born(s)
  BY DEF Kept, Lifecycle, Registered
<1>1. ASSUME NEW s \in Sessions, TryReap(a, s) PROVE Kept'
  <2>1. UNCHANGED <<shell, stuck, exited, rpc, registry, bound>>
    BY <1>1 DEF TryReap, regVars, ptyVars, connVars
  <2>2. Born(s)
    BY <1>b, <1>1 DEF TryReap
  <2>3. /\ \A b \in Actors \ {a} : pc'[b] = pc[b] /\ tgt'[b] = tgt[b] /\ sweep'[b] = sweep[b]
        /\ pc'[a] = "sweep" \/ (pc'[a] = "notify" /\ tgt'[a] = s)
        /\ pc[a] = "sweep" /\ sweep'[a] \subseteq sweep[a]
    BY <1>a, <1>1 DEF ActorType, TryReap, Condemn, Goto
  <2>4. Registered' = Registered
    BY <2>1 DEF Registered
  <2>5. QED
    BY <1>b, <2>1, <2>2, <2>3, <2>4, KeptActor DEF KillStage, HasTarget
<1>2. CASE SweepEnds(a) \/ SpawnFails(a)
  <2>1. UNCHANGED <<shell, stuck, exited, rpc, registry, tgt, sweep, bound>>
    BY <1>2 DEF SweepEnds, SpawnFails, regVars, ptyVars, sesVars, connVars
  <2>2. /\ \A b \in Actors \ {a} : pc'[b] = pc[b]
        /\ pc'[a] \in {"idle", "create"} /\ pc[a] \in {"sweep", "create"}
    BY <1>a, <1>2 DEF ActorType, SweepEnds, SpawnFails, ActorRests, Goto
  <2>3. Registered' = Registered
    BY <2>1 DEF Registered
  <2>4. QED
    BY <1>b, <2>1, <2>2, <2>3, KeptActor DEF KillStage, HasTarget
<1>3. CASE FindSession(a)
  <2>1. UNCHANGED <<shell, stuck, exited, rpc, registry, sweep, bound>>
    BY <1>3 DEF FindSession, regVars, ptyVars, sesVars, connVars
  <2>2. PICK k \in JobKeys(a) :
           ~Vacant(k) /\ tgt' = [tgt EXCEPT ![a] = IF a = Loop THEN registry[k] ELSE None]
    BY <1>3 DEF FindSession
  <2>3. k \in Keys /\ registry[k] \in Sessions
    BY <1>a, <2>2, ConstantsAssumption DEF JobKeys, RegType, Vacant
  <2>4. Born(registry[k])
    BY <1>b, <2>3 DEF Registered
  <2>5. /\ \A b \in Actors \ {a} : pc'[b] = pc[b] /\ tgt'[b] = tgt[b]
        /\ pc'[a] = "idle" \/ (pc'[a] = "attach" /\ tgt'[a] = registry[k])
        /\ pc[a] = "create"
    BY <1>a, <1>3, <2>2 DEF ActorType, FindSession, HasSession, ActorRests, Goto
  <2>6. Registered' = Registered
    BY <2>1 DEF Registered
  <2>7. QED
    BY <1>b, <2>1, <2>3, <2>4, <2>5, <2>6, KeptActor DEF KillStage, HasTarget
<1>4. CASE Spawn(a)
  BY <1>4, SpawnKept
<1>5. CASE StartReader(a)
  BY <1>5, StartReaderKept
<1>6. CASE Created(a)
  <2>1. UNCHANGED <<shell, stuck, exited, rpc, registry, sweep, bound>>
    BY <1>6 DEF regVars, Created, ptyVars, sesVars, connVars
  <2>2. tgt[a] \in Sessions /\ Born(tgt[a])
    BY <1>6 DEF Created, Inv0, Control, Kept, Lifecycle, HasTarget
  <2>3. /\ \A b \in Actors \ {a} : pc'[b] = pc[b] /\ tgt'[b] = tgt[b]
        /\ pc'[a] = "idle" \/ (pc'[a] = "attach" /\ tgt'[a] = tgt[a])
        /\ pc[a] = "pid"
    BY <1>a, <1>6 DEF ActorType, Created, HasSession, ActorRests, Goto
  <2>4. Registered' = Registered
    BY <2>1 DEF Registered
  <2>5. QED
    BY <1>b, <2>1, <2>2, <2>3, <2>4, KeptActor DEF KillStage, HasTarget
<1>7. QED
  BY <1>1, <1>2, <1>3, <1>4, <1>5, <1>6 DEF GetOrCreate

\* The self-heal thread drops only what is over: a session marked exited is dead,
\* or about to be killed by the thread that marked it.
LEMMA HealKept ==
  ASSUME Inv0, Kept, NEW a \in Actors, Heal(a)
  PROVE  Kept'
<1>a. RegType /\ ActorType
  BY DEF Inv0, TypeOK
<1>b. /\ \A s \in sweep[a] : Born(s)
      /\ \A v \in Views : bound[v] \in Sessions => Born(bound[v])
      /\ \A s \in Registered : Born(s)
  BY DEF Kept, Lifecycle, Registered
<1>1. CASE HealEnsures(a)
  <2>1. UNCHANGED <<shell, stuck, exited, rpc, registry, bound>>
    BY <1>1 DEF HealEnsures, regVars, ptyVars, sesVars, connVars
  <2>2. Registered' = Registered
    BY <2>1 DEF Registered
  <2>3. /\ \A b \in Actors \ {a} : pc'[b] = pc[b] /\ tgt'[b] = tgt[b] /\ sweep'[b] = sweep[b]
        /\ pc[a] = "idle"
        /\ \/ pc'[a] = "sweep" /\ sweep'[a] = Registered
           \/ /\ registry[HealKey] # None /\ ~SessionAlive(registry[HealKey])
              /\ pc'[a] = "forget" /\ tgt'[a] = registry[HealKey] /\ sweep'[a] = sweep[a]
    <3>1. CASE registry[HealKey] = None
      BY <1>a, <1>1, <3>1 DEF ActorType, HealEnsures, Snapshot, Goto
    <3>2. CASE registry[HealKey] # None
      BY <1>a, <1>1, <3>2 DEF ActorType, HealEnsures, Goto
    <3>3. QED
      BY <3>1, <3>2
  <2>4. registry[HealKey] # None => registry[HealKey] \in Registered
    BY <1>a, ConstantsAssumption DEF RegType, Registered
  <2>5. Registered \subseteq Sessions
    BY DEF Registered
  <2>6. QED
    BY <1>b, <2>1, <2>2, <2>3, <2>4, <2>5, KeptActor DEF KillStage, HasTarget
<1>2. CASE HealForgets(a)
  <2>1. UNCHANGED <<shell, stuck, exited, rpc, sweep, bound>>
    BY <1>2 DEF HealForgets, ptyVars, sesVars, connVars
  <2>2. /\ \A b \in Actors \ {a} : pc'[b] = pc[b] /\ tgt'[b] = tgt[b]
        /\ pc[a] = "forget" /\ pc'[a] = "enter"
    BY <1>a, <1>2 DEF ActorType, HealForgets, Goto
  <2>3. tgt[a] \in Sessions /\ ~SessionAlive(tgt[a])
    BY <2>2 DEF Inv0, Control, Kept, Lifecycle, HasTarget
  <2>4. /\ \A s \in Registered' : s \in Registered
        /\ \A s \in Registered : s \in Registered' \/ s = tgt[a]
    BY <1>2, NamesAssumption DEF HealForgets, Unregister, Registered
  <2>5. \A s \in Sessions : BeingKilled(s) => BeingKilled(s)'
    BY <2>2 DEF BeingKilled
  <2>6. \A s \in Sessions : s = tgt[a] => Excused(s)
    BY <2>3, <2>5 DEF Excused, SessionAlive, Kept, Lifecycle
  <2>7. \A s \in Registered : s \in Registered' \/ Excused(s)
    BY <2>4, <2>6 DEF Registered
  <2>8. /\ pc[a] \notin KillStage /\ pc'[a] \notin HasTarget
        /\ pc'[a] \notin {"drop", "unregister", "clear"} /\ pc'[a] # "forget"
    BY <2>2 DEF KillStage, HasTarget
  <2>9. QED
    BY <1>b, <2>1, <2>7, <2>8, <2>2, <2>4, <2>6, KeptActor DEF KillStage, HasTarget
<1>3. CASE HealEnters(a)
  <2>1. UNCHANGED <<shell, stuck, exited, rpc, registry, tgt, bound>>
    BY <1>3 DEF HealEnters, regVars, ptyVars, sesVars, connVars
  <2>2. Registered' = Registered
    BY <2>1 DEF Registered
  <2>3. /\ \A b \in Actors \ {a} : pc'[b] = pc[b] /\ sweep'[b] = sweep[b]
        /\ pc[a] = "enter" /\ pc'[a] = "sweep" /\ sweep'[a] = Registered
    BY <1>a, <1>3 DEF ActorType, HealEnters, Snapshot, Goto
  <2>4. QED
    BY <1>b, <2>1, <2>2, <2>3, KeptActor DEF KillStage, HasTarget
<1>4. QED
  BY <1>1, <1>2, <1>3 DEF Heal

LEMMA ReaperKept ==
  ASSUME Inv0, Kept, ReaperWakes
  PROVE  Kept'
<1>a. ActorType /\ Loop \in Actors
  BY DEF Inv0, TypeOK, Actors
<1>1. UNCHANGED <<shell, stuck, exited, rpc, registry, tgt, bound>>
  BY DEF ReaperWakes, regVars, ptyVars, sesVars, connVars
<1>2. Registered' = Registered
  BY <1>1 DEF Registered
<1>3. /\ \A b \in Actors \ {Loop} : pc'[b] = pc[b] /\ sweep'[b] = sweep[b]
      /\ pc[Loop] = "idle" /\ pc'[Loop] = "sweep" /\ sweep'[Loop] = Registered
  BY <1>a DEF ActorType, ReaperWakes, Snapshot, Goto
<1>4. /\ \A v \in Views : bound[v] \in Sessions => Born(bound[v])
      /\ \A s \in Registered : Born(s)
  BY DEF Kept, Lifecycle, Registered
<1>5. QED
  BY <1>a, <1>1, <1>2, <1>3, <1>4, KeptActor DEF KillStage, HasTarget

\* Connections only move the loop's program counter and bind views to sessions
\* in use.
LEMMA ConnectionKept ==
  ASSUME Inv0, Kept, NEW v \in Views, Handler(v) \/ Client(v)
  PROVE  Kept'
<1>a. ActorType /\ ConnType /\ Loop \in Actors
  BY DEF Inv0, TypeOK, Actors
<1>b. /\ \A s \in sweep[Loop] : Born(s)
      /\ \A w \in Views : bound[w] \in Sessions => Born(bound[w])
      /\ \A s \in Registered : Born(s)
  BY <1>a DEF Kept, Lifecycle, Registered
<1>1. CASE \/ SendReplay(v) \/ StartPump(v) \/ PumpSends(v) \/ CloseView(v)
           \/ HeartbeatDrops(v) \/ Pong(v) \/ ClientDrops(v)
  <2>1. UNCHANGED keptVars
    BY <1>1 DEF keptVars, SendReplay, StartPump, PumpSends, CloseView, HeartbeatDrops, Pong,
                ClientDrops, regVars, ptyVars, sesVars, actVars, connVars
  <2>2. QED
    BY <2>1, KeptFrame
<1>2. CASE Connect(v)
  <2>1. UNCHANGED <<shell, stuck, exited, rpc, registry, tgt, bound>>
    BY <1>2 DEF Connect, regVars, ptyVars, sesVars
  <2>2. Registered' = Registered
    BY <2>1 DEF Registered
  <2>3. /\ \A b \in Actors \ {Loop} : pc'[b] = pc[b] /\ sweep'[b] = sweep[b]
        /\ pc[Loop] = "idle" /\ pc'[Loop] = "sweep" /\ sweep'[Loop] = Registered
    BY <1>a, <1>2 DEF ActorType, Connect, LoopFree, Snapshot, Goto
  <2>4. QED
    BY <1>a, <1>b, <2>1, <2>2, <2>3, KeptActor DEF KillStage, HasTarget
<1>3. CASE Attach(v)
  <2>1. UNCHANGED <<shell, stuck, exited, rpc, registry, sweep>>
    BY <1>3 DEF Attach, regVars, ptyVars
  <2>2. Registered' = Registered
    BY <2>1 DEF Registered
  <2>3. /\ \A b \in Actors \ {Loop} : pc'[b] = pc[b] /\ tgt'[b] = tgt[b]
        /\ pc[Loop] = "attach" /\ pc'[Loop] = "idle"
    BY <1>a, <1>3 DEF ActorType, Attach, ActorRests, Goto
  <2>4. Born(tgt[Loop])
    BY <1>a, <2>3 DEF Kept, Lifecycle, HasTarget
  <2>5. bound' = [bound EXCEPT ![v] = tgt[Loop]]
    BY <1>3 DEF Attach
  <2>6. \A w \in Views : bound'[w] \in Sessions => Born(bound'[w])
    BY <1>a, <1>b, <2>4, <2>5 DEF ConnType
  <2>7. QED
    BY <1>a, <1>b, <2>1, <2>2, <2>3, <2>6, KeptActor DEF KillStage, HasTarget
<1>4. CASE ReceiveClose(v) \/ ReceiveEnds(v)
  <2>1. UNCHANGED <<shell, stuck, exited, rpc, registry, sweep, bound>>
    BY <1>4 DEF ReceiveClose, ReceiveEnds, regVars, ptyVars, sesVars
  <2>2. Registered' = Registered
    BY <2>1 DEF Registered
  <2>3. bound[v] \in Sessions
    BY <1>4 DEF ReceiveClose, ReceiveEnds, Inv0, Control
  <2>4. /\ \A b \in Actors \ {Loop} : pc'[b] = pc[b] /\ tgt'[b] = tgt[b]
        /\ pc[Loop] = "idle" /\ pc'[Loop] \in {"notify", "detach"} /\ tgt'[Loop] = bound[v]
    BY <1>a, <1>4 DEF ActorType, ReceiveClose, ReceiveEnds, LoopFree, Condemn, Goto
  <2>5. QED
    BY <1>a, <1>b, <2>1, <2>2, <2>3, <2>4, KeptActor DEF KillStage
<1>5. CASE Detach(v) \/ ExitCheck(v)
  <2>1. UNCHANGED <<shell, stuck, exited, rpc, registry, sweep, bound>>
    BY <1>5 DEF Detach, ExitCheck, regVars, ptyVars, connVars
  <2>2. Registered' = Registered
    BY <2>1 DEF Registered
  <2>3. /\ \A b \in Actors \ {Loop} : pc'[b] = pc[b] /\ tgt'[b] = tgt[b]
        /\ pc[Loop] \in {"detach", "exitcheck"}
        /\ pc'[Loop] = "idle" \/ (pc'[Loop] \in {"exitcheck", "notify"} /\ tgt'[Loop] = tgt[Loop])
    BY <1>a, <1>5 DEF ActorType, Detach, ExitCheck, ActorRests, Condemn, Goto
  <2>4. tgt[Loop] \in Sessions /\ Born(tgt[Loop])
    BY <1>a, <2>3 DEF Inv0, Control, Kept, Lifecycle, HasTarget
  <2>5. QED
    BY <1>a, <1>b, <2>1, <2>2, <2>3, <2>4, KeptActor DEF KillStage, HasTarget
<1>6. QED
  BY <1>1, <1>2, <1>3, <1>4, <1>5 DEF Handler, Client

LEMMA InitKept == Init => Kept
<1> SUFFICES ASSUME Init PROVE Kept
  OBVIOUS
<1>1. \A s \in Sessions : ~Born(s) /\ ~Alive(s) /\ ~exited[s] /\ rpc[s] = "off"
  BY DEF Init, Born, Alive
<1>2. Registered = {} /\ stuck = {}
  BY NamesAssumption DEF Init, Registered
<1>3. \A a \in Actors : pc[a] = "idle" /\ sweep[a] = {}
  BY DEF Init
<1>4. \A v \in Views : bound[v] \notin Sessions
  BY NamesAssumption DEF Init
<1>5. QED
  BY <1>1, <1>2, <1>3, <1>4 DEF Kept, Lifecycle, NoOrphanShell, HasTarget

LEMMA NextKept == Inv0 /\ Kept /\ [Next]_vars => Kept'
<1> SUFFICES ASSUME Inv0, Kept, [Next]_vars PROVE Kept'
  OBVIOUS
<1>1. ASSUME NEW s \in Sessions, ShellOutput(s) \/ PongAges(s)
      PROVE  Kept'
  <2>1. UNCHANGED keptVars
    BY <1>1 DEF keptVars, ShellOutput, PongAges, regVars, sesVars, actVars, connVars, ptyVars
  <2>2. QED
    BY <2>1, KeptFrame
<1>2. ASSUME NEW s \in Sessions, ShellExits(s) \/ Reader(s)
      PROVE  Kept'
  BY <1>2, ShellExitsKept, ReaderKept
<1>3. ASSUME NEW a \in Actors, KillPath(a) \/ GetOrCreate(a) \/ Heal(a)
      PROVE  Kept'
  BY <1>3, KillPathKept, GetOrCreateKept, HealKept
<1>4. ASSUME NEW v \in Views, Handler(v) \/ Client(v)
      PROVE  Kept'
  BY <1>4, ConnectionKept
<1>5. CASE ReaperWakes
  BY <1>5, ReaperKept
<1>6. CASE Tick \/ UNCHANGED vars
  <2>1. UNCHANGED keptVars
    BY <1>6 DEF keptVars, Tick, vars, regVars, ptyVars, sesVars, actVars, connVars
  <2>2. QED
    BY <2>1, KeptFrame
<1>7. QED
  BY <1>1, <1>2, <1>3, <1>4, <1>5, <1>6 DEF Next

\* However many threads create, reap, close and forget sessions of however many
\* tabs: a shell that runs and is not in the registry is about to be killed, or
\* its kill failed.
THEOREM NoOrphan == Spec => []NoOrphanShell
<1>1. Inv0 /\ Kept /\ [Next]_vars => Kept'
  BY NextKept
<1>2. Spec => []Kept
  BY InitKept, <1>1, ControlHolds, PTL DEF Spec
<1>3. Kept => NoOrphanShell
  BY DEF Kept
<1>4. QED
  BY <1>2, <1>3, PTL

-----------------------------------------------------------------------------
(* Who detaches a view, and what the reaper kills.                         *)

\* The steps that change who is attached.
LEMMA WhoDetaches ==
  ASSUME Inv0, [Next]_vars
  PROVE  \/ att' = att
         \/ \E a \in Actors : DropView(a)
         \/ \E v \in Views : Attach(v) \/ HeartbeatDrops(v) \/ Detach(v)
<1>1. ASSUME NEW s \in Sessions, ShellOutput(s) \/ ShellExits(s) \/ Reader(s) \/ PongAges(s)
      PROVE  att' = att
  BY <1>1 DEF ShellOutput, ShellExits, PongAges, Reader, ReaderTop, ReaderPublish,
     ReaderDeliver, ReaderEmpty, ReaderAfterEmpty, ReaderError, ReaderEnds, ReaderNotifies,
     sesVars
<1>2. ASSUME NEW a \in Actors, KillPath(a) \/ GetOrCreate(a) \/ Heal(a)
      PROVE  att' = att \/ DropView(a)
  BY <1>2 DEF KillPath, KillNotifies, KillDelivers, KillShell, KillUnregisters, KillEnds,
     GetOrCreate, TryReap, SweepEnds, FindSession, Spawn, SpawnFails, StartReader, Created,
     Heal, HealEnsures, HealForgets, HealEnters, sesVars
<1>3. ASSUME NEW v \in Views, Handler(v) \/ Client(v)
      PROVE  att' = att \/ Attach(v) \/ HeartbeatDrops(v) \/ Detach(v)
  BY <1>3 DEF Handler, SendReplay, StartPump, PumpSends, ReceiveEnds, ExitCheck, CloseView,
     Client, Connect, Pong, ReceiveClose, ClientDrops, sesVars
<1>4. CASE ReaperWakes \/ Tick \/ UNCHANGED vars
  BY <1>4 DEF ReaperWakes, Tick, vars, sesVars
<1> QED
  BY <1>1, <1>2, <1>3, <1>4 DEF Next

\* Whatever the order in which connections replace each other and end: a view loses
\* its session only when the session is over, or by its own handler or heartbeat; the
\* teardown of the connection it replaced leaves it attached (detach).
THEOREM OwnDetach == Spec => OnlyOwnDetach
<1>1. ASSUME Inv0, [Next]_vars, NEW s \in Sessions, att[s] # None, att'[s] = None
      PROVE  exited'[s] \/ job[Loop] = att[s] \/ sock'[att[s]] = "closed"
  <2>a. SesType /\ ConnType /\ Control /\ None \notin Views /\ Loop \in Actors
    BY <1>1, NamesAssumption DEF Inv0, TypeOK, Actors
  <2>1. ASSUME NEW a \in Actors, DropView(a) PROVE exited'[s]
    <3>1. tgt[a] \in Sessions
      BY <2>1, <2>a DEF DropView, Control, HasTarget
    <3> QED
      BY <1>1, <2>1, <2>a, <3>1 DEF DropView, SesType
  <2>2. ASSUME NEW v \in Views, Attach(v) PROVE FALSE
    BY <1>1, <2>2, <2>a DEF Attach, SesType
  <2>3. ASSUME NEW v \in Views, HeartbeatDrops(v) PROVE sock'[att[s]] = "closed"
    <3>1. att[s] = v
      BY <1>1, <2>3, <2>a DEF HeartbeatDrops, DetachView, SesType
    <3> QED
      BY <2>3, <2>a, <3>1 DEF HeartbeatDrops, ConnType
  <2>4. ASSUME NEW v \in Views, Detach(v) PROVE job[Loop] = att[s]
    BY <1>1, <2>4, <2>a DEF Detach, DetachView, SesType
  <2> QED
    BY <1>1, <2>1, <2>2, <2>3, <2>4, WhoDetaches
<1>2. ASSUME Inv0, [Next]_vars
      PROVE  \A s \in Sessions : (att[s] # None /\ att'[s] = None) =>
                exited'[s] \/ job[Loop] = att[s] \/ sock'[att[s]] = "closed"
  BY <1>1, <1>2
<1> QED
  BY <1>2, ControlHolds, PTL DEF Spec, OnlyOwnDetach

\* What the event loop condemned as an idle orphan stays unwatched: only the loop
\* itself attaches views.
OrphanStaysAlone ==
    pc[Loop] \in KillStage /\ why[Loop] = "orphan" => att[tgt[Loop]] = None

LEMMA OrphanStep ==
  ASSUME Inv0, OrphanStaysAlone, [Next]_vars
  PROVE  OrphanStaysAlone'
<1>a. ActorType /\ SesType /\ Control /\ Loop \in Actors
  BY DEF Inv0, TypeOK, Actors
<1>0. SUFFICES ASSUME pc'[Loop] \in KillStage, why'[Loop] = "orphan"
               PROVE  att'[tgt'[Loop]] = None
  BY DEF OrphanStaysAlone
<1>1. ASSUME NEW s \in Sessions, TryReap(Loop, s) PROVE att'[tgt'[Loop]] = None
  <2>1. CASE ~Eligible(s)
    BY <1>0, <1>1, <1>a, <2>1 DEF TryReap, KillStage
  <2>2. CASE Eligible(s)
    <3>1. tgt'[Loop] = s /\ ~Gone(s) /\ att' = att
      BY <1>0, <1>1, <1>a, <2>2 DEF TryReap, Condemn, ActorType
    <3> QED
      BY <2>2, <3>1 DEF Eligible
  <2> QED
    BY <2>1, <2>2
<1>2. ASSUME pc[Loop] \in KillStage, UNCHANGED <<tgt[Loop], why[Loop]>>
      PROVE  att'[tgt'[Loop]] = None
  <2>1. att[tgt[Loop]] = None /\ tgt[Loop] \in Sessions
    BY <1>0, <1>2, <1>a DEF OrphanStaysAlone, Control, KillStage, HasTarget
  <2>2. ASSUME NEW a \in Actors, DropView(a) PROVE att'[tgt[Loop]] = None
    BY <1>a, <2>1, <2>2 DEF DropView, SesType
  <2>3. ASSUME NEW v \in Views, Attach(v) PROVE FALSE
    BY <1>2, <2>3 DEF Attach, KillStage
  <2>4. ASSUME NEW v \in Views, HeartbeatDrops(v) \/ Detach(v) PROVE att'[tgt[Loop]] = None
    BY <1>2, <2>4 DEF HeartbeatDrops, Detach, LoopFree, KillStage
  <2> QED
    BY <1>2, <2>1, <2>2, <2>3, <2>4, WhoDetaches
<1>3. CASE UNCHANGED <<pc, tgt, why>>
  BY <1>0, <1>2, <1>3
<1>4. ASSUME NEW a \in Actors, KillPath(a) \/ GetOrCreate(a) \/ Heal(a),
             ~ \E s \in Sessions : TryReap(Loop, s)
      PROVE  att'[tgt'[Loop]] = None
  <2>1. CASE a # Loop
    <3>1. ASSUME KillPath(a) PROVE UNCHANGED <<pc[Loop], tgt[Loop], why[Loop]>>
      BY <1>a, <2>1, <3>1 DEF KillPath, KillNotifies, KillDelivers, KillShell, DropView,
         KillUnregisters, KillEnds, Goto, ActorRests, ActorType
    <3>2. ASSUME GetOrCreate(a) PROVE UNCHANGED <<pc[Loop], tgt[Loop], why[Loop]>>
      BY <1>a, <2>1, <3>2 DEF GetOrCreate, TryReap, SweepEnds, FindSession, Spawn,
         SpawnFails, StartReader, Created, Goto, ActorRests, HasSession, Condemn, ActorType
    <3>3. ASSUME Heal(a) PROVE UNCHANGED <<pc[Loop], tgt[Loop], why[Loop]>>
      BY <1>a, <2>1, <3>3 DEF Heal, HealEnsures, HealForgets, HealEnters, Goto, ActorRests,
         HasSession, Snapshot, ActorType
    <3>4. UNCHANGED <<pc[Loop], tgt[Loop], why[Loop]>>
      BY <1>4, <3>1, <3>2, <3>3
    <3> QED
      BY <1>0, <1>2, <1>3, <3>4
  <2>2. CASE a = Loop
    <3>1. ASSUME KillPath(a) PROVE pc[Loop] \in KillStage /\ UNCHANGED <<tgt, why>>
      BY <1>0, <1>a, <2>2, <3>1 DEF KillPath, KillNotifies, KillDelivers, KillShell,
         DropView, KillUnregisters, KillEnds, Goto, ActorRests, ActorType, KillStage
    <3>2. ASSUME GetOrCreate(a) PROVE FALSE
      BY <1>0, <1>4, <1>a, <2>2, <3>2 DEF GetOrCreate, SweepEnds, FindSession, Spawn,
         SpawnFails, StartReader, Created, Goto, ActorRests, HasSession, ActorType,
         KillStage
    <3>3. ASSUME Heal(a) PROVE FALSE
      BY <1>0, <1>a, <2>2, <3>3 DEF Heal, HealEnsures, HealForgets, HealEnters, Goto,
         Snapshot, ActorType, KillStage
    <3>4. pc[Loop] \in KillStage /\ UNCHANGED <<tgt, why>>
      BY <1>4, <3>1, <3>2, <3>3
    <3> QED
      BY <1>0, <1>2, <3>4
  <2> QED
    BY <2>1, <2>2
<1>5. ASSUME NEW v \in Views, Handler(v) \/ Client(v) PROVE att'[tgt'[Loop]] = None
  <2>1. CASE UNCHANGED <<pc, tgt, why>>
    BY <1>3, <2>1
  <2>2. CASE Connect(v) \/ Attach(v) \/ ReceiveEnds(v) \/ Detach(v)
    BY <1>0, <1>a, <2>2 DEF Connect, Attach, ReceiveEnds, Detach, Snapshot, ActorRests, Goto,
       ActorType, KillStage
  <2>3. CASE ReceiveClose(v) \/ ExitCheck(v)
    BY <1>0, <1>a, <2>3 DEF ReceiveClose, ExitCheck, Condemn, ActorRests, Goto, ActorType,
       KillStage
  <2> QED
    BY <1>5, <2>1, <2>2, <2>3 DEF Handler, SendReplay, StartPump, PumpSends, CloseView,
       HeartbeatDrops, Client, Pong, ClientDrops, actVars
<1>6. CASE ReaperWakes
  BY <1>0, <1>a, <1>6 DEF ReaperWakes, Snapshot, Goto, ActorType, KillStage
<1>7. CASE Tick \/ UNCHANGED vars
  BY <1>3, <1>7 DEF Tick, vars, actVars
<1>8. ASSUME NEW s \in Sessions, ShellOutput(s) \/ ShellExits(s) \/ Reader(s) \/ PongAges(s)
      PROVE  UNCHANGED <<pc, tgt, why>>
  BY <1>8 DEF ShellOutput, ShellExits, PongAges, Reader, ReaderTop, ReaderPublish,
     ReaderDeliver, ReaderEmpty, ReaderAfterEmpty, ReaderError, ReaderEnds, ReaderNotifies,
     actVars
<1> QED
  BY <1>1, <1>3, <1>4, <1>5, <1>6, <1>7, <1>8 DEF Next

\* A running shell that the event loop (the reaper, or the sweep of a connecting
\* handler) is killing for idleness is watched by nobody, self-heal threads or not.
THEOREM LoopKillsUnwatched == Spec => []OrphanStaysAlone
<1>1. Init => OrphanStaysAlone
  BY DEF Init, OrphanStaysAlone, KillStage, Actors
<1>2. Inv0 /\ OrphanStaysAlone /\ [Next]_vars => OrphanStaysAlone'
  BY OrphanStep
<1> QED
  BY <1>1, <1>2, ControlHolds, PTL DEF Spec

-----------------------------------------------------------------------------
(* Sequences of chunks and exit sentinels.                                 *)

HasExit(q)   == \E i \in 1 .. Len(q) : q[i] = Exit
AtMost(q, n) == \A i \in 1 .. Len(q) : IsChunk(q[i]) => q[i] <= n

LEMMA ItemKinds ==
  /\ Exit \in Items /\ ~IsChunk(Exit)
  /\ \A i \in Items : IsChunk(i) <=> i \in Chunks
  /\ \A i \in Chunks : i \in Nat /\ i \in Items /\ i > 0
<1>1. Exit \notin Chunks
  BY NamesAssumption DEF Chunks
<1>2. QED
  BY <1>1, ConstantsAssumption DEF Items, IsChunk, Chunks

\* An item that moves from one part of a stream to the part before it leaves the
\* stream as it was.
LEMMA MoveHead ==
  ASSUME NEW p \in Seq(Items), NEW q \in Seq(Items), q # <<>>
  PROVE  Append(p, Head(q)) \o Tail(q) = p \o q
<1> DEFINE h == Head(q)
           t == Tail(q)
           a == Append(p, h)
<1>1. h = q[1] /\ h \in Items /\ t \in Seq(Items) /\ Len(t) = Len(q) - 1
  BY HeadTailProperties
<1>2. \A i \in 1 .. Len(t) : t[i] = q[i + 1]
  BY HeadTailProperties
<1>3. Len(q) \in Nat /\ Len(q) > 0 /\ Len(p) \in Nat
  BY EmptySeq, LenProperties
<1> HIDE DEF h, t
<1>4. /\ a \in Seq(Items) /\ Len(a) = Len(p) + 1
      /\ \A i \in 1 .. Len(p) : a[i] = p[i]
      /\ a[Len(p) + 1] = h
  BY <1>1, AppendProperties
<1> HIDE DEF a
<1>5. /\ a \o t \in Seq(Items) /\ p \o q \in Seq(Items)
      /\ Len(a \o t) = Len(p) + Len(q) /\ Len(p \o q) = Len(p) + Len(q)
  <2>1. a \o t \in Seq(Items) /\ Len(a \o t) = Len(a) + Len(t)
    BY <1>1, <1>4, ConcatProperties
  <2>2. p \o q \in Seq(Items) /\ Len(p \o q) = Len(p) + Len(q)
    BY ConcatProperties
  <2> QED
    BY <1>1, <1>3, <1>4, <2>1, <2>2
<1>6. ASSUME NEW i \in 1 .. Len(p) + Len(q)
      PROVE  (a \o t)[i] = (p \o q)[i]
  <2>1. (p \o q)[i] = IF i <= Len(p) THEN p[i] ELSE q[i - Len(p)]
    BY ConcatProperties
  <2>2. (a \o t)[i] = IF i <= Len(p) + 1 THEN a[i] ELSE t[i - (Len(p) + 1)]
    BY <1>1, <1>3, <1>4, ConcatProperties
  <2>3. CASE i <= Len(p)
    BY <1>3, <1>4, <2>1, <2>2, <2>3
  <2>4. CASE i = Len(p) + 1
    BY <1>1, <1>3, <1>4, <2>1, <2>2, <2>4
  <2>5. CASE i > Len(p) + 1
    <3>1. i - (Len(p) + 1) \in 1 .. Len(t) /\ (i - (Len(p) + 1)) + 1 = i - Len(p)
      BY <1>1, <1>3, <2>5
    <3>2. t[i - (Len(p) + 1)] = q[i - Len(p)]
      BY <1>2, <3>1
    <3>3. (p \o q)[i] = q[i - Len(p)]
      BY <1>3, <2>1, <2>5
    <3>4. (a \o t)[i] = t[i - (Len(p) + 1)]
      BY <1>3, <2>2, <2>5
    <3> QED
      BY <3>2, <3>3, <3>4
  <2>6. i <= Len(p) \/ i = Len(p) + 1 \/ i > Len(p) + 1
    BY <1>3
  <2> QED
    BY <2>3, <2>4, <2>5, <2>6
<1>7. a \o t = p \o q
  BY <1>3, <1>5, <1>6, SeqEqual
<1> QED
  BY <1>7 DEF a, h, t

LEMMA AppendLast ==
  ASSUME NEW p \in Seq(Items), NEW q \in Seq(Items), NEW i \in Items
  PROVE  p \o Append(q, i) = Append(p \o q, i)
<1>1. Append(q, i) = q \o <<i>> /\ Append(p \o q, i) = (p \o q) \o <<i>>
  BY AppendIsConcat, ConcatProperties
<1>2. <<i>> \in Seq(Items)
  OBVIOUS
<1> QED
  BY <1>1, <1>2, ConcatAssociative

\* A concatenation, looked at where its parts meet.
LEMMA AtTheJoin ==
  ASSUME NEW p \in Seq(Items), NEW q \in Seq(Items), q # <<>>
  PROVE  /\ Len(p) + 1 \in 1 .. Len(p \o q) /\ (p \o q)[Len(p) + 1] = Head(q)
         /\ p # <<>> => Len(p) \in 1 .. Len(p \o q) /\ (p \o q)[Len(p)] = p[Len(p)]
         /\ Head(q) \in Items
<1>1. Len(p) \in Nat /\ Len(q) \in Nat /\ Len(q) > 0 /\ (p # <<>> => Len(p) > 0)
  BY EmptySeq, LenProperties
<1>2. Len(p \o q) = Len(p) + Len(q)
  BY ConcatProperties
<1>3. Head(q) = q[1] /\ Head(q) \in Items
  BY HeadTailProperties
<1>4. (p \o q)[Len(p) + 1] = q[1]
  BY <1>1, ConcatProperties
<1>5. p # <<>> => (p \o q)[Len(p)] = p[Len(p)]
  BY <1>1, ConcatProperties
<1> QED
  BY <1>1, <1>2, <1>3, <1>4, <1>5

\* The next chunk keeps a stream without gaps and up to date.
LEMMA NextChunk ==
  ASSUME NEW q \in Seq(Items), NEW n \in Nat, n + 1 \in Chunks, Unbroken(q), UpTo(q, n)
  PROVE  Unbroken(Append(q, n + 1)) /\ UpTo(Append(q, n + 1), n + 1)
<1> DEFINE a == Append(q, n + 1)
<1>1. n + 1 \in Items /\ IsChunk(n + 1)
  BY ItemKinds
<1>2. /\ Len(a) = Len(q) + 1 /\ Len(q) \in Nat
      /\ \A i \in 1 .. Len(q) : a[i] = q[i]
      /\ a[Len(q) + 1] = n + 1
  BY <1>1, AppendProperties, LenProperties
<1> HIDE DEF a
<1>3. UpTo(a, n + 1)
  BY <1>1, <1>2 DEF UpTo
<1>4. ASSUME NEW i \in 1 .. Len(a), NEW j \in 1 .. Len(a), FollowsIn(a, i, j)
      PROVE  a[j] = a[i] + 1
  <2>1. i < j /\ i \in 1 .. Len(q) /\ IsChunk(a[i])
    BY <1>2, <1>4 DEF FollowsIn
  <2>2. CASE j \in 1 .. Len(q)
    <3>1. FollowsIn(q, i, j)
      BY <1>2, <1>4, <2>1, <2>2 DEF FollowsIn
    <3> QED
      BY <1>2, <2>1, <2>2, <3>1 DEF Unbroken
  <2>3. CASE j = Len(q) + 1
    <3>1. \A k \in i + 1 .. Len(q) : ~IsChunk(q[k])
      BY <1>2, <1>4, <2>1, <2>3 DEF FollowsIn
    <3>2. IsChunk(q[i])
      BY <1>2, <2>1
    <3>3. PICK l \in 1 .. Len(q) :
             /\ IsChunk(q[l]) /\ q[l] = n
             /\ \A k \in l + 1 .. Len(q) : ~IsChunk(q[k])
      BY <2>1, <3>2 DEF UpTo
    <3>4. l = i
      <4>1. CASE l < i
        BY <1>2, <2>1, <3>2, <3>3, <4>1
      <4>2. CASE l > i
        BY <1>2, <2>1, <3>1, <3>3, <4>2
      <4> QED
        BY <1>2, <2>1, <4>1, <4>2
    <3> QED
      BY <1>2, <2>1, <2>3, <3>3, <3>4
  <2> QED
    BY <1>2, <2>2, <2>3
<1> QED
  BY <1>3, <1>4 DEF Unbroken, a

\* A sentinel at the end is no chunk.
LEMMA SentinelLast ==
  ASSUME NEW q \in Seq(Items)
  PROVE  /\ Unbroken(q) => Unbroken(Append(q, Exit))
         /\ \A n \in Nat : UpTo(q, n) => UpTo(Append(q, Exit), n)
         /\ \A n \in Nat : AtMost(q, n) => AtMost(Append(q, Exit), n)
<1> DEFINE a == Append(q, Exit)
<1>1. /\ Len(a) = Len(q) + 1 /\ Len(q) \in Nat
      /\ \A i \in 1 .. Len(q) : a[i] = q[i]
      /\ a[Len(q) + 1] = Exit /\ ~IsChunk(a[Len(q) + 1])
  BY ItemKinds, AppendProperties, LenProperties
<1> HIDE DEF a
<1>2. ASSUME Unbroken(q), NEW i \in 1 .. Len(a), NEW j \in 1 .. Len(a), FollowsIn(a, i, j)
      PROVE  a[j] = a[i] + 1
  <2>1. i \in 1 .. Len(q) /\ j \in 1 .. Len(q)
    BY <1>1, <1>2 DEF FollowsIn
  <2>2. FollowsIn(q, i, j)
    BY <1>1, <1>2, <2>1 DEF FollowsIn
  <2> QED
    BY <1>1, <1>2, <2>1, <2>2 DEF Unbroken
<1>3. \A n \in Nat : UpTo(q, n) => UpTo(a, n)
  BY <1>1 DEF UpTo
<1>4. \A n \in Nat : AtMost(q, n) => AtMost(a, n)
  BY <1>1 DEF AtMost
<1> QED
  BY <1>2, <1>3, <1>4 DEF Unbroken, a

\* Nor is one that slips in before the last chunk, which a thread still holds.
LEMMA SentinelBeforeLast ==
  ASSUME NEW q \in Seq(Items), NEW c \in Chunks
  PROVE  LET a == Append(q, c)
             b == Append(Append(q, Exit), c)
         IN  /\ Unbroken(a) => Unbroken(b)
             /\ \A n \in Nat : UpTo(a, n) => UpTo(b, n)
             /\ \A n \in Nat : AtMost(a, n) => AtMost(b, n)
<1> DEFINE a == Append(q, c)
           e == Append(q, Exit)
           b == Append(e, c)
           m == Len(q)
<1>1. c \in Items /\ IsChunk(c) /\ ~IsChunk(Exit) /\ Exit \in Items /\ m \in Nat
  BY ItemKinds, LenProperties
<1>2. /\ Len(a) = m + 1 /\ a[m + 1] = c
      /\ \A i \in 1 .. m : a[i] = q[i]
  BY <1>1, AppendProperties
<1>3. e \in Seq(Items) /\ Len(e) = m + 1 /\ e[m + 1] = Exit /\ \A i \in 1 .. m : e[i] = q[i]
  BY <1>1, AppendProperties
<1> HIDE DEF e
<1>4. Len(b) = m + 2 /\ b[m + 2] = c /\ \A i \in 1 .. m + 1 : b[i] = e[i]
  BY <1>1, <1>3, AppendProperties
<1> HIDE DEF a, b, m
<1>5. b[m + 1] = Exit /\ \A i \in 1 .. m : b[i] = a[i]
  BY <1>1, <1>2, <1>3, <1>4
<1>6. ASSUME Unbroken(a), NEW i \in 1 .. Len(b), NEW j \in 1 .. Len(b), FollowsIn(b, i, j)
      PROVE  b[j] = b[i] + 1
  <2>1. i < j /\ IsChunk(b[i]) /\ IsChunk(b[j]) /\ \A k \in i + 1 .. j - 1 : ~IsChunk(b[k])
    BY <1>6 DEF FollowsIn
  <2>2. i \in 1 .. m
    BY <1>1, <1>4, <1>5, <2>1
  <2>3. CASE j \in 1 .. m
    <3>1. FollowsIn(a, i, j)
      BY <1>1, <1>5, <2>1, <2>2, <2>3 DEF FollowsIn
    <3> QED
      BY <1>1, <1>2, <1>5, <1>6, <2>2, <2>3, <3>1 DEF Unbroken
  <2>4. CASE j = m + 2
    <3>1. \A k \in i + 1 .. m : ~IsChunk(a[k])
      BY <1>1, <1>5, <2>1, <2>2, <2>4
    <3>2. FollowsIn(a, i, m + 1)
      BY <1>1, <1>2, <1>5, <2>1, <2>2, <3>1 DEF FollowsIn
    <3> QED
      BY <1>1, <1>2, <1>4, <1>5, <1>6, <2>2, <2>4, <3>2 DEF Unbroken
  <2> QED
    BY <1>1, <1>4, <1>5, <2>1, <2>3, <2>4
<1>7. ASSUME NEW n \in Nat, UpTo(a, n) PROVE UpTo(b, n)
  <2>1. c = n
    BY <1>1, <1>2, <1>7 DEF UpTo
  <2> QED
    BY <1>1, <1>4, <2>1 DEF UpTo
<1>8. ASSUME NEW n \in Nat, AtMost(a, n) PROVE AtMost(b, n)
  BY <1>1, <1>2, <1>4, <1>5, <1>8 DEF AtMost
<1> QED
  BY <1>6, <1>7, <1>8 DEF Unbroken, a, b, e

-----------------------------------------------------------------------------
(* The catch-up buffer.                                                    *)

\* What RingIsRecent says of a session whose ring is q after n chunks.
Recent(q, n) ==
    /\ Len(q) <= n
    /\ n > 0 => q # <<>>
    /\ \A i \in DOMAIN q : q[i] = n - Len(q) + i
    /\ Len(q) > 1 => Bytes(q) <= RingMax

\* _publish appends the next chunk and drops the oldest ones.
LEMMA RecentAfter ==
  ASSUME NEW q \in Seq(Chunks), NEW n \in Nat, n + 1 \in Chunks, Recent(q, n),
         NEW i \in 1 .. Len(q) + 1, TrimmedAt(Append(q, n + 1), i)
  PROVE  Recent(SubSeq(Append(q, n + 1), i, Len(q) + 1), n + 1)
<1> DEFINE all == Append(q, n + 1)
           kept == SubSeq(all, i, Len(q) + 1)
<1>1. /\ all \in Seq(Chunks) /\ Len(all) = Len(q) + 1 /\ Len(q) \in Nat
      /\ \A j \in 1 .. Len(q) : all[j] = q[j]
      /\ all[Len(q) + 1] = n + 1
  BY AppendProperties, LenProperties
<1>2. \A j \in 1 .. Len(q) : q[j] = n - Len(q) + j
  BY LenProperties DEF Recent
<1> HIDE DEF all
<1>3. \A j \in 1 .. Len(q) + 1 : all[j] = n - Len(q) + j
  BY <1>1, <1>2
<1>4. /\ kept \in Seq(Chunks) /\ Len(kept) = Len(q) + 1 - i + 1
      /\ \A j \in 1 .. Len(q) + 1 - i + 1 : kept[j] = all[i + j - 1]
  <2>1. \A j \in i .. Len(q) + 1 : all[j] \in Chunks
    BY <1>1, ElementOfSeq
  <2> QED
    BY <1>1, <2>1, SubSeqProperties
<1>5. i = Len(all) \/ Bytes(SubSeq(all, i, Len(all))) <= RingMax
  BY DEF TrimmedAt, all
<1> HIDE DEF kept
<1>6. Len(kept) <= n + 1 /\ Len(kept) > 0
  BY <1>1, <1>4 DEF Recent
<1>7. DOMAIN kept = 1 .. Len(kept) /\ kept # <<>>
  BY <1>4, <1>6, LenProperties, EmptySeq
<1>8. ASSUME NEW j \in 1 .. Len(kept) PROVE kept[j] = n + 1 - Len(kept) + j
  <2>1. i + j - 1 \in 1 .. Len(q) + 1 /\ j \in 1 .. Len(q) + 1 - i + 1
    BY <1>1, <1>4
  <2>2. kept[j] = n - Len(q) + (i + j - 1)
    BY <1>3, <1>4, <2>1
  <2> QED
    BY <1>1, <1>4, <2>2
<1>9. Len(kept) > 1 => Bytes(kept) <= RingMax
  BY <1>1, <1>4, <1>5 DEF kept
<1>10. Recent(kept, n + 1)
  BY <1>6, <1>7, <1>8, <1>9 DEF Recent
<1> QED
  BY <1>10 DEF kept, all

\* The facts about a step of _publish that other lemmas need.
LEMMA PublishFacts ==
  ASSUME Inv0, NEW s \in Sessions, ReaderPublish(s)
  PROVE  /\ outSeq \in [Sessions -> Nat] /\ outSeq[s] + 1 \in Chunks
         /\ outSeq' = [outSeq EXCEPT ![s] = outSeq[s] + 1]
         /\ ring[s] \in Seq(Chunks)
<1>a. RegType /\ PtyType /\ SesType /\ Control
  BY DEF Inv0, TypeOK
<1>1. /\ outSeq[s] \in Nat /\ unread[s] \in Nat /\ unread[s] > 0
      /\ outSeq[s] + unread[s] <= MaxOut /\ MaxOut \in Nat
  BY <1>a, ConstantsAssumption DEF SesType, PtyType, Control, ReaderPublish
<1> QED
  BY <1>a, <1>1 DEF SesType, Chunks, ReaderPublish

LEMMA RingStep ==
  ASSUME Inv0, RingIsRecent, [Next]_vars
  PROVE  RingIsRecent'
<1>1. CASE UNCHANGED <<ring, outSeq>>
  BY <1>1 DEF RingIsRecent
<1>2. ASSUME NEW s \in Sessions, ReaderPublish(s) PROVE RingIsRecent'
  <2> DEFINE all == Append(ring[s], outSeq[s] + 1)
  <2>1. PICK i \in 1 .. Len(all) :
           TrimmedAt(all, i) /\ ring' = [ring EXCEPT ![s] = SubSeq(all, i, Len(all))]
    BY <1>2 DEF ReaderPublish
  <2>2. /\ outSeq[s] \in Nat /\ outSeq[s] + 1 \in Chunks /\ ring[s] \in Seq(Chunks)
        /\ \A u \in Sessions : outSeq'[u] = IF u = s THEN outSeq[s] + 1 ELSE outSeq[u]
    BY <1>2, PublishFacts
  <2>3. Len(all) = Len(ring[s]) + 1
    BY <2>2, AppendProperties
  <2>4. \A u \in Sessions : Recent(ring[u], outSeq[u])
    BY DEF RingIsRecent, Recent
  <2>5. Recent(SubSeq(all, i, Len(all)), outSeq[s] + 1)
    BY <2>1, <2>2, <2>3, <2>4, RecentAfter
  <2> HIDE DEF all
  <2>6. SesType
    BY DEF Inv0, TypeOK
  <2>7. \A u \in Sessions : ring'[u] = IF u = s THEN SubSeq(all, i, Len(all)) ELSE ring[u]
    BY <2>1, <2>6 DEF SesType
  <2>8. ASSUME NEW u \in Sessions PROVE Recent(ring'[u], outSeq'[u])
    BY <2>2, <2>4, <2>5, <2>7
  <2> QED
    BY <2>8 DEF RingIsRecent, Recent
<1>3. CASE ~ \E s \in Sessions : ReaderPublish(s)
  <2>1. ASSUME NEW s \in Sessions, ShellOutput(s) \/ ShellExits(s) \/ Reader(s) \/ PongAges(s)
        PROVE  UNCHANGED <<ring, outSeq>>
    BY <1>3, <2>1 DEF sesVars, ShellOutput, ShellExits, PongAges, Reader, ReaderTop,
        ReaderDeliver, ReaderEmpty, ReaderAfterEmpty, ReaderError, ReaderEnds, ReaderNotifies
  <2>2. ASSUME NEW a \in Actors, KillPath(a) PROVE UNCHANGED <<ring, outSeq>>
    BY <2>2 DEF sesVars, KillPath, KillNotifies, KillDelivers, KillShell, DropView,
        KillUnregisters, KillEnds
  <2>3. ASSUME NEW a \in Actors, GetOrCreate(a) PROVE UNCHANGED <<ring, outSeq>>
    BY <2>3 DEF sesVars, GetOrCreate, TryReap, SweepEnds, FindSession, Spawn, SpawnFails,
        StartReader, Created
  <2>4. ASSUME NEW a \in Actors, Heal(a) PROVE UNCHANGED <<ring, outSeq>>
    BY <2>4 DEF sesVars, Heal, HealEnsures, HealForgets, HealEnters
  <2>5. ASSUME NEW v \in Views, Handler(v) PROVE UNCHANGED <<ring, outSeq>>
    BY <2>5 DEF sesVars, Handler, Attach, SendReplay, StartPump, PumpSends, ReceiveEnds,
        Detach, ExitCheck, CloseView, HeartbeatDrops
  <2>6. ASSUME NEW v \in Views, Client(v) PROVE UNCHANGED <<ring, outSeq>>
    BY <2>6 DEF sesVars, Client, Connect, Pong, ReceiveClose, ClientDrops
  <2>7. ReaperWakes \/ Tick \/ UNCHANGED vars => UNCHANGED <<ring, outSeq>>
    BY DEF vars, sesVars, ReaperWakes, Tick
  <2> QED
    BY <1>1, <2>1, <2>2, <2>3, <2>4, <2>5, <2>6, <2>7 DEF Next
<1> QED
  BY <1>2, <1>3

LEMMA RingInit ==
  ASSUME Init
  PROVE  RingIsRecent
<1>1. \A s \in Sessions : ring[s] = <<>> /\ outSeq[s] = 0
  BY DEF Init
<1>2. Len(<<>>) = 0 /\ DOMAIN <<>> = {}
  OBVIOUS
<1> QED
  BY <1>1, <1>2 DEF RingIsRecent

\* However output, trimming and views interleave: the buffer of a session is the
\* newest stretch of its output, ends with its last chunk, and exceeds the cap
\* only as a single chunk.
THEOREM RingRecent == Spec => []RingIsRecent
<1>1. Inv0 /\ RingIsRecent /\ [Next]_vars => RingIsRecent'
  BY RingStep
<1> QED
  BY RingInit, <1>1, ControlHolds, PTL DEF Spec

-----------------------------------------------------------------------------
(* Where the handlers and the threads are.  The code has one handler per   *)
(* connection and one reader per session; what follows from it is that a   *)
(* handler attaches once and that a reader is started once.                *)

Seeking == {"sweep", "create", "start", "pid", "attach"}

Stages ==
    /\ \A a \in Healers : job[a] \notin Views
    /\ pc[Loop] \notin {"forget", "enter"}
    /\ pc[Loop] # "idle" /\ job[Loop] \in Views => vst[job[Loop]] \in {"connecting", "closing"}
    /\ pc[Loop] \in Seeking /\ job[Loop] \in Views => vst[job[Loop]] = "connecting"
    /\ \A v \in Views : vst[v] \in {"off", "connecting"} => bound[v] = None
    /\ \A v \in Views : pump[v] = "run" => vst[v] = "live"
    /\ \A v \in Views : vst[v] = "live" => replay[v] = <<>>

Starting ==
    /\ \A a \in Actors : pc[a] = "start" => rpc[tgt[a]] = "off"
    /\ \A a, b \in Actors :
          pc[a] = "start" /\ pc[b] = "start" /\ tgt[a] = tgt[b] => a = b

\* A step that leaves the connections alone: the loop goes on with the same
\* connection, or with none.
LEMMA StagesLoop ==
  ASSUME Stages, UNCHANGED <<vst, bound, replay, pump>>,
         \A a \in Healers : job'[a] \notin Views, pc'[Loop] \notin {"forget", "enter"},
         \/ job'[Loop] = job[Loop] /\ pc'[Loop] = pc[Loop]
         \/ job'[Loop] = job[Loop] /\ pc[Loop] \in Seeking
         \/ job'[Loop] = job[Loop] /\ pc[Loop] # "idle" /\ pc'[Loop] \notin Seeking
         \/ pc'[Loop] = "idle" \/ job'[Loop] \notin Views
  PROVE  Stages'
<1>1. \A v \in Views : /\ vst'[v] \in {"off", "connecting"} => bound'[v] = None
                       /\ pump'[v] = "run" => vst'[v] = "live"
                       /\ vst'[v] = "live" => replay'[v] = <<>>
  BY DEF Stages
<1>2. /\ pc'[Loop] # "idle" /\ job'[Loop] \in Views =>
            vst'[job'[Loop]] \in {"connecting", "closing"}
      /\ pc'[Loop] \in Seeking /\ job'[Loop] \in Views => vst'[job'[Loop]] = "connecting"
  BY DEF Stages, Seeking
<1> QED
  BY <1>1, <1>2 DEF Stages

\* The handler of v ends, and with it the loop's work for it.
LEMMA StagesEnd ==
  ASSUME Stages, ConnType, NEW v \in Views, HandlerEnds(v), v = job[Loop],
         pc[Loop] # "idle", pc'[Loop] = "idle",
         UNCHANGED <<bound, replay, pump>>, \A a \in Healers : job'[a] \notin Views
  PROVE  Stages'
<1>1. \A w \in Views : vst'[w] = IF w = v THEN "closed" ELSE vst[w]
  BY DEF HandlerEnds, ConnType
<1>2. pump[v] # "run"
  BY DEF Stages
<1> QED
  BY <1>1, <1>2 DEF Stages, Seeking

LEMMA StagesKillPath ==
  ASSUME Inv0, Stages, NEW a \in Actors, KillPath(a)
  PROVE  Stages'
<1>a. ActorType /\ ConnType /\ Loop \in Actors /\ None \notin Views /\ Loop \notin Healers
  BY NamesAssumption DEF Inv0, TypeOK, Actors
<1>1. CASE \/ KillNotifies(a) \/ KillDelivers(a) \/ KillShell(a) \/ DropView(a)
           \/ KillUnregisters(a)
  <2>1. UNCHANGED <<job, vst, bound, replay, pump>>
    BY <1>1 DEF KillNotifies, KillDelivers, KillShell, DropView, KillUnregisters, connVars
  <2>2. /\ pc[a] \in {"notify", "deliver", "kill", "drop", "unregister"}
        /\ \E l \in {"deliver", "kill", "drop", "unregister", "clear"} : Goto(a, l)
    BY <1>1 DEF KillNotifies, KillDelivers, KillShell, DropView, KillUnregisters
  <2>3. \/ pc'[Loop] = pc[Loop]
        \/ pc[Loop] # "idle" /\ pc'[Loop] \in {"deliver", "kill", "drop", "unregister", "clear"}
    BY <1>a, <2>2 DEF Goto, ActorType
  <2>4. pc'[Loop] \notin {"forget", "enter"}
    BY <2>3 DEF Stages
  <2>5. \/ pc'[Loop] = pc[Loop]
        \/ pc[Loop] # "idle" /\ pc'[Loop] \notin Seeking
    BY <2>3 DEF Seeking
  <2> QED
    BY <2>1, <2>4, <2>5, StagesLoop DEF Stages
<1>2. CASE KillEnds(a)
  <2>1. UNCHANGED <<bound, replay, pump>> /\ pc[a] = "clear"
    BY <1>2 DEF KillEnds
  <2>2. CASE Sweeping(a) /\ Goto(a, "sweep") /\ UNCHANGED <<job, vst, sock>>
    <3>1. CASE a = Loop
      <4>1. job[Loop] \in Views => vst[job[Loop]] = "connecting"
        BY <2>2, <3>1 DEF Sweeping
      <4>2. \A w \in Views : /\ vst'[w] \in {"off", "connecting"} => bound'[w] = None
                             /\ pump'[w] = "run" => vst'[w] = "live"
                             /\ vst'[w] = "live" => replay'[w] = <<>>
        BY <2>1, <2>2 DEF Stages
      <4>3. pc'[Loop] = "sweep"
        BY <1>a, <2>2, <3>1 DEF Goto, ActorType
      <4> QED
        BY <2>2, <4>1, <4>2, <4>3 DEF Stages
    <3>2. CASE a # Loop
      BY <1>a, <2>1, <2>2, <3>2, StagesLoop DEF Stages, Goto, ActorType
    <3> QED
      BY <3>1, <3>2
  <2>3. CASE ~Sweeping(a) /\ HandlerEnds(job[a]) /\ ActorRests(a)
    <3>1. a = Loop /\ job[a] \in Views
      BY <2>3 DEF Sweeping, Stages, Actors
    <3>2. pc'[Loop] = "idle" /\ \A b \in Healers : job'[b] = job[b]
      BY <1>a, <2>3, <3>1 DEF ActorRests, Goto, ActorType, Actors
    <3> QED
      BY <1>a, <2>1, <2>3, <3>1, <3>2, StagesEnd DEF Stages
  <2> QED
    BY <1>2, <2>2, <2>3 DEF KillEnds
<1> QED
  BY <1>1, <1>2 DEF KillPath

LEMMA StagesGetOrCreate ==
  ASSUME Inv0, Stages, NEW a \in Actors, GetOrCreate(a) \/ Heal(a)
  PROVE  Stages'
<1>a. /\ ActorType /\ ConnType /\ Loop \in Actors /\ Loop \notin Healers
      /\ None \notin Views /\ HealKey \notin Views
  BY NamesAssumption DEF Inv0, TypeOK, Actors
<1>1. CASE SpawnFails(a) /\ a = Loop
  <2>1. pc[Loop] = "create" /\ job[Loop] \in Views
    BY <1>1 DEF SpawnFails, Inv0, Control
  <2>2. UNCHANGED <<bound, replay, pump>> /\ HandlerEnds(job[Loop])
    BY <1>1 DEF SpawnFails
  <2>3. pc'[Loop] = "idle" /\ \A b \in Healers : job'[b] = job[b]
    BY <1>a, <1>1 DEF SpawnFails, ActorRests, Goto, ActorType, Actors
  <2> QED
    BY <1>a, <2>1, <2>2, <2>3, StagesEnd DEF Stages
<1>2. CASE ~(SpawnFails(a) /\ a = Loop)
  <2>1. UNCHANGED <<vst, bound, replay, pump>>
    BY <1>2 DEF GetOrCreate, Heal, TryReap, SweepEnds, FindSession, Spawn, SpawnFails,
                StartReader, Created, HealEnsures, HealForgets, HealEnters, connVars
  <2>2. \A b \in Actors \ {a} : job'[b] = job[b] /\ pc'[b] = pc[b]
    BY <1>a DEF GetOrCreate, Heal, TryReap, SweepEnds, FindSession, Spawn, SpawnFails,
                StartReader, Created, HealEnsures, HealForgets, HealEnters, ActorType,
                HasSession, ActorRests, Goto, Condemn, Snapshot
  <2>3. job'[a] \in {job[a], None, HealKey}
    BY <1>a DEF GetOrCreate, Heal, TryReap, SweepEnds, FindSession, Spawn, SpawnFails,
                StartReader, Created, HealEnsures, HealForgets, HealEnters, ActorType,
                HasSession, ActorRests
  <2>4. Heal(a) => a # Loop
    BY <1>a DEF Heal, HealEnsures, HealForgets, HealEnters, Stages
  <2>5. GetOrCreate(a) => pc[a] \in Seeking /\ pc'[a] \notin {"forget", "enter"}
    BY <1>a DEF GetOrCreate, TryReap, SweepEnds, FindSession, Spawn, SpawnFails, StartReader,
           Created, Seeking, ActorType, HasSession, ActorRests, Goto, Condemn
  <2>6. GetOrCreate(a) /\ a = Loop => job'[a] = job[a] \/ pc'[a] = "idle"
    BY <1>a DEF GetOrCreate, TryReap, SweepEnds, FindSession, Spawn, SpawnFails, StartReader,
           Created, ActorType, HasSession, ActorRests, Goto
  <2>7. \A b \in Healers : job'[b] \notin Views
    BY <1>a, <2>2, <2>3 DEF Stages, Actors
  <2>8. CASE a = Loop
    BY <2>1, <2>4, <2>5, <2>6, <2>7, <2>8, StagesLoop
  <2>9. CASE a # Loop
    BY <1>a, <2>1, <2>2, <2>7, <2>9, StagesLoop DEF Stages
  <2> QED
    BY <2>8, <2>9
<1> QED
  BY <1>1, <1>2

LEMMA StagesConnection ==
  ASSUME Inv0, Stages, NEW v \in Views, Handler(v) \/ Client(v)
  PROVE  Stages'
<1>a. /\ ActorType /\ ConnType /\ Control /\ Loop \in Actors /\ Loop \notin Healers
      /\ None \notin Views \cup Sessions
  BY NamesAssumption DEF Inv0, TypeOK, Actors
<1>b. \A b \in Healers : b \in Actors /\ b # Loop
  BY <1>a DEF Actors
<1>1. CASE CloseView(v) \/ HeartbeatDrops(v) \/ Pong(v) \/ ClientDrops(v) \/ Detach(v)
  <2>1. UNCHANGED <<vst, bound, replay, pump, job>>
    BY <1>1 DEF CloseView, HeartbeatDrops, Pong, ClientDrops, Detach, actVars, connVars
  <2>2. pc'[Loop] = pc[Loop] \/ (pc[Loop] = "detach" /\ pc'[Loop] = "exitcheck")
    BY <1>a, <1>1 DEF CloseView, HeartbeatDrops, Pong, ClientDrops, Detach, actVars, Goto,
                      ActorType
  <2> QED
    BY <2>1, <2>2, StagesLoop DEF Stages, Seeking
<1>2. CASE SendReplay(v) \/ StartPump(v) \/ PumpSends(v)
  <2>1. UNCHANGED <<bound, pc, job>> /\ pc[Loop] = "idle"
    BY <1>2 DEF SendReplay, StartPump, PumpSends, actVars, LoopFree
  <2>2. CASE StartPump(v)
    <3>1. \A w \in Views : /\ vst'[w] = IF w = v THEN "live" ELSE vst[w]
                           /\ pump'[w] = IF w = v THEN "run" ELSE pump[w]
                           /\ replay'[w] = IF w = v THEN <<>> ELSE replay[w]
      BY <1>a, <2>2 DEF StartPump, ConnType
    <3> QED
      BY <2>1, <3>1 DEF Stages, Seeking
  <2>3. CASE SendReplay(v)
    <3>1. vst' = vst /\ vst[v] = "replay" /\ pump' = pump
          /\ \A w \in Views : w # v => replay'[w] = replay[w]
      BY <1>a, <2>3 DEF SendReplay, ConnType
    <3> QED
      BY <2>1, <3>1 DEF Stages, Seeking
  <2>4. CASE PumpSends(v)
    <3>1. vst' = vst /\ replay' = replay /\ \A w \in Views : pump'[w] = "run" => pump[w] = "run"
      BY <1>a, <2>4 DEF PumpSends, ConnType
    <3> QED
      BY <2>1, <3>1 DEF Stages, Seeking
  <2> QED
    BY <1>2, <2>2, <2>3, <2>4
<1>3. CASE Connect(v)
  <2>1. /\ pc'[Loop] = "sweep" /\ job'[Loop] = v /\ UNCHANGED <<bound, replay, pump>>
        /\ \A b \in Healers : job'[b] = job[b]
    BY <1>a, <1>b, <1>3 DEF Connect, LoopJob, Snapshot, Goto, ActorType
  <2>2. vst[v] = "off" /\ \A w \in Views : vst'[w] = IF w = v THEN "connecting" ELSE vst[w]
    BY <1>a, <1>3 DEF Connect, ConnType
  <2> QED
    BY <2>1, <2>2 DEF Stages, Seeking
<1>4. CASE Attach(v)
  <2>1. /\ pc'[Loop] = "idle" /\ pump' = pump /\ vst[v] = "connecting"
        /\ \A b \in Healers : job'[b] = job[b]
    BY <1>a, <1>b, <1>4 DEF Attach, ActorRests, Goto, ActorType, Stages, Seeking
  <2>2. \A w \in Views : /\ vst'[w] = IF w = v THEN "replay" ELSE vst[w]
                         /\ w # v => bound'[w] = bound[w] /\ replay'[w] = replay[w]
    BY <1>a, <1>4 DEF Attach, ConnType
  <2> QED
    BY <2>1, <2>2 DEF Stages, Seeking
<1>5. CASE ReceiveClose(v) \/ ReceiveEnds(v)
  <2>1. /\ pc'[Loop] \in {"notify", "detach"} /\ job'[Loop] = v /\ UNCHANGED <<bound, replay>>
        /\ \A b \in Healers : job'[b] = job[b]
    BY <1>a, <1>b, <1>5 DEF ReceiveClose, ReceiveEnds, LoopJob, Condemn, Goto, ActorType
  <2>2. \A w \in Views : /\ vst'[w] = IF w = v THEN "closing" ELSE vst[w]
                         /\ pump'[w] = IF w = v THEN "done" ELSE pump[w]
    BY <1>a, <1>5 DEF ReceiveClose, ReceiveEnds, ConnType
  <2> QED
    BY <2>1, <2>2 DEF Stages, Seeking
<1>6. CASE ExitCheck(v)
  <2>1. /\ UNCHANGED <<bound, replay, pump>> /\ pc[Loop] = "exitcheck" /\ v = job[Loop]
        /\ \A b \in Healers : job'[b] = job[b]
    BY <1>a, <1>b, <1>6 DEF ExitCheck, ActorRests, ActorType
  <2>2. CASE exited[tgt[Loop]]
    <3>1. UNCHANGED <<job, vst>> /\ pc'[Loop] = "notify"
      BY <1>a, <1>6, <2>2 DEF ExitCheck, Condemn, Goto, ActorType
    <3> QED
      BY <2>1, <3>1, StagesLoop DEF Stages, Seeking
  <2>3. CASE ~exited[tgt[Loop]]
    <3>1. HandlerEnds(v) /\ pc'[Loop] = "idle"
      BY <1>a, <1>6, <2>3 DEF ExitCheck, ActorRests, Goto, ActorType
    <3> QED
      BY <1>a, <2>1, <3>1, StagesEnd DEF Stages
  <2> QED
    BY <2>2, <2>3
<1> QED
  BY <1>1, <1>2, <1>3, <1>4, <1>5, <1>6 DEF Handler, Client

LEMMA StagesStep ==
  ASSUME Inv0, Stages, [Next]_vars
  PROVE  Stages'
<1>a. ActorType /\ Loop \in Actors /\ Loop \notin Healers /\ Reaper \notin Views
  BY NamesAssumption DEF Inv0, TypeOK, Actors
<1>1. ASSUME NEW s \in Sessions, ShellOutput(s) \/ ShellExits(s) \/ Reader(s) \/ PongAges(s)
      PROVE  Stages'
  <2>1. UNCHANGED <<pc, job, vst, bound, replay, pump>>
    BY <1>1 DEF ShellOutput, ShellExits, PongAges, Reader, ReaderTop, ReaderPublish,
         ReaderDeliver, ReaderEmpty, ReaderAfterEmpty, ReaderError, ReaderEnds,
         ReaderNotifies, actVars, connVars
  <2> QED
    BY <2>1 DEF Stages
<1>2. ASSUME NEW a \in Actors, KillPath(a) \/ GetOrCreate(a) \/ Heal(a)
      PROVE  Stages'
  BY <1>2, StagesKillPath, StagesGetOrCreate
<1>3. ASSUME NEW v \in Views, Handler(v) \/ Client(v)
      PROVE  Stages'
  BY <1>3, StagesConnection
<1>4. CASE ReaperWakes
  <2>1. UNCHANGED <<vst, bound, replay, pump>>
    BY <1>4 DEF ReaperWakes, connVars
  <2>2. /\ job'[Loop] = Reaper /\ pc'[Loop] = "sweep"
        /\ \A b \in Healers : job'[b] = job[b]
    BY <1>a, <1>4 DEF ReaperWakes, Snapshot, Goto, ActorType, Actors
  <2> QED
    BY <1>a, <2>1, <2>2, StagesLoop DEF Stages
<1>5. CASE Tick \/ UNCHANGED vars
  <2>1. UNCHANGED <<pc, job, vst, bound, replay, pump>>
    BY <1>5 DEF Tick, vars, actVars, connVars
  <2> QED
    BY <2>1 DEF Stages
<1> QED
  BY <1>1, <1>2, <1>3, <1>4, <1>5 DEF Next

\* A step after which whoever is about to start a reader was so before.
LEMMA StartingFrame ==
  ASSUME Starting, \A a \in Actors : pc'[a] = "start" => pc[a] = "start" /\ tgt'[a] = tgt[a],
         \A a \in Actors : pc'[a] = "start" => rpc'[tgt[a]] = rpc[tgt[a]]
  PROVE  Starting'
<1>1. \A a \in Actors : pc'[a] = "start" => rpc'[tgt'[a]] = "off"
  BY DEF Starting
<1>2. \A a, b \in Actors :
         pc'[a] = "start" /\ pc'[b] = "start" /\ tgt'[a] = tgt'[b] => a = b
  BY DEF Starting
<1> QED
  BY <1>1, <1>2 DEF Starting

\* A session is spawned once, so that nobody else starts the reader of a new one.
LEMMA StartingSpawn ==
  ASSUME Inv0, Kept, Starting, NEW a \in Actors, Spawn(a)
  PROVE  Starting'
<1>a. PtyType /\ ActorType
  BY DEF Inv0, TypeOK
<1>1. PICK n \in Unborn : tgt' = [tgt EXCEPT ![a] = n]
  BY DEF Spawn
<1>2. n \in Sessions /\ ~Born(n)
  BY DEF Unborn, Born
<1>3. rpc' = rpc /\ \A b \in Actors : b # a => pc'[b] = pc[b] /\ tgt'[b] = tgt[b]
  BY <1>a, <1>1 DEF Spawn, Goto, ActorType
<1>4. tgt'[a] = n /\ rpc[n] = "off"
  BY <1>a, <1>1, <1>2 DEF ActorType, Kept, Lifecycle
<1>5. \A b \in Actors : pc[b] = "start" => tgt[b] # n
  BY <1>2 DEF Kept, Lifecycle, HasTarget
<1>6. ASSUME NEW b \in Actors, pc'[b] = "start"
      PROVE  rpc'[tgt'[b]] = "off" /\ (b # a => pc[b] = "start" /\ tgt'[b] = tgt[b] /\ tgt[b] # n)
  BY <1>3, <1>4, <1>5, <1>6 DEF Starting
<1>7. ASSUME NEW b \in Actors, NEW c \in Actors,
             pc'[b] = "start", pc'[c] = "start", tgt'[b] = tgt'[c]
      PROVE  b = c
  BY <1>4, <1>6, <1>7 DEF Starting
<1> QED
  BY <1>6, <1>7 DEF Starting

LEMMA StartingStart ==
  ASSUME Inv0, Kept, Starting, NEW a \in Actors, StartReader(a)
  PROVE  Starting'
<1>a. ThreadType /\ ActorType
  BY DEF Inv0, TypeOK
<1>1. tgt[a] \in Sessions /\ pc[a] = "start"
  BY DEF StartReader, Inv0, Control, HasTarget
<1>2. /\ tgt' = tgt /\ pc'[a] = "pid" /\ \A b \in Actors : b # a => pc'[b] = pc[b]
      /\ \A s \in Sessions : s # tgt[a] => rpc'[s] = rpc[s]
  BY <1>a, <1>1 DEF StartReader, Goto, ActorType, ThreadType
<1>3. \A b \in Actors : pc[b] = "start" => tgt[b] \in Sessions
  BY DEF Inv0, Control, HasTarget
<1>4. ASSUME NEW b \in Actors, pc'[b] = "start"
      PROVE  pc[b] = "start" /\ tgt'[b] = tgt[b] /\ rpc'[tgt[b]] = rpc[tgt[b]]
  <2>1. b # a /\ pc[b] = "start" /\ tgt[b] # tgt[a]
    BY <1>1, <1>2, <1>4 DEF Starting
  <2> QED
    BY <1>2, <1>3, <2>1
<1> QED
  BY <1>4, StartingFrame

LEMMA StartingStep ==
  ASSUME Inv0, Kept, Starting, [Next]_vars
  PROVE  Starting'
<1>a. ActorType /\ ThreadType /\ Loop \in Actors
  BY DEF Inv0, TypeOK, Actors
<1>b. \A a \in Actors : pc[a] = "start" => tgt[a] \in Sessions /\ rpc[tgt[a]] = "off"
  BY DEF Starting, Inv0, Control, HasTarget
<1>1. ASSUME NEW s \in Sessions, ShellOutput(s) \/ ShellExits(s) \/ Reader(s) \/ PongAges(s)
      PROVE  Starting'
  <2>1. UNCHANGED <<pc, tgt>>
    BY <1>1 DEF ShellOutput, ShellExits, PongAges, Reader, ReaderTop, ReaderPublish,
         ReaderDeliver, ReaderEmpty, ReaderAfterEmpty, ReaderError, ReaderEnds,
         ReaderNotifies, actVars
  <2>2. \A u \in Sessions : rpc[u] = "off" => rpc'[u] = rpc[u]
    BY <1>a, <1>1 DEF ShellOutput, ShellExits, PongAges, Reader, ReaderTop, ReaderPublish,
         ReaderDeliver, ReaderEmpty, ReaderAfterEmpty, ReaderError, ReaderEnds,
         ReaderNotifies, ThreadType
  <2> QED
    BY <1>b, <2>1, <2>2, StartingFrame
<1>2. ASSUME NEW a \in Actors, KillPath(a) \/ GetOrCreate(a) \/ Heal(a),
             ~Spawn(a), ~StartReader(a)
      PROVE  Starting'
  <2>1. rpc' = rpc
    BY <1>2 DEF KillPath, KillNotifies, KillDelivers, KillShell, DropView, KillUnregisters,
         KillEnds, GetOrCreate, TryReap, SweepEnds, FindSession, SpawnFails, Created,
         Heal, HealEnsures, HealForgets, HealEnters
  <2>2. \A b \in Actors : b # a => pc'[b] = pc[b] /\ tgt'[b] = tgt[b]
    BY <1>a, <1>2 DEF KillPath, KillNotifies, KillDelivers, KillShell, DropView,
         KillUnregisters, KillEnds, GetOrCreate, TryReap, SweepEnds, FindSession, SpawnFails,
         Created, Heal, HealEnsures, HealForgets, HealEnters, Goto, ActorRests, Condemn,
         HasSession, Snapshot, ActorType
  <2>3. pc'[a] = "start" => pc'[a] = pc[a] /\ tgt'[a] = tgt[a]
    BY <1>a, <1>2 DEF KillPath, KillNotifies, KillDelivers, KillShell, DropView,
         KillUnregisters, KillEnds, GetOrCreate, TryReap, SweepEnds, FindSession, SpawnFails,
         Created, Heal, HealEnsures, HealForgets, HealEnters, Goto, ActorRests, Condemn,
         HasSession, Snapshot, ActorType
  <2> QED
    BY <2>1, <2>2, <2>3, StartingFrame
<1>3. ASSUME NEW v \in Views, Handler(v) \/ Client(v)
      PROVE  Starting'
  <2>1. rpc' = rpc
    BY <1>3 DEF Handler, Attach, SendReplay, StartPump, PumpSends, ReceiveEnds, Detach,
         ExitCheck, CloseView, HeartbeatDrops, Client, Connect, Pong, ReceiveClose, ClientDrops
  <2>2. \A b \in Actors : pc'[b] = "start" => pc'[b] = pc[b] /\ tgt'[b] = tgt[b]
    BY <1>a, <1>3 DEF Handler, Attach, SendReplay, StartPump, PumpSends, ReceiveEnds, Detach,
         ExitCheck, CloseView, HeartbeatDrops, Client, Connect, Pong, ReceiveClose,
         ClientDrops, Goto, ActorRests, Condemn, Snapshot, ActorType, actVars
  <2> QED
    BY <2>1, <2>2, StartingFrame
<1>4. CASE ReaperWakes \/ Tick \/ UNCHANGED vars
  <2>1. UNCHANGED <<rpc, tgt>> /\ \A b \in Actors : pc'[b] = "start" => pc'[b] = pc[b]
    BY <1>a, <1>4 DEF ReaperWakes, Tick, vars, Snapshot, Goto, ActorType, actVars
  <2> QED
    BY <2>1, StartingFrame
<1> QED
  BY <1>1, <1>2, <1>3, <1>4, StartingSpawn, StartingStart DEF Next

Settled == Stages /\ Starting

LEMMA SettledInit ==
  ASSUME Init
  PROVE  Settled
<1>1. /\ \A a \in Actors : pc[a] = "idle" /\ job[a] = None
      /\ \A v \in Views : vst[v] = "off" /\ bound[v] = None /\ pump[v] = "off"
  BY DEF Init
<1>2. Loop \in Actors /\ Healers \subseteq Actors /\ None \notin Views
  BY NamesAssumption DEF Actors
<1> QED
  BY <1>1, <1>2 DEF Settled, Stages, Starting, Seeking

\* All that the earlier theorems and this part establish, for the later parts.
Ground == Inv0 /\ Kept /\ Settled /\ RingIsRecent

LEMMA GroundHolds == Spec => []Ground
<1>1. Inv0 /\ Kept /\ Settled /\ [Next]_vars => Settled'
  BY StagesStep, StartingStep DEF Settled
<1>2. Inv0 /\ Kept /\ [Next]_vars => Kept'
  BY NextKept
<1>3. Inv0 /\ RingIsRecent /\ [Next]_vars => RingIsRecent'
  BY RingStep
<1> QED
  BY SettledInit, InitKept, RingInit, ControlHolds, <1>1, <1>2, <1>3, PTL DEF Spec, Ground

-----------------------------------------------------------------------------
(* The steps that matter to a stream.  All others are quiet: they hand out *)
(* and show nothing, may detach a view, end a session and close a socket.  *)

Quiet ==
    /\ UNCHANGED <<outSeq, bound, replay, queue, got, hand>>
    /\ \A s \in Sessions : att'[s] \in {att[s], None}
    /\ \A s \in Sessions : rpc[s] = "deliver" => rpc'[s] = "deliver"
    /\ exited' = exited \/ \E s \in Sessions : exited' = [exited EXCEPT ![s] = TRUE]
    /\ \A v \in Views : sock'[v] = "open" /\ bound[v] # None => sock[v] = "open"

ReaderHands(s) == ReaderPublish(s) \/ ReaderDeliver(s) \/ ReaderNotifies(s)
KillHands(a)   == KillNotifies(a) \/ KillDelivers(a)
ViewMoves(v)   == Attach(v) \/ SendReplay(v) \/ StartPump(v) \/ PumpSends(v)

LEMMA QuietReader ==
  ASSUME Ground, NEW s \in Sessions, ~ReaderHands(s),
         ShellOutput(s) \/ ShellExits(s) \/ Reader(s) \/ PongAges(s)
  PROVE  Quiet
<1>a. ThreadType /\ SesType
  BY DEF Ground, Inv0, TypeOK
<1>1. UNCHANGED <<outSeq, bound, replay, queue, got, hand, att, sock>>
  BY DEF ReaderHands, ShellOutput, ShellExits, PongAges, Reader, ReaderTop, ReaderEmpty,
         ReaderAfterEmpty, ReaderError, ReaderEnds, connVars, sesVars
<1>2. \A u \in Sessions : rpc[u] = "deliver" => rpc'[u] = "deliver"
  BY <1>a DEF ReaderHands, ShellOutput, ShellExits, PongAges, Reader, ReaderTop, ReaderEmpty,
         ReaderAfterEmpty, ReaderError, ReaderEnds, ThreadType
<1>3. exited' = exited \/ exited' = [exited EXCEPT ![s] = TRUE]
  BY DEF ReaderHands, ShellOutput, ShellExits, PongAges, Reader, ReaderTop, ReaderEmpty,
         ReaderAfterEmpty, ReaderError, ReaderEnds, sesVars
<1> QED
  BY <1>1, <1>2, <1>3 DEF Quiet

LEMMA QuietKill ==
  ASSUME Ground, NEW a \in Actors, ~KillHands(a), KillPath(a)
  PROVE  Quiet
<1>a. SesType /\ ConnType
  BY DEF Ground, Inv0, TypeOK
<1>1. UNCHANGED <<outSeq, bound, replay, queue, got, hand, rpc>>
  BY DEF KillHands, KillPath, KillShell, DropView, KillUnregisters, KillEnds, connVars, sesVars
<1>2. tgt[a] \in Sessions
  BY DEF KillHands, KillPath, KillShell, DropView, KillUnregisters, KillEnds, Ground, Inv0,
         Control, HasTarget
<1>3. \A s \in Sessions : att'[s] \in {att[s], None}
  BY <1>a DEF KillHands, KillPath, KillShell, DropView, KillUnregisters, KillEnds, sesVars,
         SesType
<1>4. exited' = exited \/ exited' = [exited EXCEPT ![tgt[a]] = TRUE]
  BY DEF KillHands, KillPath, KillShell, DropView, KillUnregisters, KillEnds, sesVars
<1>5. \A v \in Views : sock'[v] = "open" => sock[v] = "open"
  BY <1>a DEF KillHands, KillPath, KillShell, DropView, KillUnregisters, KillEnds, connVars,
         HandlerEnds, ConnType
<1> QED
  BY <1>1, <1>2, <1>3, <1>4, <1>5 DEF Quiet

LEMMA QuietActor ==
  ASSUME Ground, NEW a \in Actors, GetOrCreate(a) \/ Heal(a)
  PROVE  Quiet
<1>a. ThreadType /\ ConnType
  BY DEF Ground, Inv0, TypeOK
<1>1. UNCHANGED <<outSeq, bound, replay, queue, got, hand, att, exited>>
  BY DEF GetOrCreate, TryReap, SweepEnds, FindSession, Spawn, SpawnFails, StartReader,
         Created, Heal, HealEnsures, HealForgets, HealEnters, connVars, sesVars
<1>2. \A v \in Views : sock'[v] = "open" => sock[v] = "open"
  BY <1>a DEF GetOrCreate, TryReap, SweepEnds, FindSession, Spawn, SpawnFails, StartReader,
         Created, Heal, HealEnsures, HealForgets, HealEnters, connVars, HandlerEnds, ConnType
<1>3. \A s \in Sessions : rpc[s] = "deliver" => rpc'[s] = "deliver"
  <2>1. CASE StartReader(a)
    <3>1. rpc[tgt[a]] = "off"
      BY <2>1 DEF StartReader, Ground, Settled, Starting
    <3> QED
      BY <1>a, <2>1, <3>1 DEF StartReader, ThreadType
  <2>2. CASE ~StartReader(a)
    <3>1. rpc' = rpc
      BY <2>2 DEF GetOrCreate, TryReap, SweepEnds, FindSession, Spawn, SpawnFails, Created,
           Heal, HealEnsures, HealForgets, HealEnters
    <3> QED
      BY <3>1
  <2> QED
    BY <2>1, <2>2
<1> QED
  BY <1>1, <1>2, <1>3 DEF Quiet

LEMMA QuietConnection ==
  ASSUME Ground, NEW v \in Views, ~ViewMoves(v), Handler(v) \/ Client(v)
  PROVE  Quiet
<1>a. SesType /\ ConnType
  BY DEF Ground, Inv0, TypeOK
<1>1. UNCHANGED <<outSeq, bound, replay, queue, got, hand, rpc, exited>>
  BY DEF ViewMoves, Handler, ReceiveEnds, Detach, ExitCheck, CloseView, HeartbeatDrops,
         Client, Connect, Pong, ReceiveClose, ClientDrops, connVars, sesVars
<1>2. \A s \in Sessions : att'[s] \in {att[s], None}
  BY <1>a DEF ViewMoves, Handler, ReceiveEnds, Detach, ExitCheck, CloseView, HeartbeatDrops,
         Client, Connect, Pong, ReceiveClose, ClientDrops, sesVars, DetachView, SesType
<1>3. \A w \in Views : sock'[w] = "open" /\ bound[w] # None => sock[w] = "open"
  <2>1. CASE Connect(v)
    <3>1. bound[v] = None
      BY <2>1 DEF Connect, Ground, Settled, Stages
    <3> QED
      BY <1>a, <2>1, <3>1 DEF Connect, ConnType
  <2>2. CASE ~Connect(v)
    BY <1>a, <2>2 DEF ViewMoves, Handler, ReceiveEnds, Detach, ExitCheck, CloseView,
         HeartbeatDrops, Client, Pong, ReceiveClose, ClientDrops, connVars, HandlerEnds,
         ConnType
  <2> QED
    BY <2>1, <2>2
<1> QED
  BY <1>1, <1>2, <1>3 DEF Quiet

LEMMA StepKinds ==
  ASSUME Ground, [Next]_vars
  PROVE  \/ Quiet
         \/ \E s \in Sessions : ReaderHands(s)
         \/ \E a \in Actors : KillHands(a)
         \/ \E v \in Views : ViewMoves(v)
<1>1. CASE ReaperWakes \/ Tick \/ UNCHANGED vars
  <2>1. UNCHANGED <<outSeq, bound, replay, queue, got, hand, att, rpc, exited, sock>>
    BY <1>1 DEF ReaperWakes, Tick, vars, connVars, sesVars
  <2> QED
    BY <2>1 DEF Quiet
<1> QED
  BY <1>1, QuietReader, QuietKill, QuietActor, QuietConnection DEF Next

-----------------------------------------------------------------------------
(* Who holds an item for whom, and what an exit sentinel vouches for.      *)

Holding ==
    /\ \A s \in Sessions : att[s] # None => bound[att[s]] = s
    /\ \A s \in Sessions : hand[s] # None => rpc[s] = "deliver" /\ bound[hand[s].view] = s
    /\ \A a \in Actors :
          hand[a] # None => hand[a].item = Exit /\ bound[hand[a].view] \in Sessions
    /\ \A t \in Threads :
          hand[t] # None /\ hand[t].item = Exit => exited[bound[hand[t].view]]

Tells(v) ==
    /\ HasExit(queue[v]) \/ HasExit(got[v]) => bound[v] \in Sessions /\ exited[bound[v]]
    /\ HasExit(got[v]) => sock[v] # "open"
    /\ bound[v] = None => got[v] = <<>> /\ replay[v] = <<>> /\ queue[v] = <<>>

Telling == \A v \in Views : Tells(v)

LEMMA ExitFacts ==
  /\ ~HasExit(<<>>)
  /\ \A q \in Seq(Chunks) : ~HasExit(q)
  /\ \A q \in Seq(Items), i \in Items : HasExit(Append(q, i)) <=> HasExit(q) \/ i = Exit
  /\ \A q \in Seq(Items) : q # <<>> => (HasExit(Tail(q)) \/ Head(q) = Exit <=> HasExit(q))
<1>1. ~HasExit(<<>>)
  BY EmptySeq DEF HasExit
<1>2. ASSUME NEW q \in Seq(Chunks) PROVE ~HasExit(q)
  BY ElementOfSeq, ItemKinds DEF HasExit, IsChunk
<1>3. ASSUME NEW q \in Seq(Items), NEW i \in Items
      PROVE  HasExit(Append(q, i)) <=> HasExit(q) \/ i = Exit
  <2> DEFINE a == Append(q, i)
  <2>1. /\ Len(a) = Len(q) + 1 /\ Len(q) \in Nat
        /\ \A j \in 1 .. Len(q) : a[j] = q[j]
        /\ a[Len(q) + 1] = i
    BY AppendProperties, LenProperties
  <2> HIDE DEF a
  <2>2. HasExit(a) <=> HasExit(q) \/ i = Exit
    BY <2>1 DEF HasExit
  <2> QED
    BY <2>2 DEF a
<1>4. ASSUME NEW q \in Seq(Items), q # <<>>
      PROVE  HasExit(Tail(q)) \/ Head(q) = Exit <=> HasExit(q)
  <2> DEFINE t == Tail(q)
  <2>1. /\ Len(t) = Len(q) - 1 /\ Len(q) \in Nat /\ Len(q) > 0 /\ Head(q) = q[1]
        /\ \A j \in 1 .. Len(t) : t[j] = q[j + 1]
    BY <1>4, HeadTailProperties, LenProperties, EmptySeq
  <2> HIDE DEF t
  <2>2. HasExit(t) => HasExit(q)
    BY <2>1 DEF HasExit
  <2>3. HasExit(q) => HasExit(t) \/ q[1] = Exit
    <3> SUFFICES ASSUME NEW j \in 1 .. Len(q), q[j] = Exit, j # 1
                 PROVE  HasExit(t)
      BY DEF HasExit
    <3>1. j - 1 \in 1 .. Len(t) /\ t[j - 1] = q[j]
      BY <2>1
    <3> QED
      BY <3>1 DEF HasExit
  <2>4. q[1] = Exit => HasExit(q)
    BY <2>1 DEF HasExit
  <2> QED
    BY <2>1, <2>2, <2>3, <2>4 DEF t
<1> QED
  BY <1>1, <1>2, <1>3, <1>4

\* What an item in hand is, and what delivering it does.
LEMMA DeliverFacts ==
  ASSUME Ground, NEW t \in Threads, hand[t] # None, Deliver(t)
  PROVE  /\ hand[t].view \in Views /\ hand[t].item \in Items
         /\ \A w \in Views : queue'[w] = IF w = hand[t].view THEN Append(queue[w], hand[t].item)
                                         ELSE queue[w]
         /\ \A u \in Threads : hand'[u] = IF u = t THEN None ELSE hand[u]
<1>1. ThreadType /\ ConnType
  BY DEF Ground, Inv0, TypeOK
<1>2. hand[t] \in [view : Views, item : Items]
  BY <1>1 DEF ThreadType
<1> QED
  BY <1>1, <1>2 DEF Deliver, ThreadType, ConnType

LEMMA ReaderDeliverFacts ==
  ASSUME Ground, NEW s \in Sessions, ReaderDeliver(s)
  PROVE  /\ s \in Threads /\ hand[s] # None /\ Deliver(s)
         /\ UNCHANGED <<outSeq, bound, replay, got, att, exited, sock>>
         /\ \A u \in Sessions : u # s => rpc'[u] = rpc[u]
<1>1. ThreadType /\ Control
  BY DEF Ground, Inv0, TypeOK
<1> QED
  BY <1>1 DEF ReaderDeliver, Control, Threads, ThreadType, sesVars

LEMMA KillDeliverFacts ==
  ASSUME Ground, NEW a \in Actors, KillDelivers(a)
  PROVE  /\ a \in Threads /\ hand[a] # None /\ Deliver(a)
         /\ UNCHANGED <<outSeq, bound, replay, got, att, exited, sock, rpc>>
<1>1. Control
  BY DEF Ground, Inv0
<1> QED
  BY <1>1 DEF KillDelivers, Control, Threads, sesVars

\* What calling a session over does, by whichever thread.
LEMMA NotifyFacts ==
  ASSUME Ground, NEW t \in Threads, NEW s \in Sessions, NotifyExit(t, s)
  PROVE  /\ exited' = [exited EXCEPT ![s] = TRUE] /\ exited'[s] = TRUE
         /\ \A u \in Sessions : exited[u] => exited'[u]
         /\ \/ hand' = hand
            \/ /\ att[s] \in Views /\ att[s] # None
               /\ hand'[t] = [view |-> att[s], item |-> Exit]
               /\ \A u \in Threads : u # t => hand'[u] = hand[u]
<1>1. ThreadType /\ SesType
  BY DEF Ground, Inv0, TypeOK
<1> QED
  BY <1>1 DEF NotifyExit, Untold, ThreadType, SesType

LEMMA PublishHands ==
  ASSUME Ground, NEW s \in Sessions, ReaderPublish(s)
  PROVE  /\ UNCHANGED <<bound, replay, queue, got, att, exited, sock>>
         /\ rpc[s] = "read" /\ \A u \in Sessions : u # s => rpc'[u] = rpc[u]
         /\ \/ att[s] = None /\ hand' = hand
            \/ /\ att[s] \in Views /\ att[s] # None /\ rpc'[s] = "deliver"
               /\ hand'[s] = [view |-> att[s], item |-> outSeq[s] + 1]
               /\ \A t \in Threads : t # s => hand'[t] = hand[t]
<1>1. ThreadType /\ SesType /\ s \in Threads
  BY DEF Ground, Inv0, TypeOK, Threads
<1> QED
  BY <1>1 DEF ReaderPublish, ThreadType, SesType, connVars

\* A connection attaches to the session its handler found; it had none before.
LEMMA AttachFacts ==
  ASSUME Ground, NEW v \in Views, Attach(v)
  PROVE  /\ tgt[Loop] \in Sessions /\ bound[v] = None
         /\ bound' = [bound EXCEPT ![v] = tgt[Loop]]
         /\ \A w \in Views : bound'[w] = IF w = v THEN tgt[Loop] ELSE bound[w]
         /\ \A s \in Sessions : att'[s] = IF s = tgt[Loop] THEN v ELSE att[s]
         /\ \A w \in Views : /\ replay'[w] = IF w = v THEN ring[tgt[Loop]] ELSE replay[w]
                             /\ w # v => queue'[w] = queue[w]
         /\ queue'[v] = IF exited[tgt[Loop]] THEN <<Exit>> ELSE <<>>
         /\ UNCHANGED <<outSeq, ring, exited, rpc, hand, got, sock>>
<1>1. SesType /\ ConnType /\ Loop \in Actors
  BY DEF Ground, Inv0, TypeOK, Actors
<1>2. tgt[Loop] \in Sessions
  BY <1>1 DEF Ground, Inv0, Control, HasTarget, Attach
<1>3. bound[v] = None
  BY DEF Attach, Ground, Settled, Stages, Seeking
<1> QED
  BY <1>1, <1>2, <1>3 DEF Attach, SesType, ConnType

LEMMA ReplayFacts ==
  ASSUME Ground, NEW v \in Views, SendReplay(v)
  PROVE  /\ UNCHANGED <<outSeq, bound, att, exited, rpc, hand, sock, queue>>
         /\ replay[v] # <<>> /\ sock[v] = "open"
         /\ got' = [got EXCEPT ![v] = Append(got[v], Head(replay[v]))]
         /\ \A w \in Views : /\ got'[w] = IF w = v THEN Append(got[v], Head(replay[v])) ELSE got[w]
                             /\ replay'[w] = IF w = v THEN Tail(replay[v]) ELSE replay[w]
<1>1. ConnType
  BY DEF Ground, Inv0, TypeOK
<1> QED
  BY <1>1 DEF SendReplay, ConnType, sesVars

LEMMA StartPumpFacts ==
  ASSUME Ground, NEW v \in Views, StartPump(v)
  PROVE  /\ UNCHANGED <<outSeq, bound, att, exited, rpc, hand, sock, queue, got>>
         /\ sock[v] = "open" => replay[v] = <<>>
         /\ \A w \in Views : replay'[w] = IF w = v THEN <<>> ELSE replay[w]
<1>1. ConnType
  BY DEF Ground, Inv0, TypeOK
<1> QED
  BY <1>1 DEF StartPump, ConnType, sesVars

LEMMA PumpFacts ==
  ASSUME Ground, NEW v \in Views, PumpSends(v)
  PROVE  /\ UNCHANGED <<outSeq, bound, att, exited, rpc, hand, replay>>
         /\ queue[v] # <<>> /\ replay[v] = <<>>
         /\ got' = [got EXCEPT ![v] = IF sock[v] = "open" THEN Append(got[v], Head(queue[v])) ELSE got[v]]
         /\ \A w \in Views : /\ queue'[w] = IF w = v THEN Tail(queue[v]) ELSE queue[w]
                             /\ w # v => got'[w] = got[w] /\ sock'[w] = sock[w]
         /\ got'[v] = IF sock[v] = "open" THEN Append(got[v], Head(queue[v])) ELSE got[v]
         /\ sock'[v] = IF sock[v] = "open" /\ Head(queue[v]) = Exit THEN "closed" ELSE sock[v]
<1>1. ConnType
  BY DEF Ground, Inv0, TypeOK
<1>2. replay[v] = <<>>
  BY DEF PumpSends, Ground, Settled, Stages
<1> QED
  BY <1>1, <1>2 DEF PumpSends, ConnType, sesVars

LEMMA ReaderNotifyFacts ==
  ASSUME Ground, NEW s \in Sessions, ReaderNotifies(s)
  PROVE  /\ s \in Threads /\ NotifyExit(s, s)
         /\ UNCHANGED <<outSeq, bound, replay, queue, got, att, sock>>
         /\ rpc[s] = "notify" /\ \A u \in Sessions : u # s => rpc'[u] = rpc[u]
         /\ hand'[s] = hand[s] \/ rpc'[s] = "deliver"
<1>1. ThreadType /\ SesType /\ s \in Threads
  BY DEF Ground, Inv0, TypeOK, Threads
<1> QED
  BY <1>1 DEF ReaderNotifies, NotifyExit, ThreadType, SesType, connVars

LEMMA KillNotifyFacts ==
  ASSUME Ground, NEW a \in Actors, KillNotifies(a)
  PROVE  /\ a \in Threads /\ tgt[a] \in Sessions /\ NotifyExit(a, tgt[a])
         /\ UNCHANGED <<outSeq, bound, replay, queue, got, att, sock, rpc>>
<1>1. Control
  BY DEF Ground, Inv0
<1> QED
  BY <1>1 DEF KillNotifies, Control, HasTarget, Threads, connVars

-----------------------------------------------------------------------------
(* Holding and Telling are preserved.                                      *)

\* Hands that empty, views that detach and sessions that end do no harm.
LEMMA HoldingFrame ==
  ASSUME Ground, Holding, bound' = bound,
         \A s \in Sessions : att'[s] \in {att[s], None},
         \A t \in Threads : hand'[t] \in {hand[t], None},
         \A s \in Sessions : hand'[s] # None => rpc'[s] = rpc[s] \/ rpc'[s] = "deliver",
         \A s \in Sessions : exited[s] => exited'[s]
  PROVE  Holding'
<1>1. \A t \in Threads : t \in Sessions \/ t \in Actors
  BY DEF Threads
<1>2. \A s \in Sessions : att'[s] # None => bound'[att'[s]] = s
  BY DEF Holding
<1>3. \A s \in Sessions : hand'[s] # None => rpc'[s] = "deliver" /\ bound'[hand'[s].view] = s
  BY DEF Holding, Threads
<1>4. \A a \in Actors :
         hand'[a] # None => hand'[a].item = Exit /\ bound'[hand'[a].view] \in Sessions
  BY DEF Holding, Threads
<1>5. ASSUME NEW t \in Threads, hand'[t] # None, hand'[t].item = Exit
      PROVE  exited'[bound'[hand'[t].view]]
  <2>1. hand'[t] = hand[t] /\ bound[hand[t].view] \in Sessions
    BY <1>1, <1>5 DEF Holding
  <2> QED
    BY <1>5, <2>1 DEF Holding
<1> QED
  BY <1>2, <1>3, <1>4, <1>5 DEF Holding

\* A thread takes an item for the view that is attached to the session s.
LEMMA HoldingTakes ==
  ASSUME Ground, Holding, UNCHANGED <<bound, att>>, NEW t \in Threads, NEW s \in Sessions,
         NEW i \in Items, att[s] # None, hand'[t] = [view |-> att[s], item |-> i],
         \A u \in Threads : u # t => hand'[u] = hand[u],
         \A u \in Sessions : u # t => rpc'[u] = rpc[u],
         t \in Sessions => t = s /\ rpc'[s] = "deliver",
         t \in Actors => i = Exit, i = Exit => exited'[s],
         \A u \in Sessions : exited[u] => exited'[u]
  PROVE  Holding'
<1>1. bound[att[s]] = s /\ \A u \in Threads : u \in Sessions \/ u \in Actors
  BY DEF Holding, Threads
<1>2. \A u \in Sessions : att'[u] # None => bound'[att'[u]] = u
  BY DEF Holding
<1>3. ASSUME NEW u \in Sessions, hand'[u] # None
      PROVE  rpc'[u] = "deliver" /\ bound'[hand'[u].view] = u
  <2>1. CASE u = t
    BY <1>1, <2>1
  <2>2. CASE u # t
    BY <1>3, <2>2 DEF Holding, Threads
  <2> QED
    BY <2>1, <2>2
<1>4. ASSUME NEW a \in Actors, hand'[a] # None
      PROVE  hand'[a].item = Exit /\ bound'[hand'[a].view] \in Sessions
  <2>1. CASE a = t
    BY <1>1, <2>1
  <2>2. CASE a # t
    BY <1>4, <2>2 DEF Holding, Threads
  <2> QED
    BY <2>1, <2>2
<1>5. ASSUME NEW u \in Threads, hand'[u] # None, hand'[u].item = Exit
      PROVE  exited'[bound'[hand'[u].view]]
  <2>1. CASE u = t
    BY <1>1, <1>5, <2>1
  <2>2. CASE u # t
    <3>1. hand'[u] = hand[u] /\ bound[hand[u].view] \in Sessions
      BY <1>1, <1>5, <2>2 DEF Holding
    <3> QED
      BY <1>5, <3>1 DEF Holding
  <2> QED
    BY <2>1, <2>2
<1> QED
  BY <1>2, <1>3, <1>4, <1>5 DEF Holding

LEMMA HoldingHands ==
  ASSUME Ground, Holding,
         \/ \E s \in Sessions : ReaderHands(s)
         \/ \E a \in Actors : KillHands(a)
  PROVE  Holding'
<1>a. Exit \in Items /\ None \notin Sessions /\ Actors \cap Sessions = {}
  BY ItemKinds, NamesAssumption
<1>b. \A s \in Sessions : s \in Threads /\ ~ (s \in Actors)
  BY <1>a DEF Threads
<1>c. \A n \in Chunks : n \in Items /\ n # Exit
  BY ItemKinds DEF IsChunk
<1>1. ASSUME NEW s \in Sessions, ReaderPublish(s) PROVE Holding'
  <2>1. outSeq[s] + 1 \in Chunks
    BY <1>1, PublishFacts DEF Ground
  <2>2. CASE att[s] = None
    <3>1. hand[s] = None
      BY <1>1, PublishHands DEF Holding
    <3> QED
      BY <1>1, <2>2, <3>1, PublishHands, HoldingFrame
  <2>3. CASE att[s] # None
    <3> DEFINE i == outSeq[s] + 1
    <3>1. i \in Items /\ i # Exit
      BY <1>c, <2>1
    <3>2. /\ rpc'[s] = "deliver" /\ hand'[s] = [view |-> att[s], item |-> i]
          /\ \A u \in Threads : u # s => hand'[u] = hand[u]
          /\ UNCHANGED <<bound, att, exited>>
          /\ \A u \in Sessions : u # s => rpc'[u] = rpc[u]
      BY <1>1, <2>3, PublishHands
    <3> HIDE DEF i
    <3> QED
      BY <1>b, <2>3, <3>1, <3>2, HoldingTakes
  <2> QED
    BY <2>2, <2>3
<1>2. ASSUME NEW s \in Sessions, ReaderDeliver(s) PROVE Holding'
  <2>1. \A u \in Threads : hand'[u] = IF u = s THEN None ELSE hand[u]
    BY <1>2, ReaderDeliverFacts, DeliverFacts
  <2> QED
    BY <1>2, <1>b, <2>1, ReaderDeliverFacts, HoldingFrame
<1>3. ASSUME NEW s \in Sessions, ReaderNotifies(s) PROVE Holding'
  <2>1. hand[s] = None
    BY <1>3, ReaderNotifyFacts DEF Holding
  <2>2. CASE hand' = hand
    BY <1>3, <2>1, <2>2, ReaderNotifyFacts, NotifyFacts, HoldingFrame
  <2>3. CASE hand' # hand
    <3>1. /\ att[s] # None /\ hand'[s] = [view |-> att[s], item |-> Exit]
          /\ \A u \in Threads : u # s => hand'[u] = hand[u]
      BY <1>3, <2>3, ReaderNotifyFacts, NotifyFacts
    <3>2. rpc'[s] = "deliver"
      <4>1. [view |-> att[s], item |-> Exit] \in [view : Views, item : Items]
        BY <1>3, <1>a, <2>3, ReaderNotifyFacts, NotifyFacts
      <4> QED
        BY <1>3, <2>1, <3>1, <4>1, ReaderNotifyFacts, NamesAssumption
    <3>3. exited'[s] /\ \A u \in Sessions : exited[u] => exited'[u]
      BY <1>3, ReaderNotifyFacts, NotifyFacts
    <3> QED
      BY <1>3, <1>a, <1>b, <3>1, <3>2, <3>3, ReaderNotifyFacts, HoldingTakes
  <2> QED
    BY <2>2, <2>3
<1>4. ASSUME NEW a \in Actors, KillNotifies(a) PROVE Holding'
  <2>1. CASE hand' = hand
    BY <1>4, <2>1, KillNotifyFacts, NotifyFacts, HoldingFrame
  <2>2. CASE hand' # hand
    <3>1. /\ att[tgt[a]] # None /\ hand'[a] = [view |-> att[tgt[a]], item |-> Exit]
          /\ \A u \in Threads : u # a => hand'[u] = hand[u]
      BY <1>4, <2>2, KillNotifyFacts, NotifyFacts
    <3>2. exited'[tgt[a]] /\ \A u \in Sessions : exited[u] => exited'[u]
      BY <1>4, KillNotifyFacts, NotifyFacts
    <3> QED
      BY <1>4, <1>a, <3>1, <3>2, KillNotifyFacts, HoldingTakes
  <2> QED
    BY <2>1, <2>2
<1>5. ASSUME NEW a \in Actors, KillDelivers(a) PROVE Holding'
  <2>1. \A u \in Threads : hand'[u] = IF u = a THEN None ELSE hand[u]
    BY <1>5, KillDeliverFacts, DeliverFacts
  <2> QED
    BY <1>5, <2>1, KillDeliverFacts, HoldingFrame
<1> QED
  BY <1>1, <1>2, <1>3, <1>4, <1>5 DEF ReaderHands, KillHands

LEMMA HoldingAttach ==
  ASSUME Ground, Holding, NEW v \in Views, Attach(v)
  PROVE  Holding'
<1> DEFINE s == tgt[Loop]
<1>a. s \in Sessions /\ bound[v] = None /\ None \notin Sessions
  BY AttachFacts, NamesAssumption
<1>b. UNCHANGED <<exited, rpc, hand>> /\ \A t \in Threads : t \in Sessions \/ t \in Actors
  BY AttachFacts DEF Threads
<1>c. /\ \A w \in Views : bound'[w] = IF w = v THEN s ELSE bound[w]
      /\ \A u \in Sessions : att'[u] = IF u = s THEN v ELSE att[u]
  BY AttachFacts
<1>d. /\ \A u \in Sessions : att[u] \in Views \cup {None}
      /\ \A t \in Threads : hand[t] # None => hand[t].view \in Views
  BY DEF Ground, Inv0, TypeOK, SesType, ThreadType
<1> HIDE DEF s
<1>1. \A t \in Threads : hand[t] # None => hand[t].view # v
  BY <1>a, <1>b DEF Holding
<1>2. \A u \in Sessions : att[u] # v
  BY <1>a, <1>d, NamesAssumption DEF Holding
<1>3. \A u \in Sessions : att'[u] # None => bound'[att'[u]] = u
  BY <1>a, <1>c, <1>d, <1>2 DEF Holding
<1>4. \A t \in Threads : hand[t] # None => bound'[hand'[t].view] = bound[hand[t].view]
  BY <1>b, <1>c, <1>d, <1>1
<1>5. \A u \in Sessions : hand'[u] # None => rpc'[u] = "deliver" /\ bound'[hand'[u].view] = u
  BY <1>b, <1>4 DEF Holding, Threads
<1>6. \A a \in Actors :
         hand'[a] # None => hand'[a].item = Exit /\ bound'[hand'[a].view] \in Sessions
  BY <1>b, <1>4 DEF Holding, Threads
<1>7. \A t \in Threads :
         hand'[t] # None /\ hand'[t].item = Exit => exited'[bound'[hand'[t].view]]
  BY <1>b, <1>4 DEF Holding
<1> QED
  BY <1>3, <1>5, <1>6, <1>7 DEF Holding

LEMMA HoldingStep ==
  ASSUME Ground, Holding, [Next]_vars
  PROVE  Holding'
<1>1. CASE Quiet
  <2>1. \A s \in Sessions : exited[s] => exited'[s]
    BY <1>1 DEF Quiet, Ground, Inv0, TypeOK, SesType
  <2>2. \A s \in Sessions : hand'[s] # None => rpc'[s] = rpc[s] \/ rpc'[s] = "deliver"
    BY <1>1 DEF Quiet, Holding
  <2> QED
    BY <1>1, <2>1, <2>2, HoldingFrame DEF Quiet
<1>2. ASSUME NEW v \in Views, SendReplay(v) \/ StartPump(v) \/ PumpSends(v)
      PROVE  Holding'
  <2>1. UNCHANGED <<bound, att, exited, rpc, hand>>
    BY <1>2, ReplayFacts, StartPumpFacts, PumpFacts
  <2> QED
    BY <2>1, HoldingFrame
<1> QED
  BY <1>1, <1>2, HoldingHands, HoldingAttach, StepKinds DEF ViewMoves

LEMMA TellsFrame ==
  ASSUME NEW v \in Views, Tells(v), UNCHANGED <<bound[v], replay[v], queue[v], got[v]>>,
         sock'[v] = "open" /\ bound[v] # None => sock[v] = "open",
         \A s \in Sessions : exited[s] => exited'[s]
  PROVE  Tells(v)'
<1>1. HasExit(got[v]) => bound[v] # None
  BY NamesAssumption DEF Tells
<1> QED
  BY <1>1 DEF Tells

LEMMA TellsDelivery ==
  ASSUME Ground, Holding, NEW t \in Threads, hand[t] # None, Deliver(t), NEW v \in Views,
         Tells(v), UNCHANGED <<bound, replay, got, exited, sock>>
  PROVE  Tells(v)'
<1>1. CASE v # hand[t].view
  <2>1. queue'[v] = queue[v]
    BY <1>1, DeliverFacts
  <2> QED
    BY <2>1, TellsFrame
<1>2. CASE v = hand[t].view
  <2>1. queue[v] \in Seq(Items) /\ hand[t].item \in Items
    BY DeliverFacts DEF Ground, Inv0, TypeOK, ConnType
  <2>2. queue'[v] = Append(queue[v], hand[t].item)
    BY <1>2, DeliverFacts
  <2>3. HasExit(queue'[v]) <=> HasExit(queue[v]) \/ hand[t].item = Exit
    BY <2>1, <2>2, ExitFacts
  <2>4. t \in Sessions \/ t \in Actors
    BY DEF Threads
  <2>5. bound[v] \in Sessions /\ (hand[t].item = Exit => exited[bound[v]])
    BY <1>2, <2>4 DEF Holding
  <2>6. bound[v] # None
    BY <2>5, NamesAssumption
  <2> HIDE DEF HasExit
  <2> QED
    BY <2>3, <2>5, <2>6 DEF Tells
<1> QED
  BY <1>1, <1>2

LEMMA TellsAttach ==
  ASSUME Ground, Telling, NEW v \in Views, Attach(v), NEW w \in Views
  PROVE  Tells(w)'
<1>1. Tells(v) /\ Tells(w) /\ None \notin Sessions
  BY NamesAssumption DEF Telling
<1>2. CASE w # v
  <2>1. UNCHANGED <<bound[w], replay[w], queue[w], got[w], sock, exited>>
    BY <1>2, AttachFacts
  <2> QED
    BY <1>1, <2>1, TellsFrame
<1>3. CASE w = v
  <2>1. bound'[v] = tgt[Loop] /\ tgt[Loop] \in Sessions
    BY AttachFacts
  <2>2. UNCHANGED <<exited, got>> /\ queue'[v] = IF exited[tgt[Loop]] THEN <<Exit>> ELSE <<>>
    BY AttachFacts
  <2>3. got[v] = <<>>
    BY <1>1, AttachFacts DEF Tells
  <2>4. ~HasExit(got'[v]) /\ (HasExit(queue'[v]) => exited[tgt[Loop]])
    BY <2>2, <2>3, ExitFacts
  <2> QED
    BY <1>1, <1>3, <2>1, <2>2, <2>4 DEF Tells
<1> QED
  BY <1>2, <1>3

LEMMA TellsMoves ==
  ASSUME Ground, Telling, NEW v \in Views, SendReplay(v) \/ StartPump(v) \/ PumpSends(v),
         NEW w \in Views
  PROVE  Tells(w)'
<1>a. /\ Tells(v) /\ Tells(w) /\ got[v] \in Seq(Items) /\ queue[v] \in Seq(Items)
      /\ replay[v] \in Seq(Chunks)
  BY DEF Telling, Ground, Inv0, TypeOK, ConnType
<1>b. UNCHANGED <<bound, exited>>
  BY ReplayFacts, StartPumpFacts, PumpFacts
<1>1. CASE w # v
  <2>1. UNCHANGED <<replay[w], queue[w], got[w], sock[w]>>
    BY <1>1, ReplayFacts, StartPumpFacts, PumpFacts
  <2> QED
    BY <1>a, <1>b, <2>1, TellsFrame
<1>2. CASE w = v /\ SendReplay(v)
  <2>1. /\ bound[v] # None /\ UNCHANGED <<queue, sock>>
        /\ got'[v] = Append(got[v], Head(replay[v]))
    BY <1>a, <1>2, ReplayFacts DEF Tells
  <2>2. Head(replay[v]) \in Items /\ Head(replay[v]) # Exit
    <3>1. Head(replay[v]) \in Chunks
      BY <1>a, <1>2, ReplayFacts, HeadTailProperties
    <3> QED
      BY <3>1, ItemKinds DEF IsChunk
  <2>3. HasExit(got'[v]) <=> HasExit(got[v])
    BY <1>a, <2>1, <2>2, ExitFacts
  <2> QED
    BY <1>a, <1>b, <1>2, <2>1, <2>3 DEF Tells
<1>3. CASE w = v /\ StartPump(v)
  <2>1. UNCHANGED <<queue, sock, got>> /\ replay'[v] = <<>>
    BY <1>3, StartPumpFacts
  <2> QED
    BY <1>a, <1>b, <1>3, <2>1 DEF Tells
<1>4. CASE w = v /\ PumpSends(v)
  <2> DEFINE i == Head(queue[v])
  <2>1. /\ queue[v] # <<>> /\ queue'[v] = Tail(queue[v])
        /\ got'[v] = IF sock[v] = "open" THEN Append(got[v], i) ELSE got[v]
        /\ sock'[v] = IF sock[v] = "open" /\ i = Exit THEN "closed" ELSE sock[v]
    BY <1>4, PumpFacts
  <2>2. i \in Items
    BY <1>a, <2>1, HeadTailProperties
  <2>3. HasExit(queue'[v]) \/ i = Exit <=> HasExit(queue[v])
    BY <1>a, <2>1, ExitFacts
  <2>4. bound[v] # None
    BY <1>a, <2>1 DEF Tells
  <2> HIDE DEF i
  <2>5. HasExit(Append(got[v], i)) <=> HasExit(got[v]) \/ i = Exit
    BY <1>a, <2>2, ExitFacts
  <2>6. HasExit(got'[v]) => HasExit(got[v]) \/ (i = Exit /\ sock[v] = "open")
    BY <2>1, <2>5
  <2>7. HasExit(queue'[v]) \/ HasExit(got'[v]) => bound[v] \in Sessions /\ exited[bound[v]]
    BY <1>a, <2>3, <2>6 DEF Tells
  <2>8. HasExit(got'[v]) => sock'[v] # "open"
    BY <1>a, <2>1, <2>6 DEF Tells
  <2> QED
    BY <1>b, <1>4, <2>4, <2>7, <2>8 DEF Tells
<1> QED
  BY <1>1, <1>2, <1>3, <1>4

LEMMA TellingStep ==
  ASSUME Ground, Holding, Telling, [Next]_vars
  PROVE  Telling'
<1>a. \A s \in Sessions : s \in Threads
  BY DEF Threads
<1> SUFFICES ASSUME NEW w \in Views PROVE Tells(w)'
  BY DEF Telling
<1>1. Tells(w)
  BY DEF Telling
<1>2. CASE Quiet
  <2>1. \A s \in Sessions : exited[s] => exited'[s]
    BY <1>2 DEF Quiet, Ground, Inv0, TypeOK, SesType
  <2> QED
    BY <1>1, <1>2, <2>1, TellsFrame DEF Quiet
<1>3. CASE \E s \in Sessions : ReaderHands(s)
  <2>1. ASSUME NEW s \in Sessions, ReaderPublish(s) PROVE Tells(w)'
    BY <1>1, <2>1, PublishHands, TellsFrame
  <2>2. ASSUME NEW s \in Sessions, ReaderDeliver(s) PROVE Tells(w)'
    BY <1>1, <2>2, ReaderDeliverFacts, TellsDelivery
  <2>3. ASSUME NEW s \in Sessions, ReaderNotifies(s) PROVE Tells(w)'
    BY <1>1, <2>3, ReaderNotifyFacts, NotifyFacts, TellsFrame
  <2> QED
    BY <1>3, <2>1, <2>2, <2>3 DEF ReaderHands
<1>4. CASE \E a \in Actors : KillHands(a)
  <2>1. ASSUME NEW a \in Actors, KillNotifies(a) PROVE Tells(w)'
    BY <1>1, <2>1, KillNotifyFacts, NotifyFacts, TellsFrame
  <2>2. ASSUME NEW a \in Actors, KillDelivers(a) PROVE Tells(w)'
    BY <1>1, <2>2, KillDeliverFacts, TellsDelivery
  <2> QED
    BY <1>4, <2>1, <2>2 DEF KillHands
<1>5. CASE \E v \in Views : ViewMoves(v)
  BY <1>5, TellsAttach, TellsMoves DEF ViewMoves
<1> QED
  BY <1>2, <1>3, <1>4, <1>5, StepKinds

LEMMA HoldingTellingInit ==
  ASSUME Init
  PROVE  Holding /\ Telling
<1>1. /\ \A s \in Sessions : att[s] = None
      /\ \A t \in Threads : hand[t] = None
      /\ \A v \in Views : bound[v] = None /\ got[v] = <<>> /\ replay[v] = <<>> /\ queue[v] = <<>>
  BY DEF Init
<1>2. Holding
  BY <1>1 DEF Holding, Threads
<1>3. Telling
  BY <1>1, ExitFacts DEF Telling, Tells
<1> QED
  BY <1>2, <1>3

\* All of the above, and that an exit sentinel, wherever it is, is of a session
\* that is over.
Informed == Ground /\ Holding /\ Telling

LEMMA InformedHolds == Spec => []Informed
<1>1. Ground /\ Holding /\ Telling /\ [Next]_vars => Holding' /\ Telling'
  BY HoldingStep, TellingStep
<1> QED
  BY <1>1, HoldingTellingInit, GroundHolds, PTL DEF Spec, Informed

\* However kills, readers and connections interleave: a viewer is shown the exit
\* frame only of a session that is over, and whose shell then is dead, or about to
\* be killed, or could not be killed.
THEOREM ExitFrameTrue == Spec => []ExitFrameHonest
<1>1. ASSUME Informed PROVE ExitFrameHonest
  <2> SUFFICES ASSUME NEW v \in Views, \E i \in DOMAIN got[v] : got[v][i] = Exit
               PROVE  /\ exited[bound[v]]
                      /\ Alive(bound[v]) => BeingKilled(bound[v]) \/ bound[v] \in stuck
    BY DEF ExitFrameHonest
  <2>1. got[v] \in Seq(Items)
    BY <1>1 DEF Informed, Ground, Inv0, TypeOK, ConnType
  <2>2. HasExit(got[v])
    BY <2>1, LenProperties DEF HasExit
  <2>3. bound[v] \in Sessions /\ exited[bound[v]]
    BY <1>1, <2>2 DEF Informed, Telling, Tells
  <2> QED
    BY <1>1, <2>3 DEF Informed, Ground, Kept, Lifecycle
<1> QED
  BY <1>1, InformedHolds, PTL

-----------------------------------------------------------------------------
(* The stream of a view.                                                   *)

\* What StreamUnbroken asks of one view, and that its stream is not ahead of the
\* session.
Sound(q, n, latest) == Unbroken(q) /\ AtMost(q, n) /\ (latest => UpTo(q, n))

Follows(v) ==
    (bound[v] # None /\ sock[v] = "open") =>
        Sound(Stream(v), outSeq[bound[v]], att[bound[v]] = v)

Following == \A v \in Views : Follows(v)

\* The catch-up buffer is a sound stream for a view that has just attached.
LEMMA RecentIsSound ==
  ASSUME NEW q \in Seq(Chunks), NEW n \in Nat, Recent(q, n)
  PROVE  Sound(q, n, TRUE)
<1>1. /\ Len(q) \in Nat /\ Len(q) <= n /\ (n > 0 => Len(q) > 0)
      /\ \A i \in 1 .. Len(q) : q[i] = n - Len(q) + i
  BY LenProperties, EmptySeq DEF Recent
<1>2. \A i \in 1 .. Len(q) : IsChunk(q[i])
  BY ElementOfSeq, ItemKinds
<1>3. Unbroken(q)
  <2> SUFFICES ASSUME NEW i \in 1 .. Len(q), NEW j \in 1 .. Len(q), FollowsIn(q, i, j)
               PROVE  q[j] = q[i] + 1
    BY DEF Unbroken
  <2>1. i < j /\ \A k \in i + 1 .. j - 1 : ~IsChunk(q[k])
    BY DEF FollowsIn
  <2>2. j = i + 1
    <3> SUFFICES ASSUME i + 1 < j PROVE FALSE
      BY <1>1, <2>1
    <3>1. i + 1 \in i + 1 .. j - 1 /\ i + 1 \in 1 .. Len(q)
      BY <1>1
    <3> QED
      BY <1>2, <2>1, <3>1
  <2> QED
    BY <1>1, <2>2
<1>4. AtMost(q, n)
  BY <1>1 DEF AtMost
<1>5. UpTo(q, n)
  <2>1. CASE n = 0
    BY <1>1, <2>1 DEF UpTo
  <2>2. CASE n > 0
    <3>1. /\ Len(q) \in 1 .. Len(q) /\ q[Len(q)] = n
          /\ \A k \in Len(q) + 1 .. Len(q) : ~IsChunk(q[k])
      BY <1>1, <2>2
    <3> QED
      BY <1>2, <3>1 DEF UpTo
  <2> QED
    BY <2>1, <2>2
<1> QED
  BY <1>3, <1>4, <1>5 DEF Sound

LEMMA SoundNext ==
  ASSUME NEW q \in Seq(Items), NEW n \in Nat, n + 1 \in Chunks, Sound(q, n, TRUE)
  PROVE  Sound(Append(q, n + 1), n + 1, TRUE)
<1> DEFINE a == Append(q, n + 1)
<1>1. Unbroken(a) /\ UpTo(a, n + 1)
  BY NextChunk DEF Sound
<1>2. /\ Len(a) = Len(q) + 1 /\ Len(q) \in Nat
      /\ \A i \in 1 .. Len(q) : a[i] = q[i] /\ q[i] \in Items
      /\ a[Len(q) + 1] = n + 1
  BY ItemKinds, AppendProperties, LenProperties, ElementOfSeq
<1> HIDE DEF a
<1>3. ASSUME NEW i \in 1 .. Len(a), IsChunk(a[i]) PROVE a[i] <= n + 1
  <2>1. CASE i \in 1 .. Len(q)
    <3>1. a[i] <= n /\ a[i] \in Nat
      BY <1>2, <1>3, <2>1, ItemKinds DEF Sound, AtMost
    <3> QED
      BY <3>1
  <2>2. CASE i = Len(q) + 1
    BY <1>2, <2>2
  <2> QED
    BY <1>2, <2>1, <2>2
<1> QED
  BY <1>1, <1>3 DEF Sound, AtMost, a

\* A view that is no longer attached is not owed the latest chunk.
LEMMA SoundLater ==
  ASSUME NEW q \in Seq(Items), NEW n \in Nat, NEW l \in BOOLEAN, Sound(q, n, l)
  PROVE  Sound(q, n, FALSE) /\ Sound(q, n + 1, FALSE)
<1>1. ASSUME NEW i \in 1 .. Len(q), IsChunk(q[i]) PROVE q[i] <= n + 1
  <2>1. q[i] <= n /\ q[i] \in Nat
    BY <1>1, ElementOfSeq, ItemKinds DEF Sound, AtMost
  <2> QED
    BY <2>1
<1> QED
  BY <1>1 DEF Sound, AtMost

LEMMA SoundSentinel ==
  ASSUME NEW q \in Seq(Items), NEW n \in Nat, NEW l \in BOOLEAN
  PROVE  /\ Sound(q, n, l) => Sound(Append(q, Exit), n, l)
         /\ \A c \in Chunks : Sound(Append(q, c), n, l) =>
                Sound(Append(Append(q, Exit), c), n, l)
<1>1. Sound(q, n, l) => Sound(Append(q, Exit), n, l)
  BY SentinelLast DEF Sound
<1>2. ASSUME NEW c \in Chunks, Sound(Append(q, c), n, l)
      PROVE  Sound(Append(Append(q, Exit), c), n, l)
  BY <1>2, SentinelBeforeLast DEF Sound
<1> QED
  BY <1>1, <1>2

\* The parts of a stream are sequences of items; a hand is a chunk's or is not.
LEMMA StreamTypes ==
  ASSUME Ground, NEW v \in Views
  PROVE  /\ got[v] \in Seq(Items) /\ replay[v] \in Seq(Items) /\ queue[v] \in Seq(Items)
         /\ got[v] \o replay[v] \in Seq(Items) /\ Coming(v) \in Seq(Items)
         /\ bound[v] # None => bound[v] \in Sessions /\ outSeq[bound[v]] \in Nat
         /\ bound[v] # None /\ hand[bound[v]] # None =>
               hand[bound[v]].item \in Items /\ (hand[bound[v]].item \in Chunks \/
                                                 hand[bound[v]].item = Exit)
         /\ bound[v] # None => Stream(v) \in Seq(Items)
<1>1. ConnType /\ SesType /\ ThreadType
  BY DEF Ground, Inv0, TypeOK
<1>2. got[v] \in Seq(Items) /\ replay[v] \in Seq(Items) /\ queue[v] \in Seq(Items)
  <2>1. Seq(Chunks) \subseteq Seq(Items)
    BY SeqMonotonic DEF Items
  <2> QED
    BY <1>1, <2>1 DEF ConnType
<1>3. got[v] \o replay[v] \in Seq(Items)
  BY <1>2, ConcatProperties
<1>4. Coming(v) \in Seq(Items)
  BY <1>2, <1>3, ConcatProperties DEF Coming
<1>5. bound[v] # None => bound[v] \in Sessions /\ outSeq[bound[v]] \in Nat
  BY <1>1 DEF ConnType, SesType
<1>6. bound[v] # None /\ hand[bound[v]] # None => hand[bound[v]].item \in Items
  BY <1>1, <1>5 DEF ThreadType, Threads
<1>7. bound[v] # None => Stream(v) \in Seq(Items)
  <2>1. \A i \in Items : Append(Coming(v), i) \in Seq(Items)
    BY <1>4, AppendProperties
  <2> HIDE DEF Coming
  <2> QED
    BY <1>4, <1>6, <2>1 DEF Stream
<1> QED
  BY <1>2, <1>3, <1>4, <1>5, <1>6, <1>7 DEF Items

\* A view whose stream is as it was still follows its session.
LEMMA FollowsSame ==
  ASSUME Ground, NEW v \in Views, Follows(v), bound'[v] = bound[v],
         bound[v] # None => outSeq'[bound[v]] = outSeq[bound[v]],
         sock'[v] = "open" /\ bound[v] # None => sock[v] = "open" /\ Stream(v)' = Stream(v),
         bound[v] # None /\ att'[bound[v]] = v => att[bound[v]] = v
  PROVE  Follows(v)'
<1> SUFFICES ASSUME bound[v] # None, sock'[v] = "open"
             PROVE  Sound(Stream(v)', outSeq[bound[v]], att'[bound[v]] = v)
  BY DEF Follows
<1>1. Sound(Stream(v), outSeq[bound[v]], att[bound[v]] = v) /\ Stream(v)' = Stream(v)
  BY DEF Follows
<1> QED
  BY <1>1 DEF Sound

\* What a thread holds for another view, or that is no chunk, is not in the stream.
LEMMA StreamCases ==
  ASSUME NEW v \in Views
  PROVE  LET h == hand[bound[v]]
         IN  /\ h = None \/ h.view # v \/ h.item = Exit => Stream(v) = Coming(v)
             /\ h # None /\ h.view = v /\ h.item # Exit => Stream(v) = Append(Coming(v), h.item)
BY DEF Stream, IsChunk

LEMMA FollowsPublish ==
  ASSUME Ground, Holding, NEW s \in Sessions, ReaderPublish(s), NEW v \in Views, Follows(v)
  PROVE  Follows(v)'
<1>a. UNCHANGED <<bound, replay, queue, got, att, sock>> /\ rpc[s] = "read"
  BY PublishHands
<1>b. /\ outSeq[s] + 1 \in Chunks
      /\ \A u \in Sessions : outSeq'[u] = IF u = s THEN outSeq[s] + 1 ELSE outSeq[u]
  BY PublishFacts DEF Ground
<1>c. Coming(v)' = Coming(v)
  BY <1>a DEF Coming
<1>d. \A u \in Sessions : u \in Threads
  BY DEF Threads
<1>1. CASE bound[v] # s
  <2>1. bound[v] # None => hand'[bound[v]] = hand[bound[v]]
    BY <1>1, <1>d, PublishHands, StreamTypes
  <2>2. bound[v] # None => Stream(v)' = Stream(v)
    BY <1>a, <1>c, <2>1 DEF Stream
  <2> QED
    BY <1>1, <1>a, <1>b, <2>2, StreamTypes, FollowsSame
<1>2. CASE bound[v] = s
  <2>0. bound[v] # None /\ hand[s] = None /\ outSeq[s] \in Nat /\ Coming(v) \in Seq(Items)
    BY <1>2, <1>a, NamesAssumption, StreamTypes DEF Holding
  <2>1. Stream(v) = Coming(v)
    BY <1>2, <2>0 DEF Stream
  <2> SUFFICES ASSUME sock[v] = "open"
               PROVE  Sound(Stream(v)', outSeq[s] + 1, att[s] = v)
    BY <1>2, <1>a, <1>b, <2>0 DEF Follows
  <2>2. Sound(Coming(v), outSeq[s], att[s] = v)
    BY <1>2, <2>0, <2>1 DEF Follows
  <2>3. CASE att[s] = v
    <3>1. hand'[s] = [view |-> v, item |-> outSeq[s] + 1]
      BY <2>3, PublishHands, NamesAssumption
    <3>2. outSeq[s] + 1 # Exit /\ IsChunk(outSeq[s] + 1) /\ outSeq[s] + 1 \in Items
      BY <1>b, ItemKinds DEF IsChunk
    <3>3. hand'[s] # None
      <4>1. [view |-> v, item |-> outSeq[s] + 1] \in [view : Views, item : Items]
        BY <3>2
      <4> QED
        BY <3>1, <4>1, NamesAssumption
    <3>4. Stream(v)' = Append(Coming(v), outSeq[s] + 1)
      BY <1>2, <1>a, <1>c, <3>1, <3>2, <3>3 DEF Stream
    <3> QED
      BY <1>b, <2>0, <2>2, <2>3, <3>4, SoundNext
  <2>4. CASE att[s] # v
    <3>1. hand'[s] = None \/ hand'[s].view # v
      <4>1. CASE hand' = hand
        BY <2>0, <4>1
      <4>2. CASE hand'[s] = [view |-> att[s], item |-> outSeq[s] + 1]
        BY <2>4, <4>2
      <4> QED
        BY <4>1, <4>2, PublishHands
    <3>2. Stream(v)' = Coming(v)
      BY <1>2, <1>a, <1>c, <3>1 DEF Stream
    <3> QED
      BY <2>0, <2>2, <2>4, <3>2, SoundLater
  <2> QED
    BY <2>3, <2>4
<1> QED
  BY <1>1, <1>2

\* An item that leaves a hand for the queue of its view: a chunk was in the stream
\* already, a sentinel is new to it.
LEMMA FollowsDelivery ==
  ASSUME Ground, Holding, NEW t \in Threads, hand[t] # None, Deliver(t), NEW v \in Views,
         Follows(v), UNCHANGED <<outSeq, bound, replay, got, att, sock>>
  PROVE  Follows(v)'
<1>a. \A w \in Views : queue'[w] = IF w = hand[t].view THEN Append(queue[w], hand[t].item)
                                   ELSE queue[w]
  BY DeliverFacts
<1>b. \A u \in Threads : hand'[u] = IF u = t THEN None ELSE hand[u]
  BY DeliverFacts
<1>c. hand[t].item \in Items /\ (t \in Sessions \/ t \in Actors)
  BY DeliverFacts DEF Threads
<1>d. bound[v] # None => bound[v] \in Sessions /\ bound[v] \in Threads
  BY StreamTypes DEF Threads
<1>1. CASE v # hand[t].view
  <2>1. Coming(v)' = Coming(v)
    BY <1>1, <1>a DEF Coming
  <2>2. bound[v] # None => Stream(v)' = Stream(v)
    BY <1>1, <1>b, <1>d, <2>1 DEF Stream
  <2> QED
    BY <2>2, FollowsSame
<1>2. CASE v = hand[t].view
  <2> DEFINE i == hand[t].item
  <2>1. Coming(v)' = Append(Coming(v), i) /\ Coming(v) \in Seq(Items)
    <3>1. queue'[v] = Append(queue[v], i)
      BY <1>2, <1>a
    <3> DEFINE p == got[v] \o replay[v]
    <3>2. p \in Seq(Items) /\ queue[v] \in Seq(Items) /\ Coming(v) = p \o queue[v]
      BY StreamTypes DEF Coming
    <3>3. Coming(v)' = p \o Append(queue[v], i)
      BY <3>1 DEF Coming
    <3> HIDE DEF p, i
    <3>4. p \o Append(queue[v], i) = Append(p \o queue[v], i)
      BY <1>c, <3>2, AppendLast DEF i
    <3> QED
      BY <3>2, <3>3, <3>4, StreamTypes
  <2>2. CASE t \in Sessions /\ i # Exit
    <3>1. bound[v] = t
      BY <1>2, <2>2 DEF Holding
    <3>2. Stream(v) = Append(Coming(v), i)
      BY <1>2, <2>2, <3>1 DEF Stream, IsChunk
    <3>3. Stream(v)' = Coming(v)'
      BY <1>b, <3>1 DEF Stream
    <3> QED
      BY <2>1, <3>2, <3>3, FollowsSame
  <2>3. CASE i = Exit
    <3>1. ASSUME bound[v] # None, sock[v] = "open"
          PROVE  Sound(Stream(v)', outSeq[bound[v]], att[bound[v]] = v)
      <4> DEFINE h == hand[bound[v]]
                 n == outSeq[bound[v]]
                 l == att[bound[v]] = v
      <4>1. Sound(Stream(v), n, l) /\ n \in Nat /\ l \in BOOLEAN
        BY <3>1, StreamTypes DEF Follows
      <4>2. CASE h # None /\ h.view = v /\ h.item # Exit
        <5>1. bound[v] # t /\ h.item \in Chunks
          BY <2>3, <3>1, <4>2, StreamTypes
        <5>2. Stream(v) = Append(Coming(v), h.item)
          BY <4>2 DEF Stream, IsChunk
        <5>3. hand'[bound[v]] = h
          BY <1>b, <1>d, <3>1, <5>1
        <5>4. Stream(v)' = Append(Coming(v)', h.item)
          BY <4>2, <5>3 DEF Stream, IsChunk
        <5> HIDE DEF h, n, l
        <5>5. Sound(Stream(v)', n, l)
          BY <2>1, <2>3, <4>1, <5>1, <5>2, <5>4, SoundSentinel
        <5> QED
          BY <5>5 DEF n, l
      <4>3. CASE h = None \/ h.view # v \/ h.item = Exit
        <5>1. Stream(v) = Coming(v)
          BY <4>3 DEF Stream, IsChunk
        <5>2. hand'[bound[v]] = h \/ hand'[bound[v]] = None
          BY <1>b, <1>d, <3>1
        <5>3. Stream(v)' = Coming(v)'
          BY <4>3, <5>2 DEF Stream, IsChunk
        <5> HIDE DEF h, n, l
        <5>5. Sound(Stream(v)', n, l)
          BY <2>1, <2>3, <4>1, <5>1, <5>3, SoundSentinel
        <5> QED
          BY <5>5 DEF n, l
      <4> QED
        BY <4>2, <4>3
    <3> QED
      BY <3>1 DEF Follows
  <2>4. t \in Actors => i = Exit
    BY DEF Holding
  <2> QED
    BY <1>c, <2>2, <2>3, <2>4
<1> QED
  BY <1>1, <1>2

\* A thread that takes a sentinel changes no stream.
LEMMA FollowsNotify ==
  ASSUME Ground, Holding, NEW t \in Threads, NEW s \in Sessions, NotifyExit(t, s),
         t \in Sessions => hand[t] = None, NEW v \in Views, Follows(v),
         UNCHANGED <<outSeq, bound, replay, queue, got, att, sock>>
  PROVE  Follows(v)'
<1>1. \A u \in Threads : hand'[u] = hand[u] \/ (u = t /\ hand'[u].item = Exit)
  <2>1. CASE hand' = hand
    BY <2>1
  <2>2. CASE /\ hand'[t] = [view |-> att[s], item |-> Exit]
             /\ \A u \in Threads : u # t => hand'[u] = hand[u]
    BY <2>2
  <2> QED
    BY <2>1, <2>2, NotifyFacts
<1>2. bound[v] # None => bound[v] \in Sessions /\ bound[v] \in Threads
  BY StreamTypes DEF Threads
<1>3. Coming(v)' = Coming(v)
  BY DEF Coming
<1>4. bound[v] # None => Stream(v)' = Stream(v)
  BY <1>1, <1>2, <1>3 DEF Stream, IsChunk
<1> QED
  BY <1>4, FollowsSame

\* A view that attaches starts from the catch-up buffer.
LEMMA FollowsAttach ==
  ASSUME Ground, Holding, Telling, NEW v \in Views, Attach(v), NEW w \in Views, Follows(w)
  PROVE  Follows(w)'
<1> DEFINE s == tgt[Loop]
<1>a. /\ s \in Sessions /\ bound[v] = None
      /\ UNCHANGED <<outSeq, ring, exited, rpc, hand, got, sock>>
      /\ \A u \in Views : bound'[u] = IF u = v THEN s ELSE bound[u]
      /\ \A u \in Sessions : att'[u] = IF u = s THEN v ELSE att[u]
  BY AttachFacts
<1>1. CASE w # v
  <2>1. UNCHANGED <<bound[w], replay[w], queue[w], got[w]>>
    BY <1>1, AttachFacts
  <2>2. Stream(w)' = Stream(w)
    BY <1>a, <2>1 DEF Stream, Coming
  <2>3. bound[w] # None /\ att'[bound[w]] = w => att[bound[w]] = w
    BY <1>1, <1>a, StreamTypes
  <2> QED
    BY <1>a, <2>1, <2>2, <2>3, FollowsSame
<1>2. CASE w = v
  <2>1. /\ got'[v] = <<>> /\ replay'[v] = ring[s]
        /\ queue'[v] = IF exited[s] THEN <<Exit>> ELSE <<>>
    BY <1>a, AttachFacts DEF Telling, Tells
  <2>2. ring[s] \in Seq(Chunks) /\ ring[s] \in Seq(Items) /\ outSeq[s] \in Nat
    <3>1. SesType
      BY DEF Ground, Inv0, TypeOK
    <3> QED
      BY <1>a, <3>1, SeqMonotonic DEF SesType, Items
  <2>3. Sound(ring[s], outSeq[s], TRUE)
    <3>1. Recent(ring[s], outSeq[s])
      BY <1>a DEF Ground, RingIsRecent, Recent
    <3> QED
      BY <2>2, <3>1, RecentIsSound
  <2>4. Coming(v)' = IF exited[s] THEN Append(ring[s], Exit) ELSE ring[s]
    <3>1. <<>> \o ring[s] = ring[s] /\ ring[s] \o <<>> = ring[s]
      BY <2>2, ConcatEmptySeq
    <3>2. Append(ring[s], Exit) = ring[s] \o <<Exit>>
      BY <2>2, ItemKinds, AppendIsConcat
    <3> HIDE DEF s
    <3> QED
      BY <2>1, <3>1, <3>2 DEF Coming
  <2>5. Stream(v)' = Coming(v)'
    <3>1. hand[s] # None => bound[hand[s].view] = s
      BY <1>a DEF Holding
    <3>2. hand[s] # None => hand[s].view # v
      BY <1>a, <3>1, NamesAssumption
    <3> QED
      BY <1>a, <3>2 DEF Stream
  <2>6. Sound(Stream(v)', outSeq[s], TRUE)
    BY <2>2, <2>3, <2>4, <2>5, SoundSentinel
  <2>7. Sound(Stream(v)', outSeq'[bound'[v]], att'[bound'[v]] = v)
    BY <1>a, <2>6 DEF Sound
  <2> QED
    BY <1>2, <2>7 DEF Follows
<1> QED
  BY <1>1, <1>2

\* Sending moves an item from one part of the stream to the part before it.
LEMMA FollowsMoves ==
  ASSUME Ground, NEW v \in Views, SendReplay(v) \/ StartPump(v) \/ PumpSends(v),
         NEW w \in Views, Follows(w)
  PROVE  Follows(w)'
<1>a. UNCHANGED <<bound, outSeq, att, hand>>
  BY ReplayFacts, StartPumpFacts, PumpFacts
<1>b. sock'[w] = "open" => sock[w] = "open"
  BY ReplayFacts, StartPumpFacts, PumpFacts
<1>c. got[v] \in Seq(Items) /\ replay[v] \in Seq(Items) /\ queue[v] \in Seq(Items)
  BY StreamTypes
<1>1. sock'[w] = "open" => Coming(w)' = Coming(w)
  <2>1. CASE w # v
    <3>1. UNCHANGED <<replay[w], queue[w], got[w]>>
      BY <2>1, ReplayFacts, StartPumpFacts, PumpFacts
    <3> QED
      BY <3>1 DEF Coming
  <2>2. CASE w = v /\ SendReplay(v)
    <3>1. /\ replay[v] # <<>> /\ queue'[v] = queue[v] /\ replay'[v] = Tail(replay[v])
          /\ got'[v] = Append(got[v], Head(replay[v]))
      BY <2>2, ReplayFacts
    <3>2. got'[v] \o replay'[v] = got[v] \o replay[v]
      BY <1>c, <3>1, MoveHead
    <3> QED
      BY <2>2, <3>1, <3>2 DEF Coming
  <2>3. CASE w = v /\ StartPump(v)
    <3>1. got' = got /\ queue' = queue /\ (sock'[v] = "open" => replay'[v] = replay[v])
      BY <2>3, StartPumpFacts
    <3> QED
      BY <2>3, <3>1 DEF Coming
  <2>4. CASE w = v /\ PumpSends(v)
    <3> SUFFICES ASSUME sock[v] = "open" PROVE Coming(v)' = Coming(v)
      BY <1>b, <2>4
    <3>1. /\ queue[v] # <<>> /\ replay[v] = <<>> /\ replay'[v] = <<>>
          /\ queue'[v] = Tail(queue[v]) /\ got'[v] = Append(got[v], Head(queue[v]))
      BY <2>4, PumpFacts
    <3>2. got'[v] \o queue'[v] = got[v] \o queue[v]
      BY <1>c, <3>1, MoveHead
    <3>3. got'[v] \in Seq(Items)
      <4>1. Head(queue[v]) \in Items
        BY <1>c, <3>1, HeadTailProperties
      <4> QED
        BY <1>c, <3>1, <4>1, AppendProperties
    <3>4. got'[v] \o <<>> = got'[v] /\ got[v] \o <<>> = got[v]
      BY <1>c, <3>3, ConcatEmptySeq
    <3> QED
      BY <3>1, <3>2, <3>4 DEF Coming
  <2> QED
    BY <2>1, <2>2, <2>3, <2>4
<1>2. sock'[w] = "open" => Stream(w)' = Stream(w)
  BY <1>a, <1>1 DEF Stream
<1> QED
  BY <1>a, <1>b, <1>2, FollowsSame

LEMMA FollowingStep ==
  ASSUME Informed, Following, [Next]_vars
  PROVE  Following'
<1>a. Ground /\ Holding /\ Telling /\ \A s \in Sessions : s \in Threads
  BY DEF Informed, Threads
<1>b. \A a \in Actors : a \notin Sessions
  BY NamesAssumption
<1> SUFFICES ASSUME NEW w \in Views PROVE Follows(w)'
  BY DEF Following
<1>1. Follows(w)
  BY DEF Following
<1>2. CASE Quiet
  <2>1. UNCHANGED <<bound, outSeq>> /\ Stream(w)' = Stream(w)
    BY <1>2 DEF Quiet, Stream, Coming
  <2>2. bound[w] # None /\ att'[bound[w]] = w => att[bound[w]] = w
    BY <1>2, <1>a, StreamTypes, NamesAssumption DEF Quiet
  <2>3. sock'[w] = "open" /\ bound[w] # None => sock[w] = "open"
    BY <1>2 DEF Quiet
  <2> QED
    BY <1>1, <1>a, <2>1, <2>2, <2>3, FollowsSame
<1>3. CASE \E s \in Sessions : ReaderHands(s)
  <2>1. ASSUME NEW s \in Sessions, ReaderPublish(s) PROVE Follows(w)'
    BY <1>1, <1>a, <2>1, FollowsPublish
  <2>2. ASSUME NEW s \in Sessions, ReaderDeliver(s) PROVE Follows(w)'
    BY <1>1, <1>a, <2>2, ReaderDeliverFacts, FollowsDelivery
  <2>3. ASSUME NEW s \in Sessions, ReaderNotifies(s) PROVE Follows(w)'
    <3>1. hand[s] = None
      BY <1>a, <2>3, ReaderNotifyFacts DEF Holding
    <3> QED
      BY <1>1, <1>a, <2>3, <3>1, ReaderNotifyFacts, FollowsNotify
  <2> QED
    BY <1>3, <2>1, <2>2, <2>3 DEF ReaderHands
<1>4. CASE \E a \in Actors : KillHands(a)
  <2>1. ASSUME NEW a \in Actors, KillNotifies(a) PROVE Follows(w)'
    BY <1>1, <1>a, <1>b, <2>1, KillNotifyFacts, FollowsNotify
  <2>2. ASSUME NEW a \in Actors, KillDelivers(a) PROVE Follows(w)'
    BY <1>1, <1>a, <2>2, KillDeliverFacts, FollowsDelivery
  <2> QED
    BY <1>4, <2>1, <2>2 DEF KillHands
<1>5. CASE \E v \in Views : ViewMoves(v)
  BY <1>1, <1>5, <1>a, FollowsAttach, FollowsMoves DEF ViewMoves
<1> QED
  BY <1>2, <1>3, <1>4, <1>5, <1>a, StepKinds

LEMMA FollowingInit ==
  ASSUME Init
  PROVE  Following
<1>1. \A v \in Views : bound[v] = None
  BY DEF Init
<1> QED
  BY <1>1 DEF Following, Follows

LEMMA FollowingHolds == Spec => [](Informed /\ Following)
<1>1. Informed /\ Following /\ [Next]_vars => Following'
  BY FollowingStep
<1> QED
  BY <1>1, FollowingInit, InformedHolds, PTL DEF Spec

\* However attach() interleaves with _publish, _deliver and the kill paths: an open
\* view gets a stretch of its session's output without a gap, a repetition or a
\* reordering, and the attached one gets it up to the last chunk published.
THEOREM StreamWhole == Spec => []StreamUnbroken
<1>1. Informed /\ Following => StreamUnbroken
  BY DEF Following, Follows, Sound, StreamUnbroken
<1> QED
  BY <1>1, FollowingHolds, PTL

-----------------------------------------------------------------------------
(* The refinement: what the connections are sent, step by step.            *)

\* The items sent and those of the catch-up buffer, or all that is coming, are the
\* beginning of the stream.
LEMMA StreamBegins ==
  ASSUME Ground, NEW v \in Views, bound[v] # None, NEW p,
         p = got[v] \o replay[v] \/ p = Coming(v), NEW i \in 1 .. Len(p)
  PROVE  i \in 1 .. Len(Stream(v)) /\ Stream(v)[i] = p[i]
<1> DEFINE c == Coming(v)
           h == hand[bound[v]]
<1>1. i \in 1 .. Len(c) /\ c[i] = p[i]
  <2>1. CASE p = c
    BY <2>1
  <2>2. CASE p = got[v] \o replay[v]
    <3>1. c = p \o queue[v] /\ p \in Seq(Items) /\ queue[v] \in Seq(Items)
      BY <2>2, StreamTypes DEF Coming
    <3> HIDE DEF c
    <3>2. Len(c) = Len(p) + Len(queue[v]) /\ c[i] = p[i] /\ Len(queue[v]) \in Nat
      BY <3>1, ConcatProperties, LenProperties
    <3>3. Len(p) \in Nat
      BY <3>1, LenProperties
    <3> QED
      BY <3>2, <3>3
  <2> QED
    BY <2>1, <2>2
<1>2. c \in Seq(Items) /\ (h # None => h.item \in Items)
  BY StreamTypes
<1> HIDE DEF c
<1>3. CASE Stream(v) = c
  BY <1>1, <1>3
<1>4. CASE h # None /\ Stream(v) = Append(c, h.item)
  <2>1. Len(Append(c, h.item)) = Len(c) + 1 /\ Append(c, h.item)[i] = c[i] /\ Len(c) \in Nat
    BY <1>1, <1>2, <1>4, AppendProperties, LenProperties
  <2> QED
    BY <1>1, <1>4, <2>1
<1>5. Stream(v) = c \/ (h # None /\ Stream(v) = Append(c, h.item))
  BY DEF Stream, c
<1> QED
  BY <1>3, <1>4, <1>5

\* The chunk that is sent next is the one after the last that was sent.
LEMMA SendsNext ==
  ASSUME Informed, Following, NEW v \in Views, bound[v] # None, sock[v] = "open",
         NEW q \in Seq(Items), q # <<>>, Head(q) # Exit,
         got[v] \o q = got[v] \o replay[v] \/ got[v] \o q = Coming(v)
  PROVE  /\ Head(q) \in 1 .. MaxOut /\ Head(q) <= outSeq[bound[v]] /\ ~View!Told(v)
         /\ got[v] # <<>> => Head(q) = got[v][Len(got[v])] + 1
<1> DEFINE g == got[v]
           p == g \o q
           n == Head(q)
           str == Stream(v)
<1>a. Ground /\ Telling /\ Follows(v)
  BY DEF Informed, Following
<1>b. g \in Seq(Items) /\ Len(g) \in Nat /\ (g # <<>> => Len(g) > 0)
  BY <1>a, StreamTypes, LenProperties, EmptySeq
<1>1. Sound(str, outSeq[bound[v]], att[bound[v]] = v)
  BY <1>a DEF Follows
<1>2. ~HasExit(g)
  BY <1>a DEF Telling, Tells
<1>3. ~View!Told(v)
  <2>1. DOMAIN g = 1 .. Len(g)
    BY <1>b, LenProperties
  <2> QED
    BY <1>2, <2>1 DEF View!Told, HasExit
<1>4. \A i \in 1 .. Len(p) : i \in 1 .. Len(str) /\ str[i] = p[i]
  BY <1>a, StreamBegins
<1>5. /\ Len(g) + 1 \in 1 .. Len(p) /\ p[Len(g) + 1] = n /\ n \in Items
      /\ g # <<>> => Len(g) \in 1 .. Len(p) /\ p[Len(g)] = g[Len(g)]
  BY <1>b, AtTheJoin
<1>6. n \in Chunks /\ n \in Nat /\ IsChunk(n)
  BY <1>5, ItemKinds DEF IsChunk
<1> HIDE DEF p, n, str, g
<1>7. Len(g) + 1 \in 1 .. Len(str) /\ str[Len(g) + 1] = n
  BY <1>4, <1>5
<1>8. n <= outSeq[bound[v]]
  BY <1>1, <1>6, <1>7 DEF Sound, AtMost
<1>9. ASSUME g # <<>> PROVE n = g[Len(g)] + 1
  <2>1. Len(g) \in 1 .. Len(str) /\ str[Len(g)] = g[Len(g)] /\ Len(g) \in 1 .. Len(g)
    BY <1>4, <1>5, <1>9, <1>b
  <2>2. IsChunk(g[Len(g)])
    BY <1>2, <2>1 DEF HasExit, IsChunk
  <2>3. \A k \in Len(g) + 1 .. Len(g) + 1 - 1 : FALSE
    BY <1>b
  <2>4. FollowsIn(str, Len(g), Len(g) + 1)
    BY <1>6, <1>7, <1>b, <2>1, <2>2, <2>3 DEF FollowsIn
  <2> QED
    BY <1>1, <1>7, <2>1, <2>4 DEF Sound, Unbroken
<1> QED
  BY <1>3, <1>6, <1>8, <1>9 DEF Chunks, n, g

LEMMA QuietRefines ==
  ASSUME Ground, Quiet
  PROVE  [View!ViewNext]_(View!viewVars)
<1>1. UNCHANGED <<outSeq, bound, got>>
  BY DEF Quiet
<1>2. exited' = exited \/ \E s \in Sessions : exited' = [exited EXCEPT ![s] = TRUE]
  BY DEF Quiet
<1> QED
  BY <1>1, <1>2 DEF View!ViewNext, View!viewVars, View!Finish

LEMMA ThreadRefines ==
  ASSUME Ground,
         \/ \E s \in Sessions : ReaderHands(s)
         \/ \E a \in Actors : KillHands(a)
  PROVE  [View!ViewNext]_(View!viewVars)
<1>1. ASSUME NEW s \in Sessions, ReaderPublish(s) PROVE View!Produce(s)
  <2>1. UNCHANGED <<exited, bound, got>>
    BY <1>1, PublishHands
  <2>2. outSeq[s] < MaxOut /\ outSeq' = [outSeq EXCEPT ![s] = outSeq[s] + 1]
    BY <1>1, PublishFacts, ConstantsAssumption DEF Ground, Chunks
  <2> QED
    BY <2>1, <2>2 DEF View!Produce
<1>2. ASSUME NEW s \in Sessions, ReaderDeliver(s) PROVE UNCHANGED View!viewVars
  BY <1>2, ReaderDeliverFacts DEF View!viewVars
<1>3. ASSUME NEW s \in Sessions, ReaderNotifies(s) PROVE View!Finish(s)
  BY <1>3, ReaderNotifyFacts, NotifyFacts DEF View!Finish
<1>4. ASSUME NEW a \in Actors, KillNotifies(a)
      PROVE  tgt[a] \in Sessions /\ View!Finish(tgt[a])
  BY <1>4, KillNotifyFacts, NotifyFacts DEF View!Finish
<1>5. ASSUME NEW a \in Actors, KillDelivers(a) PROVE UNCHANGED View!viewVars
  BY <1>5, KillDeliverFacts DEF View!viewVars
<1> QED
  BY <1>1, <1>2, <1>3, <1>4, <1>5 DEF ReaderHands, KillHands, View!ViewNext

LEMMA ViewRefines ==
  ASSUME Informed, Following, NEW v \in Views, ViewMoves(v)
  PROVE  [View!ViewNext]_(View!viewVars)
<1>a. Ground /\ Telling /\ Tells(v)
  BY DEF Informed, Telling
<1>b. ConnType
  BY <1>a DEF Ground, Inv0, TypeOK
<1>1. CASE Attach(v)
  <2>1. View!Bind(v, tgt[Loop]) /\ tgt[Loop] \in Sessions
    BY <1>1, <1>a, AttachFacts DEF View!Bind
  <2> QED
    BY <2>1 DEF View!ViewNext
<1>2. CASE SendReplay(v)
  <2> DEFINE n == Head(replay[v])
  <2>1. /\ UNCHANGED <<outSeq, bound, exited>> /\ replay[v] # <<>> /\ sock[v] = "open"
        /\ got' = [got EXCEPT ![v] = Append(got[v], n)]
    BY <1>2, <1>a, ReplayFacts
  <2>2. bound[v] # None
    BY <1>a, <2>1 DEF Tells
  <2>3. replay[v] \in Seq(Items) /\ n # Exit
    <3>1. n \in Chunks
      BY <1>b, <2>1, HeadTailProperties DEF ConnType
    <3> QED
      BY <1>a, <3>1, ItemKinds, StreamTypes DEF IsChunk
  <2>4. /\ n \in 1 .. MaxOut /\ n <= outSeq[bound[v]] /\ ~View!Told(v)
        /\ got[v] # <<>> => n = got[v][Len(got[v])] + 1
    BY <2>1, <2>2, <2>3, SendsNext
  <2> HIDE DEF n
  <2>5. View!ShowChunk(v, n)
    BY <2>1, <2>2, <2>4 DEF View!ShowChunk
  <2> QED
    BY <2>4, <2>5 DEF View!ViewNext
<1>3. CASE StartPump(v)
  BY <1>3, <1>a, StartPumpFacts DEF View!viewVars
<1>4. CASE PumpSends(v)
  <2> DEFINE i == Head(queue[v])
  <2>1. /\ UNCHANGED <<outSeq, bound, exited>> /\ queue[v] # <<>> /\ replay[v] = <<>>
        /\ got' = [got EXCEPT ![v] = IF sock[v] = "open" THEN Append(got[v], i) ELSE got[v]]
    BY <1>4, <1>a, PumpFacts
  <2>2. bound[v] # None /\ got[v] \in Seq(Items) /\ queue[v] \in Seq(Items)
    BY <1>a, <2>1, StreamTypes DEF Tells
  <2>3. i \in Items
    BY <2>1, <2>2, HeadTailProperties
  <2>4. (HasExit(Tail(queue[v])) \/ i = Exit) <=> HasExit(queue[v])
    BY <2>1, <2>2, ExitFacts
  <2>5. CASE sock[v] # "open"
    <3>1. got' = got
      BY <1>b, <2>1, <2>5 DEF ConnType
    <3> QED
      BY <2>1, <3>1 DEF View!viewVars
  <2>6. CASE sock[v] = "open" /\ i = Exit
    <3>1. exited[bound[v]]
      BY <1>a, <2>4, <2>6 DEF Tells
    <3>2. ~View!Told(v)
      <4>1. ~HasExit(got[v]) /\ DOMAIN got[v] = 1 .. Len(got[v])
        BY <1>a, <2>2, <2>6, LenProperties DEF Tells
      <4> QED
        BY <4>1 DEF HasExit, View!Told
    <3>3. got' = [got EXCEPT ![v] = Append(got[v], Exit)]
      BY <2>1, <2>6
    <3>4. View!ShowExit(v)
      BY <2>1, <2>2, <3>1, <3>2, <3>3 DEF View!ShowExit
    <3> QED
      BY <3>4 DEF View!ViewNext
  <2>7. CASE sock[v] = "open" /\ i # Exit
    <3>1. got[v] \o queue[v] = Coming(v)
      BY <2>1, <2>2, ConcatEmptySeq DEF Coming
    <3>2. /\ i \in 1 .. MaxOut /\ i <= outSeq[bound[v]] /\ ~View!Told(v)
          /\ got[v] # <<>> => i = got[v][Len(got[v])] + 1
      BY <2>1, <2>2, <2>7, <3>1, SendsNext
    <3> HIDE DEF i
    <3>3. View!ShowChunk(v, i)
      BY <2>1, <2>2, <2>7, <3>2 DEF View!ShowChunk
    <3> QED
      BY <3>2, <3>3 DEF View!ViewNext
  <2> QED
    BY <2>5, <2>6, <2>7
<1> QED
  BY <1>1, <1>2, <1>3, <1>4 DEF ViewMoves

\* Every step of threads, tasks, kill paths and connections is, for whoever looks at
\* a terminal, a step of TerminalView or none at all: bound once, shown the output
\* without gaps, told of the end at most once, only of an end that happened, and
\* shown nothing after it.
THEOREM PromiseKept == Spec => KeepsPromise
<1>1. Init => View!ViewInit
  BY DEF Init, View!ViewInit
<1>2. ASSUME Informed, Following, [Next]_vars PROVE [View!ViewNext]_(View!viewVars)
  <2>1. Ground
    BY <1>2 DEF Informed
  <2> QED
    BY <1>2, <2>1, StepKinds, QuietRefines, ThreadRefines, ViewRefines
<1> QED
  BY <1>1, <1>2, FollowingHolds, PTL DEF Spec, KeepsPromise, View!ViewSpec
=============================================================================
