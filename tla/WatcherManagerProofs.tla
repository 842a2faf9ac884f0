------------------------ MODULE WatcherManagerProofs ------------------------
(* Proofs about WatcherManager: for any watches, changes and limit, a        *)
(* callback never sends on a closed channel, no place of the semaphore is    *)
(* lost, and a watch is sent what was announced, in order and without a gap. *)
EXTENDS WatcherManager, FiniteSetTheorems, SequenceTheorems, TLAPS

(* Sets of watches are finite.                                               *)
LEMMA WatchesFinite ==
  ASSUME NEW D \in SUBSET Watches
  PROVE  IsFiniteSet(D) /\ Cardinality(D) \in Nat
  BY WatchesAssumption, FS_Subset, FS_CardinalityType

(* Dropping watchers keeps the semaphore within its limit, and covered.      *)
LEMMA DropKeeps ==
  ASSUME WatcherInv, crashed = "no", NEW D \in SUBSET Watches, Drop(D)
  PROVE  /\ registered' \subseteq registered
         /\ held' \in 0 .. MaxWatchers
         /\ held' <= Cardinality(registered')
         /\ crashed' \in {"no", "released too much"}
<1>1. registered \subseteq Watches /\ held \in 0 .. MaxWatchers
      /\ held <= Cardinality(registered)
  BY DEF WatcherInv, TypeOK, NoPlaceLost
<1>2. registered' = registered \ D
  BY DEF Drop
<1>3. /\ IsFiniteSet(registered) /\ Cardinality(registered) \in Nat
      /\ IsFiniteSet(D) /\ Cardinality(D) \in Nat
      /\ Cardinality(registered') \in Nat
  BY <1>1, <1>2, WatchesFinite
<1>4. Cardinality(registered) - Cardinality(D) <= Cardinality(registered')
  <2>1. Cardinality(registered \cap D) <= Cardinality(D)
        /\ Cardinality(registered \cap D) \in Nat
    <3>1. registered \cap D \in SUBSET D /\ registered \cap D \in SUBSET Watches
      OBVIOUS
    <3> QED BY <3>1, <1>3, FS_Subset, WatchesFinite
  <2>2. Cardinality(registered') = Cardinality(registered) - Cardinality(registered \cap D)
    BY <1>2, <1>3, FS_Difference
  <2> QED BY <1>3, <2>1, <2>2
<1>5. CASE Cardinality(D) <= held
  <2>1. held' = held - Cardinality(D) /\ crashed' = crashed
    BY <1>5 DEF Drop
  <2>2. held' \in 0 .. MaxWatchers
    BY <1>1, <1>3, <1>5, <2>1, LimitAssumption
  <2>3. held' <= Cardinality(registered')
    BY <1>1, <1>3, <1>4, <2>1, LimitAssumption
  <2>4. registered' \subseteq registered
    BY <1>2
  <2>5. crashed' \in {"no", "released too much"}
    BY <2>1
  <2> QED BY <2>2, <2>3, <2>4, <2>5
<1>6. CASE ~ (Cardinality(D) <= held)
  <2>1. held' = 0
    BY <1>6 DEF Drop
  <2>2. crashed' \in {"no", "released too much"}
    BY <1>6 DEF Drop
  <2>3. held' \in 0 .. MaxWatchers
    BY <2>1, LimitAssumption
  <2>4. held' <= Cardinality(registered')
    BY <1>3, <2>1
  <2>5. registered' \subseteq registered
    BY <1>2
  <2> QED BY <2>2, <2>3, <2>4, <2>5
<1> QED BY <1>5, <1>6

(* A step of one watch that leaves the requests and the manager alone.       *)
LEMMA WatchAlone ==
  ASSUME WatcherInv, NEW w \in Watches, NEW s \in Steps, Goto(w, s),
         UNCHANGED <<changeVars, managerVars>>,
         found' \in [Watches -> SUBSET Watches],
         streaming' \in [Watches -> BOOLEAN], done' \in [Watches -> BOOLEAN],
         cancelled' \in [Watches -> BOOLEAN], gone' \in [Watches -> BOOLEAN],
         feed' \in [Watches -> Feeds],
         \A v \in Watches \ {w} : /\ streaming'[v] = streaming[v]
                                  /\ done'[v] = done[v]
                                  /\ feed'[v] = feed[v],
         s \in {"idle", "cleaning", "acquiring"} => w \notin registered,
         s # "stream" => /\ ~ streaming'[w] \/ done'[w]
                         /\ handing[w] # "send",
         s = "send" => feed'[w].todo # <<>>
  PROVE  WatcherInv'
<1>1. /\ step' = [step EXCEPT ![w] = s]
      /\ step' \in [Watches -> Steps]
      /\ step'[w] = s /\ \A v \in Watches \ {w} : step'[v] = step[v]
  BY DEF WatcherInv, TypeOK, Goto
<1>2. TypeOK'
  BY <1>1 DEF WatcherInv, TypeOK, changeVars, managerVars
<1>3. SendersStream'
  BY <1>1 DEF WatcherInv, SendersStream, managerVars
<1>4. SendersHaveWork'
  BY <1>1 DEF WatcherInv, SendersHaveWork, managerVars
<1>5. RegisteredPassedAdd'
  BY <1>1 DEF WatcherInv, TypeOK, RegisteredPassedAdd, managerVars
<1>6. NeverSentOnClosed' /\ NoPlaceLost'
  BY DEF WatcherInv, NeverSentOnClosed, NoPlaceLost, managerVars
<1> QED BY <1>2, <1>3, <1>4, <1>5, <1>6 DEF WatcherInv

(* What one watch has to show changes, typed.                                *)
LEMMA FedTyped ==
  ASSUME WatcherInv, NEW w \in Watches, NEW f \in Feeds, Fed(w, f)
  PROVE  /\ feed' \in [Watches -> Feeds]
         /\ feed'[w] = f
         /\ \A v \in Watches \ {w} : feed'[v] = feed[v]
  BY DEF WatcherInv, TypeOK, Fed

LEMMA FeedOf ==
  ASSUME WatcherInv, NEW w \in Watches
  PROVE  /\ feed[w] \in Feeds
         /\ feed[w].shown \subseteq Changes /\ feed[w].from \in Nat
         /\ feed[w].todo \in Seq(Changes) /\ feed[w].backlog \in Seq(Changes)
         /\ feed[w].received \in Seq(Changes)
  BY DEF WatcherInv, TypeOK, Feeds

(* A list shows some of what is in git, and leaves out the rest.             *)
LEMMA ListFeeds ==
  ASSUME NEW w \in Watches, List(w)
  PROVE  \/ UNCHANGED feed
         \/ \E listed \in SUBSET committed :
               Fed(w, [feed[w] EXCEPT !.shown = listed, !.skipped = committed \ listed])
<1>1. CASE UNCHANGED feed
  BY <1>1
<1>2. ASSUME NEW unready \in SUBSET committed, NEW unread \in SUBSET committed,
             Fed(w, [feed[w] EXCEPT
                       !.shown = (committed \cap Selected[w]) \ (unready \cup unread),
                       !.skipped = committed \ ((committed \cap Selected[w]) \ (unready \cup unread))])
      PROVE  \E listed \in SUBSET committed :
               Fed(w, [feed[w] EXCEPT !.shown = listed, !.skipped = committed \ listed])
  <2>1. (committed \cap Selected[w]) \ (unready \cup unread) \in SUBSET committed
    OBVIOUS
  <2> QED BY <1>2, <2>1
<1> QED BY <1>1, <1>2 DEF List

(* A step of the goroutine of a watch preserves the invariant.               *)
LEMMA WatchStepInv ==
  ASSUME WatcherInv, crashed = "no", NEW w \in Watches, WatchStep(w)
  PROVE  WatcherInv'
<1> USE DEF Steps
<1>0. /\ step[w] # "stream" => /\ ~ streaming[w] \/ done[w]
                               /\ handing[w] # "send"
      /\ registered \subseteq Watches
      /\ step[w] \in {"idle", "cleaning", "acquiring"} => w \notin registered
      /\ step[w] = "send" => feed[w].todo # <<>>
  BY DEF WatcherInv, TypeOK, SendersStream, SendersHaveWork, RegisteredPassedAdd
<1>t. TypeOK
  BY DEF WatcherInv
<1>h. held \in Nat /\ MaxWatchers \in Nat /\ held <= Cardinality(registered)
  <2>1. held \in 0 .. MaxWatchers
    BY <1>t DEF TypeOK
  <2>2. held <= Cardinality(registered)
    BY DEF WatcherInv, NoPlaceLost
  <2> QED BY <2>1, <2>2, LimitAssumption
<1>e. <<>> \in Seq(Changes) /\ Len(<<>>) = 0
  BY EmptySeq
<1>1. CASE AddCleans(w)
  <2>1. {v \in found[w] : IsDone(v)} \in SUBSET Watches
    BY <1>t DEF TypeOK
  <2>2. /\ registered' \subseteq registered
        /\ held' \in 0 .. MaxWatchers
        /\ held' <= Cardinality(registered')
        /\ crashed' \in {"no", "released too much"}
    BY <1>1, <2>1, DropKeeps DEF AddCleans
  <2>3. /\ step[w] = "cleaning"
        /\ step' \in [Watches -> Steps]
        /\ step'[w] = "acquiring" /\ \A v \in Watches \ {w} : step'[v] = step[v]
    BY <1>1, <1>t DEF AddCleans, Goto, TypeOK
  <2>4. TypeOK'
    BY <1>1, <1>t, <2>2, <2>3
    DEF AddCleans, TypeOK, changeVars, clientVars
  <2>5. SendersStream'
    BY <1>0, <1>1, <2>3 DEF AddCleans, WatcherInv, SendersStream
  <2>6. SendersHaveWork'
    BY <1>1, <2>3 DEF AddCleans, WatcherInv, SendersHaveWork
  <2>7. RegisteredPassedAdd'
    BY <1>0, <2>2, <2>3 DEF WatcherInv, RegisteredPassedAdd
  <2> QED BY <2>2, <2>4, <2>5, <2>6, <2>7 DEF WatcherInv, NeverSentOnClosed, NoPlaceLost
<1>2. CASE AddAcquires(w)
  <2>1. CASE held < MaxWatchers /\ registered' = registered \cup {w}
    <3>1. /\ held' = held + 1
          /\ step[w] = "acquiring"
          /\ Fed(w, [feed[w] EXCEPT !.shown = ToSet(taken), !.from = Len(taken)])
          /\ Goto(w, IF w \in Listing THEN "list" ELSE "flush")
      BY <1>2, <2>1, <1>h DEF AddAcquires
    <3>2. /\ ToSet(taken) \subseteq Changes /\ Len(taken) \in Nat
      <4>1. taken \in Seq(Changes)
        BY <1>t DEF TypeOK
      <4>2. Len(taken) \in Nat /\ \A i \in DOMAIN taken : taken[i] \in Changes
        BY <4>1, LenProperties
      <4> QED BY <4>2 DEF ToSet
    <3> DEFINE f == [feed[w] EXCEPT !.shown = ToSet(taken), !.from = Len(taken)]
    <3>f. f \in Feeds /\ f.todo = feed[w].todo
      BY <3>2, FeedOf DEF Feeds
    <3>3. /\ feed' \in [Watches -> Feeds] /\ feed'[w] = f
          /\ \A v \in Watches \ {w} : feed'[v] = feed[v]
      BY <3>1, <3>f, FedTyped
    <3>4. \A v \in Watches : feed'[v].todo = feed[v].todo
      BY <3>f, <3>3
    <3>5. /\ step' \in [Watches -> Steps]
          /\ step'[w] \in {"list", "flush"}
          /\ \A v \in Watches \ {w} : step'[v] = step[v]
      BY <1>t, <3>1 DEF Goto, TypeOK
    <3>6. held' \in 0 .. MaxWatchers
      BY <1>h, <2>1, <3>1
    <3>7. TypeOK'
      BY <1>2, <1>t, <2>1, <3>3, <3>5, <3>6
      DEF AddAcquires, TypeOK, changeVars, clientVars
    <3>8. SendersStream'
      BY <1>0, <1>2, <3>1, <3>5 DEF AddAcquires, WatcherInv, SendersStream
    <3>9. SendersHaveWork'
      BY <1>2, <3>4, <3>5 DEF AddAcquires, WatcherInv, SendersHaveWork
    <3>10. RegisteredPassedAdd'
      BY <1>0, <2>1, <3>5 DEF WatcherInv, RegisteredPassedAdd
    <3>11. NoPlaceLost'
      <4>1. w \notin registered
        BY <1>0, <3>1
      <4>2. Cardinality(registered') = Cardinality(registered) + 1
        BY <1>0, <2>1, <4>1, WatchesFinite, FS_AddElement
      <4>3. held \in Nat /\ Cardinality(registered) \in Nat
            /\ held <= Cardinality(registered)
        BY <1>0, <1>h, WatchesFinite
      <4> QED BY <3>1, <4>2, <4>3 DEF NoPlaceLost
    <3>12. NeverSentOnClosed'
      BY <1>2 DEF AddAcquires, WatcherInv, NeverSentOnClosed
    <3> QED BY <3>7, <3>8, <3>9, <3>10, <3>11, <3>12 DEF WatcherInv
  <2>2. CASE Goto(w, "error") /\ UNCHANGED <<held, registered, feed>>
    <3>1. step[w] = "acquiring" /\ w \notin registered
      BY <1>0, <1>2 DEF AddAcquires
    <3> QED BY <1>0, <1>2, <1>t, <2>2, <3>1, WatchAlone
            DEF AddAcquires, managerVars, clientVars, TypeOK
  <2> QED BY <1>2, <2>1, <2>2 DEF AddAcquires
<1>3. CASE List(w)
  <2>1. CASE crashed' = "nil repository"
    <3>1. UNCHANGED <<step, feed, changeVars, registered, held, event, handing, clientVars,
                      found, streaming, done>>
      BY <1>3, <2>1, <1>t DEF List
    <3> QED BY <2>1, <3>1 DEF WatcherInv, TypeOK, SendersStream, SendersHaveWork,
            RegisteredPassedAdd, NeverSentOnClosed, NoPlaceLost, changeVars, clientVars
  <2>2. CASE UNCHANGED crashed
    <3>1. feed' \in [Watches -> Feeds] /\ \A v \in Watches \ {w} : feed'[v] = feed[v]
      <4>1. CASE UNCHANGED feed
        BY <1>t, <4>1 DEF TypeOK
      <4>2. ASSUME NEW listed \in SUBSET committed,
                   Fed(w, [feed[w] EXCEPT !.shown = listed, !.skipped = committed \ listed])
            PROVE  feed' \in [Watches -> Feeds] /\ \A v \in Watches \ {w} : feed'[v] = feed[v]
        <5>1. [feed[w] EXCEPT !.shown = listed, !.skipped = committed \ listed] \in Feeds
          BY <1>t, FeedOf DEF TypeOK, Feeds
        <5> QED BY <4>2, <5>1, FedTyped
      <4> QED BY <1>3, <4>1, <4>2, ListFeeds
    <3>2. step[w] = "list" /\ (Goto(w, "send list") \/ Goto(w, "set done"))
      BY <1>3, <2>2 DEF List
    <3>3. UNCHANGED <<changeVars, managerVars, clientVars, found, streaming, done>>
      BY <1>3, <2>2 DEF List, managerVars
    <3> QED BY <1>0, <1>t, <3>1, <3>2, <3>3, WatchAlone DEF clientVars, TypeOK
  <2> QED BY <1>3, <2>1, <2>2 DEF List
<1>4. CASE SendList(w)
  BY <1>0, <1>4, <1>t, WatchAlone DEF SendList, clientVars, TypeOK
<1>5. CASE TakeBacklog(w)
  <2>1. /\ feed' \in [Watches -> Feeds] /\ \A v \in Watches \ {w} : feed'[v] = feed[v]
        /\ feed'[w].todo = feed[w].backlog
    <3> DEFINE f == [feed[w] EXCEPT !.todo = feed[w].backlog, !.backlog = <<>>]
    <3>1. f \in Feeds /\ f.todo = feed[w].backlog
      BY <1>e, FeedOf DEF Feeds
    <3>2. Fed(w, f)
      BY <1>5 DEF TakeBacklog
    <3> QED BY <3>1, <3>2, FedTyped
  <2>2. CASE feed[w].backlog = <<>>
    <3>1. Goto(w, "last look")
      BY <1>5, <2>2 DEF TakeBacklog
    <3> QED BY <1>0, <1>5, <1>t, <2>1, <3>1, WatchAlone DEF TakeBacklog, clientVars, TypeOK
  <2>3. CASE feed[w].backlog # <<>>
    <3>1. Goto(w, "send")
      BY <1>5, <2>3 DEF TakeBacklog
    <3> QED BY <1>0, <1>5, <1>t, <2>1, <2>3, <3>1, WatchAlone
            DEF TakeBacklog, clientVars, TypeOK
  <2> QED BY <2>2, <2>3
<1>6. CASE SendBacklog(w)
  <2>1. /\ feed[w].todo \in Seq(Changes) /\ feed[w].todo # <<>>
        /\ feed[w].received \in Seq(Changes)
    BY <1>0, <1>6, FeedOf DEF SendBacklog
  <2>2. /\ Head(feed[w].todo) \in Changes /\ Tail(feed[w].todo) \in Seq(Changes)
        /\ Len(feed[w].todo) \in Nat /\ Len(Tail(feed[w].todo)) = Len(feed[w].todo) - 1
        /\ Append(feed[w].received, Head(feed[w].todo)) \in Seq(Changes)
    BY <2>1, HeadTailProperties, LenProperties, AppendProperties
  <2>3. /\ feed' \in [Watches -> Feeds] /\ \A v \in Watches \ {w} : feed'[v] = feed[v]
        /\ feed'[w].todo = Tail(feed[w].todo)
    <3> DEFINE f == [feed[w] EXCEPT !.received = Append(@, Head(feed[w].todo)),
                                    !.todo = Tail(@)]
    <3>1. f \in Feeds /\ f.todo = Tail(feed[w].todo)
      BY <2>2, FeedOf DEF Feeds
    <3>2. Fed(w, f)
      BY <1>6 DEF SendBacklog
    <3> QED BY <3>1, <3>2, FedTyped
  <2>4. CASE Len(feed[w].todo) = 1
    <3>1. Goto(w, "flush")
      BY <1>6, <2>4 DEF SendBacklog
    <3> QED BY <1>0, <1>6, <1>t, <2>3, <3>1, WatchAlone DEF SendBacklog, clientVars, TypeOK
  <2>5. CASE Len(feed[w].todo) # 1
    <3>1. Goto(w, "send")
      BY <1>6, <2>5 DEF SendBacklog
    <3>2. Tail(feed[w].todo) # <<>>
      <4>1. Len(Tail(feed[w].todo)) # 0
        BY <2>2, <2>5
      <4> QED BY <1>e, <4>1
    <3> QED BY <1>0, <1>6, <1>t, <2>3, <3>1, <3>2, WatchAlone
            DEF SendBacklog, clientVars, TypeOK
  <2> QED BY <2>4, <2>5
<1>7. CASE LastLook(w)
  BY <1>0, <1>7, <1>t, WatchAlone DEF LastLook, clientVars, TypeOK
<1>8. CASE SendLast(w)
  <2>1. feed[w].backlog \in Seq(Changes) /\ feed[w].received \in Seq(Changes)
    BY FeedOf
  <2>2. /\ Tail(feed[w].backlog) \in Seq(Changes)
        /\ Append(feed[w].received, Head(feed[w].backlog)) \in Seq(Changes)
    BY <1>8, <2>1, HeadTailProperties, AppendProperties DEF SendLast
  <2>3. feed' \in [Watches -> Feeds] /\ \A v \in Watches \ {w} : feed'[v] = feed[v]
    <3> DEFINE f == [feed[w] EXCEPT !.received = Append(@, Head(feed[w].backlog)),
                                    !.backlog = Tail(@)]
    <3>1. f \in Feeds
      BY <2>2, FeedOf DEF Feeds
    <3>2. Fed(w, f)
      BY <1>8 DEF SendLast
    <3> QED BY <3>1, <3>2, FedTyped
  <2>4. Goto(w, "final")
    BY <1>8, <1>t DEF SendLast, Goto, TypeOK
  <2> QED BY <1>0, <1>8, <1>t, <2>3, <2>4, WatchAlone DEF SendLast, clientVars, TypeOK
<1>9. CASE Stream(w)
  <2>1. /\ streaming' \in [Watches -> BOOLEAN]
        /\ \A v \in Watches \ {w} : streaming'[v] = streaming[v]
    BY <1>9, <1>t DEF Stream, TypeOK
  <2> QED BY <1>0, <1>9, <1>t, <2>1, WatchAlone DEF Stream, clientVars, TypeOK
<1>10. CASE SetDone(w)
  <2>1. /\ done' \in [Watches -> BOOLEAN] /\ done'[w]
        /\ \A v \in Watches \ {w} : done'[v] = done[v]
        /\ handing[w] # "send"
    BY <1>10, <1>t DEF SetDone, TypeOK, Locked
  <2> QED BY <1>10, <1>t, <2>1, WatchAlone DEF SetDone, clientVars, TypeOK
<1>11. CASE Close(w)
  <2>1. cancelled' \in [Watches -> BOOLEAN]
    BY <1>11, <1>t DEF Close, TypeOK
  <2> QED BY <1>0, <1>11, <1>t, <2>1, WatchAlone DEF Close, TypeOK
<1> QED BY <1>1, <1>2, <1>3, <1>4, <1>5, <1>6, <1>7, <1>8, <1>9, <1>10, <1>11
        DEF WatchStep

(* A call of a watcher preserves the invariant.                              *)
LEMMA HandStepInv ==
  ASSUME WatcherInv, crashed = "no", NEW w \in Watches, HandStep(w)
  PROVE  WatcherInv'
<1>t. TypeOK
  BY DEF WatcherInv
<1>d. {w} \in SUBSET Watches
  OBVIOUS
<1>f. ASSUME event \in Changes, NEW q \in Seq(Changes)
      PROVE  Append(q, event) \in Seq(Changes)
  BY <1>f, AppendProperties
<1>1. ASSUME Drop({w}), Handed(w, "no"), UNCHANGED <<changeVars, event, clientVars, watchVars>>
      PROVE  WatcherInv'
  <2>1. /\ registered' \subseteq registered
        /\ held' \in 0 .. MaxWatchers
        /\ held' <= Cardinality(registered')
        /\ crashed' \in {"no", "released too much"}
    BY <1>1, <1>d, DropKeeps
  <2>2. /\ handing' \in [Watches -> {"no", "check", "call", "send"}]
        /\ handing'[w] = "no" /\ \A v \in Watches \ {w} : handing'[v] = handing[v]
    BY <1>1, <1>t DEF Handed, TypeOK
  <2>3. TypeOK'
    BY <1>1, <1>t, <2>1, <2>2 DEF TypeOK, changeVars, clientVars, watchVars
  <2>4. SendersStream'
    BY <1>1, <2>2 DEF WatcherInv, SendersStream, watchVars
  <2>5. SendersHaveWork'
    BY <1>1, <2>2 DEF WatcherInv, SendersHaveWork, watchVars
  <2>6. RegisteredPassedAdd'
    BY <1>1, <2>1 DEF WatcherInv, RegisteredPassedAdd, watchVars
  <2> QED BY <2>1, <2>3, <2>4, <2>5, <2>6 DEF WatcherInv, NeverSentOnClosed, NoPlaceLost
<1>2. ASSUME NEW h \in {"no", "call", "send"}, Handed(w, h), handing[w] # "no",
             h = "send" => step[w] = "stream",
             feed' \in [Watches -> Feeds],
             \A v \in Watches : feed'[v].todo = feed[v].todo,
             UNCHANGED <<changeVars, registered, held, crashed, event, clientVars,
                         step, found, streaming, done>>
      PROVE  WatcherInv'
  <2>1. /\ handing' \in [Watches -> {"no", "check", "call", "send"}]
        /\ handing'[w] = h /\ \A v \in Watches \ {w} : handing'[v] = handing[v]
    BY <1>2, <1>t DEF Handed, TypeOK
  <2>2. TypeOK'
    BY <1>2, <1>t, <2>1 DEF TypeOK, changeVars, clientVars
  <2>3. SendersStream'
    BY <1>2, <2>1 DEF WatcherInv, SendersStream
  <2>4. SendersHaveWork'
    BY <1>2, <2>1 DEF WatcherInv, SendersHaveWork
  <2> QED BY <1>2, <2>2, <2>3, <2>4
          DEF WatcherInv, RegisteredPassedAdd, NeverSentOnClosed, NoPlaceLost
<1>3. CASE HandCheck(w)
  <2>1. CASE IsDone(w)
    BY <1>1, <1>3, <2>1 DEF HandCheck
  <2>2. CASE ~ IsDone(w)
    <3>1. feed' \in [Watches -> Feeds] /\ feed' = feed
      BY <1>3, <1>t DEF HandCheck, TypeOK, watchVars
    <3> QED BY <1>2, <1>3, <2>2, <3>1 DEF HandCheck, watchVars
  <2> QED BY <2>1, <2>2
<1>4. CASE HandCall(w)
  <2>1. CASE done[w]
    BY <1>1, <1>4, <2>1 DEF HandCall, watchVars
  <2>2. CASE ~ done[w] /\ ~ streaming[w]
    <3> DEFINE f == [feed[w] EXCEPT !.backlog = Append(@, event)]
    <3>1. event \in Changes
      BY <1>4 DEF HandCall, WatcherInv, SendersHaveWork
    <3>2. f \in Feeds /\ f.todo = feed[w].todo
      BY <1>f, <3>1, FeedOf DEF Feeds
    <3>3. Fed(w, f) /\ Handed(w, "no")
      BY <1>4, <2>2 DEF HandCall
    <3>4. /\ feed' \in [Watches -> Feeds]
          /\ \A v \in Watches : feed'[v].todo = feed[v].todo
      BY <3>2, <3>3, FedTyped
    <3> QED BY <1>2, <1>4, <2>2, <3>3, <3>4 DEF HandCall
  <2>3. CASE ~ done[w] /\ streaming[w]
    <3>1. step[w] = "stream"
      BY <2>3 DEF WatcherInv, SendersStream
    <3>2. feed' \in [Watches -> Feeds] /\ feed' = feed
      BY <1>4, <1>t, <2>3 DEF HandCall, TypeOK
    <3> QED BY <1>2, <1>4, <2>3, <3>1, <3>2 DEF HandCall
  <2> QED BY <2>1, <2>2, <2>3
<1>5. CASE HandSend(w)
  <2>1. step[w] # "closed" /\ event \in Changes
    BY <1>5 DEF HandSend, WatcherInv, SendersStream, SendersHaveWork
  <2> DEFINE f == [feed[w] EXCEPT !.received = Append(@, event)]
  <2>2. f \in Feeds /\ f.todo = feed[w].todo
    BY <1>f, <2>1, FeedOf DEF Feeds
  <2>3. Fed(w, f) /\ Handed(w, "no") /\ UNCHANGED crashed
    BY <1>5, <2>1 DEF HandSend
  <2>4. /\ feed' \in [Watches -> Feeds]
        /\ \A v \in Watches : feed'[v].todo = feed[v].todo
    BY <2>2, <2>3, FedTyped
  <2> QED BY <1>2, <1>5, <2>3, <2>4 DEF HandSend
<1> QED BY <1>3, <1>4, <1>5 DEF HandStep

(* The manager's own steps preserve the invariant.                           *)
LEMMA ManagerStepInv ==
  ASSUME WatcherInv, ManagerStep
  PROVE  WatcherInv'
<1>t. TypeOK
  BY DEF WatcherInv
<1>1. ASSUME NEW c \in Changes, Receive(c) PROVE WatcherInv'
  <2>1. /\ notifying' \subseteq committed' /\ committed' \subseteq Changes
        /\ event' \in Changes
        /\ handing' \in [Watches -> {"no", "check"}]
    BY <1>1, <1>t DEF Receive, TypeOK
  <2>2. taken' \in Seq(Changes)
    BY <1>1, <1>t, AppendProperties DEF Receive, TypeOK
  <2>3. TypeOK'
    BY <1>1, <1>t, <2>1, <2>2 DEF Receive, TypeOK, clientVars, watchVars
  <2>4. SendersStream'
    BY <1>1, <2>1 DEF Receive, WatcherInv, SendersStream, watchVars
  <2>5. SendersHaveWork'
    BY <1>1, <2>1 DEF Receive, WatcherInv, SendersHaveWork, watchVars
  <2> QED BY <1>1, <2>3, <2>4, <2>5
          DEF Receive, WatcherInv, RegisteredPassedAdd, NeverSentOnClosed, NoPlaceLost, watchVars
<1>2. CASE Handled
  <2>1. TypeOK'
    BY <1>2, <1>t DEF Handled, TypeOK, changeVars, clientVars, watchVars
  <2>2. SendersHaveWork'
    BY <1>2 DEF Handled, WatcherInv, SendersHaveWork, watchVars
  <2> QED BY <1>2, <2>1, <2>2
          DEF Handled, WatcherInv, SendersStream, RegisteredPassedAdd, NeverSentOnClosed,
              NoPlaceLost, watchVars
<1> QED BY <1>1, <1>2 DEF ManagerStep

(* Requests and clients preserve the invariant.                              *)
LEMMA ClientStepInv ==
  ASSUME WatcherInv, ClientStep
  PROVE  WatcherInv'
<1>t. TypeOK
  BY DEF WatcherInv
<1>1. ASSUME NEW w \in Watches, Watch(w) PROVE WatcherInv'
  <2>1. /\ step[w] = "idle" /\ Goto(w, "cleaning") /\ "cleaning" \in Steps
        /\ UNCHANGED <<changeVars, managerVars>>
    BY <1>1 DEF Watch, Steps
  <2>2. w \notin registered /\ handing[w] # "send" /\ (~ streaming[w] \/ done[w])
    BY <2>1 DEF WatcherInv, SendersStream, RegisteredPassedAdd
  <2>3. found' \in [Watches -> SUBSET Watches]
    BY <1>1, <1>t DEF Watch, TypeOK
  <2> QED BY <1>1, <1>t, <2>1, <2>2, <2>3, WatchAlone DEF Watch, TypeOK, clientVars
<1>2. ASSUME cancelled' \in [Watches -> BOOLEAN], gone' \in [Watches -> BOOLEAN],
             UNCHANGED <<changeVars, managerVars, watchVars>>
      PROVE  WatcherInv'
  <2>1. TypeOK'
    BY <1>2, <1>t DEF TypeOK, changeVars, managerVars, watchVars
  <2> QED BY <1>2, <2>1
          DEF WatcherInv, SendersStream, SendersHaveWork, RegisteredPassedAdd,
              NeverSentOnClosed, NoPlaceLost, managerVars, watchVars
<1>3. ASSUME NEW w \in Watches, Cancel(w) \/ Leave(w) PROVE WatcherInv'
  <2>1. cancelled' \in [Watches -> BOOLEAN] /\ gone' \in [Watches -> BOOLEAN]
    BY <1>3, <1>t DEF Cancel, Leave, TypeOK
  <2> QED BY <1>2, <1>3, <2>1 DEF Cancel, Leave
<1>4. ASSUME NEW c \in Changes, Change(c) PROVE WatcherInv'
  <2>1. TypeOK'
    BY <1>4, <1>t DEF Change, TypeOK, managerVars, clientVars, watchVars
  <2> QED BY <1>4, <2>1
          DEF Change, WatcherInv, SendersStream, SendersHaveWork, RegisteredPassedAdd,
              NeverSentOnClosed, NoPlaceLost, managerVars, watchVars
<1> QED BY <1>1, <1>3, <1>4 DEF ClientStep

(* Nothing has happened yet.                                                 *)
LEMMA WatcherInitInv == Init => WatcherInv
<1> SUFFICES ASSUME Init PROVE WatcherInv
  OBVIOUS
<1>1. NoFeed \in Feeds
  BY EmptySeq DEF NoFeed, Feeds
<1>2. TypeOK
  BY <1>1, EmptySeq, LimitAssumption DEF Init, TypeOK, Steps
<1>3. NoPlaceLost
  BY FS_EmptySet DEF Init, NoPlaceLost
<1> QED BY <1>2, <1>3 DEF Init, WatcherInv, SendersStream, SendersHaveWork,
           RegisteredPassedAdd, NeverSentOnClosed

LEMMA WatcherNextInv == WatcherInv /\ [Next]_vars => WatcherInv'
<1> SUFFICES ASSUME WatcherInv, [Next]_vars PROVE WatcherInv'
  OBVIOUS
<1>1. ASSUME NEW w \in Watches, crashed = "no", WatchStep(w) \/ HandStep(w)
      PROVE  WatcherInv'
  BY <1>1, WatchStepInv, HandStepInv
<1>2. CASE UNCHANGED vars
  BY <1>2 DEF vars, changeVars, managerVars, clientVars, watchVars, WatcherInv, TypeOK,
              SendersStream, SendersHaveWork, RegisteredPassedAdd, NeverSentOnClosed,
              NoPlaceLost
<1> QED BY <1>1, <1>2, ManagerStepInv, ClientStepInv DEF Next

(* The inductive invariant holds, for any watches, changes and limit.        *)
THEOREM WatcherInvariant == Spec => []WatcherInv
  BY WatcherInitInv, WatcherNextInv, PTL DEF Spec

(* The types.                                                                *)
THEOREM WatcherTyped == Spec => []TypeOK
  BY WatcherInvariant, PTL DEF WatcherInv

(* Nothing is sent on a result channel that is closed: only a watch that is  *)
(* streaming has a callback that sends, and it is marked done, under the     *)
(* lock the callback needs, before it closes its channel (watcher.go).       *)
THEOREM WatcherNeverSendsOnClosed == Spec => []NeverSentOnClosed
  BY WatcherInvariant, PTL DEF WatcherInv

(* No place of the semaphore is lost, however watches end and however often  *)
(* one is dropped (manager.go).                                              *)
THEOREM WatcherNoPlaceLost == Spec => []NoPlaceLost
  BY WatcherInvariant, PTL DEF WatcherInv

-----------------------------------------------------------------------------
(* What is sent to a watch                                                   *)

(* The first change of a queue that is sent is passed on as before.          *)
LEMMA PassedOnSend ==
  ASSUME NEW r \in Seq(Changes), NEW q \in Seq(Changes), q # <<>>
  PROVE  Append(r, Head(q)) \o Tail(q) = r \o q
<1>1. /\ Head(q) \in Changes /\ Tail(q) \in Seq(Changes)
      /\ Append(r, Head(q)) \in Seq(Changes)
  BY HeadTailProperties, AppendProperties
<1>2. /\ (Append(r, Head(q)) \o Tail(q)) \in Seq(Changes)
      /\ r \o q \in Seq(Changes)
  BY <1>1, ConcatProperties
<1>3. /\ Len(r) \in Nat /\ Len(q) \in Nat /\ Len(Tail(q)) = Len(q) - 1
      /\ Len(Append(r, Head(q))) = Len(r) + 1
      /\ q[1] = Head(q)
  BY <1>1, LenProperties, HeadTailProperties, AppendProperties
<1>4. /\ Len(Append(r, Head(q)) \o Tail(q)) = Len(r) + Len(q)
      /\ Len(r \o q) = Len(r) + Len(q)
  BY <1>1, <1>3, ConcatProperties
<1>5. ASSUME NEW i \in 1 .. Len(r) + Len(q)
      PROVE  (Append(r, Head(q)) \o Tail(q))[i] = (r \o q)[i]
  <2>1. (r \o q)[i] = IF i <= Len(r) THEN r[i] ELSE q[i - Len(r)]
    BY <1>3, ConcatProperties
  <2>2. (Append(r, Head(q)) \o Tail(q))[i]
          = IF i <= Len(r) + 1 THEN Append(r, Head(q))[i] ELSE Tail(q)[i - (Len(r) + 1)]
    BY <1>1, <1>3, ConcatProperties
  <2>3. CASE i <= Len(r)
    BY <1>1, <1>3, <2>1, <2>2, <2>3, AppendProperties
  <2>4. CASE i = Len(r) + 1
    BY <1>1, <1>3, <2>1, <2>2, <2>4, AppendProperties
  <2>5. CASE i > Len(r) + 1
    <3>1. i - (Len(r) + 1) \in 1 .. Len(Tail(q))
      BY <1>3, <2>5
    <3>2. Tail(q)[i - (Len(r) + 1)] = q[i - (Len(r) + 1) + 1]
      BY <3>1, HeadTailProperties
    <3>3. i - (Len(r) + 1) + 1 = i - Len(r)
      BY <1>3
    <3> QED BY <1>3, <2>1, <2>2, <2>5, <3>2, <3>3
  <2> QED BY <1>3, <2>3, <2>4, <2>5
<1> QED BY <1>2, <1>4, <1>5, SeqEqual

(* A change that comes to a queue comes after what was passed on.            *)
LEMMA AppendOnPassed ==
  ASSUME NEW r \in Seq(Changes), NEW q \in Seq(Changes), NEW c \in Changes
  PROVE  r \o Append(q, c) = Append(r \o q, c)
<1>1. <<c>> \in Seq(Changes) /\ r \o q \in Seq(Changes)
  BY ConcatProperties
<1> QED BY <1>1, AppendIsConcat, ConcatAssociative

(* The parts of what was passed on.                                          *)
LEMMA PassedParts ==
  ASSUME WatcherInv, NEW w \in Watches
  PROVE  /\ Passed(w) \in Seq(Changes) /\ Len(Passed(w)) \in Nat
         /\ feed[w].received \o feed[w].todo \in Seq(Changes)
<1>1. feed[w].received \o feed[w].todo \in Seq(Changes)
  BY FeedOf, ConcatProperties
<1>2. Passed(w) \in Seq(Changes)
  BY <1>1, FeedOf, ConcatProperties DEF Passed
<1> QED BY <1>1, <1>2, LenProperties

(* A change that comes last follows what was passed on.                      *)
LEMMA FollowedLast ==
  ASSUME NEW w \in Watches, WatcherInv, Followed(w), handing[w] # "no",
         feed[w].from <= Len(taken), taken # <<>> /\ taken[Len(taken)] = event,
         UNCHANGED taken, handing'[w] = "no", feed'[w].from = feed[w].from,
         Passed(w)' = Append(Passed(w), event)
  PROVE  Followed(w)'
<1>1. /\ Passed(w) \in Seq(Changes) /\ Len(Passed(w)) \in Nat /\ event \in Changes
      /\ Len(taken) \in Nat /\ feed[w].from \in Nat
  BY PassedParts, FeedOf, LenProperties DEF WatcherInv, TypeOK, SendersHaveWork
<1>2. /\ Len(Append(Passed(w), event)) = Len(Passed(w)) + 1
      /\ \A i \in 1 .. Len(Passed(w)) : Append(Passed(w), event)[i] = Passed(w)[i]
      /\ Append(Passed(w), event)[Len(Passed(w)) + 1] = event
  BY <1>1, AppendProperties
<1>3. feed[w].from + Len(Passed(w)) = Len(taken) - 1
      /\ \A i \in 1 .. Len(Passed(w)) : Passed(w)[i] = taken[feed[w].from + i]
  BY DEF Followed
<1>4. feed[w].from + (Len(Passed(w)) + 1) = Len(taken)
  BY <1>1, <1>3
<1>5. ASSUME NEW i \in 1 .. Len(Passed(w)) + 1
      PROVE  Append(Passed(w), event)[i] = taken[feed[w].from + i]
  <2>1. CASE i = Len(Passed(w)) + 1
    BY <1>2, <1>4, <2>1
  <2>2. CASE i \in 1 .. Len(Passed(w))
    BY <1>2, <1>3, <2>2
  <2> QED BY <1>1, <2>1, <2>2
<1> QED BY <1>2, <1>4, <1>5 DEF Followed

(* What is kept of a watch that a step does not concern.                     *)
LEMMA KeptAside ==
  ASSUME NEW v \in Watches, Kept(v), UNCHANGED taken,
         step'[v] = step[v], feed'[v] = feed[v], streaming'[v] = streaming[v],
         done'[v] = done[v], handing'[v] = handing[v],
         cancelled[v] => cancelled'[v],
         v \in registered' => v \in registered,
         v \in registered => v \in registered' \/ cancelled'[v] \/ done[v]
  PROVE  Kept(v)'
  BY DEF Kept, Followed, Passed

(* A step that concerns one watch.                                           *)
LEMMA DeliveryStep ==
  ASSUME DeliveryInv, WatcherInv', NEW w \in Watches, Kept(w)',
         UNCHANGED <<changeVars, event>>,
         registered \cup registered' \subseteq Watches,
         \A v \in Watches \ {w} :
            /\ step'[v] = step[v] /\ feed'[v] = feed[v] /\ streaming'[v] = streaming[v]
            /\ done'[v] = done[v] /\ handing'[v] = handing[v]
            /\ cancelled[v] => cancelled'[v]
            /\ v \in registered' => v \in registered
            /\ v \in registered => v \in registered' \/ cancelled'[v] \/ done[v]
  PROVE  DeliveryInv'
<1>1. \A v \in Watches : Kept(v)'
  BY KeptAside DEF DeliveryInv, changeVars
<1> QED BY <1>1 DEF DeliveryInv, changeVars

(* A watch goes on, and what was passed on stays.                            *)
LEMMA KeptMove ==
  ASSUME NEW w \in Watches, Kept(w), NEW s, step'[w] = s,
         UNCHANGED taken, handing'[w] = handing[w],
         feed'[w].from = feed[w].from, Passed(w)' = Passed(w),
         w \in registered' => w \in registered,
         s \in {"idle", "cleaning", "acquiring"} =>
           step[w] \in {"idle", "cleaning", "acquiring"},
         s # "send" => feed'[w].todo = <<>>,
         s = "stream" => streaming'[w] /\ feed'[w].backlog = <<>>,
         done'[w] => s \in {"error", "closed"},
         \/ s \in {"idle", "cleaning", "acquiring", "error", "closed"}
         \/ cancelled'[w] \/ w \in registered',
         \A i \in 1 .. feed[w].from : taken[i] \in feed'[w].shown \cup feed'[w].skipped
  PROVE  Kept(w)'
<1>1. (w \in registered => Followed(w))'
  BY DEF Kept, Followed
<1>2. /\ step'[w] \in {"idle", "cleaning", "acquiring"} =>
           handing'[w] = "no" /\ Passed(w)' = <<>>
      /\ feed'[w].from <= Len(taken')
  BY DEF Kept
<1> QED BY <1>1, <1>2 DEF Kept

(* What the invariant says of one watch.                                     *)
LEMMA KeptOf ==
  ASSUME DeliveryInv, NEW w \in Watches
  PROVE  /\ WatcherInv /\ TypeOK /\ Kept(w) /\ feed[w] \in Feeds
         /\ step[w] \in {"idle", "cleaning", "acquiring"} =>
              handing[w] = "no" /\ Passed(w) = <<>> /\ w \notin registered
         /\ step[w] # "send" => feed[w].todo = <<>>
         /\ step[w] = "stream" => streaming[w] /\ feed[w].backlog = <<>>
         /\ done[w] => step[w] \in {"error", "closed"}
         /\ \/ step[w] \in {"idle", "cleaning", "acquiring", "error", "closed"}
            \/ cancelled[w] \/ w \in registered
         /\ feed[w].from \in Nat /\ feed[w].from <= Len(taken)
         /\ \A i \in 1 .. feed[w].from : taken[i] \in feed[w].shown \cup feed[w].skipped
  BY FeedOf DEF DeliveryInv, WatcherInv, RegisteredPassedAdd, Kept

(* The goroutine of a watch, but for its registration.                       *)
LEMMA WatchStepKept ==
  ASSUME DeliveryInv, NEW w \in Watches, WatchStep(w), ~ AddCleans(w), ~ AddAcquires(w)
  PROVE  Kept(w)' /\ UNCHANGED <<taken, event, registered, handing>>
<1>t. /\ step \in [Watches -> Steps] /\ feed \in [Watches -> Feeds]
      /\ streaming \in [Watches -> BOOLEAN] /\ done \in [Watches -> BOOLEAN]
      /\ cancelled \in [Watches -> BOOLEAN]
  BY KeptOf DEF TypeOK
<1>g. ASSUME NEW s, Goto(w, s) PROVE step'[w] = s
  BY <1>g, <1>t DEF Goto
<1>1. CASE List(w)
  <2>1. /\ step[w] = "list"
        /\ UNCHANGED <<changeVars, registered, event, handing, clientVars, streaming, done>>
        /\ step'[w] \in {"list", "send list", "set done"}
    BY <1>1, <1>g DEF List
  <2>2. /\ feed'[w].from = feed[w].from /\ feed'[w].todo = feed[w].todo
        /\ feed'[w].backlog = feed[w].backlog /\ feed'[w].received = feed[w].received
        /\ \/ feed' = feed
           \/ committed \subseteq feed'[w].shown \cup feed'[w].skipped
    <3>1. CASE UNCHANGED feed
      BY <3>1
    <3>2. ASSUME NEW listed \in SUBSET committed,
                 Fed(w, [feed[w] EXCEPT !.shown = listed, !.skipped = committed \ listed])
          PROVE  /\ feed'[w].from = feed[w].from /\ feed'[w].todo = feed[w].todo
                 /\ feed'[w].backlog = feed[w].backlog
                 /\ feed'[w].received = feed[w].received
                 /\ committed \subseteq feed'[w].shown \cup feed'[w].skipped
      BY <1>t, <3>2 DEF Fed, Feeds
    <3> QED BY <1>1, <3>1, <3>2, ListFeeds
  <2>3. \A i \in 1 .. feed[w].from : taken[i] \in feed'[w].shown \cup feed'[w].skipped
    <3>1. \A i \in 1 .. feed[w].from : taken[i] \in committed
      <4>1. /\ feed[w].from \in Nat /\ feed[w].from <= Len(taken) /\ Len(taken) \in Nat
        BY KeptOf, LenProperties DEF TypeOK
      <4> QED BY <4>1 DEF DeliveryInv
    <3> QED BY <2>2, <3>1, KeptOf
  <2>4. Passed(w)' = Passed(w)
    BY <2>2 DEF Passed
  <2>5. handing'[w] = handing[w] /\ registered' = registered /\ ~ done'[w]
        /\ (cancelled'[w] \/ w \in registered') /\ feed'[w].todo = <<>>
    BY <2>1, <2>2, KeptOf DEF clientVars
  <2>6. Kept(w)'
    BY <2>1, <2>2, <2>3, <2>4, <2>5, KeptOf, KeptMove DEF changeVars
  <2> QED BY <2>1, <2>6 DEF changeVars
<1>2. CASE SendList(w) \/ LastLook(w) \/ Stream(w) \/ SetDone(w) \/ Close(w)
  <2>1. /\ UNCHANGED <<changeVars, managerVars, feed>>
        /\ cancelled[w] => cancelled'[w]
        /\ \/ step[w] = "send list" /\ step'[w] = "flush" /\ UNCHANGED <<streaming, done>>
           \/ step[w] = "last look" /\ step'[w] = "final" /\ UNCHANGED <<streaming, done>>
           \/ /\ step[w] = "final" /\ step'[w] = "stream" /\ streaming'[w]
              /\ feed[w].backlog = <<>> /\ UNCHANGED done
           \/ step[w] \in {"stream", "set done"} /\ step'[w] = "error"
           \/ step[w] = "error" /\ step'[w] = "closed" /\ UNCHANGED done
    BY <1>2, <1>g, <1>t DEF SendList, LastLook, Stream, SetDone, Close, clientVars
  <2>2. Passed(w)' = Passed(w)
    BY <2>1 DEF Passed
  <2>3. Kept(w)'
    BY <2>1, <2>2, KeptOf, KeptMove DEF changeVars, managerVars
  <2> QED BY <2>1, <2>3 DEF changeVars, managerVars
<1>3. CASE TakeBacklog(w)
  <2>1. /\ step[w] = "flush" /\ UNCHANGED <<changeVars, managerVars, clientVars, done>>
        /\ feed'[w].from = feed[w].from /\ feed'[w].todo = feed[w].backlog
        /\ feed'[w].backlog = <<>> /\ feed'[w].received = feed[w].received
        /\ feed'[w].shown = feed[w].shown /\ feed'[w].skipped = feed[w].skipped
        /\ step'[w] = IF feed[w].backlog = <<>> THEN "last look" ELSE "send"
    BY <1>3, <1>g, <1>t DEF TakeBacklog, Fed, Feeds
  <2>2. Passed(w)' = Passed(w)
    <3>1. /\ feed[w].todo = <<>>
          /\ feed[w].received \in Seq(Changes) /\ feed[w].backlog \in Seq(Changes)
      BY <2>1, KeptOf, FeedOf
    <3>2. /\ feed[w].received \o <<>> = feed[w].received
          /\ feed[w].received \o feed[w].backlog \in Seq(Changes)
      BY <3>1, ConcatEmptySeq, ConcatProperties
    <3>3. (feed[w].received \o feed[w].backlog) \o <<>> = feed[w].received \o feed[w].backlog
      BY <3>2, ConcatEmptySeq
    <3> QED BY <2>1, <3>1, <3>2, <3>3 DEF Passed
  <2>3. Kept(w)'
    BY <2>1, <2>2, KeptOf, KeptMove DEF changeVars, managerVars, clientVars
  <2> QED BY <2>1, <2>3 DEF changeVars, managerVars
<1>4. CASE SendBacklog(w)
  <2>1. /\ step[w] = "send" /\ UNCHANGED <<changeVars, managerVars, clientVars, streaming, done>>
        /\ feed'[w].from = feed[w].from /\ feed'[w].todo = Tail(feed[w].todo)
        /\ feed'[w].backlog = feed[w].backlog
        /\ feed'[w].received = Append(feed[w].received, Head(feed[w].todo))
        /\ feed'[w].shown = feed[w].shown /\ feed'[w].skipped = feed[w].skipped
        /\ step'[w] = IF Len(feed[w].todo) = 1 THEN "flush" ELSE "send"
    BY <1>4, <1>g, <1>t DEF SendBacklog, Fed, Feeds
  <2>2. /\ feed[w].todo \in Seq(Changes) /\ feed[w].received \in Seq(Changes)
        /\ feed[w].todo # <<>>
    BY <2>1, KeptOf, FeedOf DEF WatcherInv, SendersHaveWork
  <2>3. Passed(w)' = Passed(w)
    BY <2>1, <2>2, PassedOnSend DEF Passed
  <2>4. step'[w] # "send" => feed'[w].todo = <<>>
    <3>1. Len(feed[w].todo) = 1 => Len(Tail(feed[w].todo)) = 0
      BY <2>2, HeadTailProperties, LenProperties
    <3>2. Tail(feed[w].todo) \in Seq(Changes)
      BY <2>2, HeadTailProperties
    <3>3. Len(feed[w].todo) = 1 => Tail(feed[w].todo) = <<>>
      BY <3>1, <3>2, EmptySeq
    <3> QED BY <2>1, <3>3
  <2>5. Kept(w)'
    BY <2>1, <2>3, <2>4, KeptOf, KeptMove DEF changeVars, managerVars, clientVars
  <2> QED BY <2>1, <2>5 DEF changeVars, managerVars
<1>5. CASE SendLast(w)
  <2>1. /\ step[w] = "final" /\ step'[w] = "final"
        /\ UNCHANGED <<changeVars, managerVars, clientVars, streaming, done>>
        /\ feed'[w].from = feed[w].from /\ feed'[w].backlog = Tail(feed[w].backlog)
        /\ feed'[w].todo = feed[w].todo /\ feed[w].backlog # <<>>
        /\ feed'[w].received = Append(feed[w].received, Head(feed[w].backlog))
        /\ feed'[w].shown = feed[w].shown /\ feed'[w].skipped = feed[w].skipped
    BY <1>5, <1>t DEF SendLast, Fed, Feeds
  <2>2. /\ feed[w].todo = <<>>
        /\ feed[w].received \in Seq(Changes) /\ feed[w].backlog \in Seq(Changes)
    BY <2>1, KeptOf, FeedOf
  <2>3. /\ feed[w].received \o <<>> = feed[w].received
        /\ feed'[w].received \o <<>> = feed'[w].received
    BY <2>1, <2>2, ConcatEmptySeq, HeadTailProperties, AppendProperties
  <2>4. Passed(w)' = Passed(w)
    <3>1. feed'[w].received \o feed'[w].todo = feed'[w].received
      BY <2>1, <2>2, <2>3
    <3>2. feed[w].received \o feed[w].todo = feed[w].received
      BY <2>2, <2>3
    <3>3. feed'[w].received \o feed'[w].backlog = feed[w].received \o feed[w].backlog
      BY <2>1, <2>2, PassedOnSend
    <3> QED BY <3>1, <3>2, <3>3 DEF Passed
  <2>5. Kept(w)'
    BY <2>1, <2>2, <2>4, KeptOf, KeptMove DEF changeVars, managerVars, clientVars
  <2> QED BY <2>1, <2>5 DEF changeVars, managerVars
<1> QED BY <1>1, <1>2, <1>3, <1>4, <1>5 DEF WatchStep

(* A watch that registers begins with what is taken from now on.             *)
LEMMA EnteringKept ==
  ASSUME DeliveryInv, NEW w \in Watches, AddCleans(w) \/ AddAcquires(w)
  PROVE  Kept(w)'
<1>t. /\ step \in [Watches -> Steps] /\ feed \in [Watches -> Feeds]
      /\ registered \subseteq Watches /\ taken \in Seq(Changes)
      /\ Len(taken) \in Nat /\ DOMAIN taken = 1 .. Len(taken)
  BY KeptOf, LenProperties DEF TypeOK
<1>1. CASE AddCleans(w)
  <2>1. /\ step[w] = "cleaning" /\ step'[w] = "acquiring"
        /\ registered' \subseteq registered
        /\ UNCHANGED <<taken, handing, feed, done>>
    BY <1>1, <1>t DEF AddCleans, Goto, Drop, changeVars
  <2>2. Passed(w)' = Passed(w) /\ w \notin registered'
    BY <2>1, KeptOf DEF Passed
  <2> QED BY <2>1, <2>2, KeptOf, KeptMove
<1>2. CASE AddAcquires(w)
  <2>0. step[w] = "acquiring" /\ UNCHANGED <<taken, handing, done>> /\ w \notin registered
    BY <1>2, KeptOf DEF AddAcquires, changeVars
  <2>1. CASE Goto(w, "error") /\ UNCHANGED <<held, registered, feed>>
    <3>1. step'[w] = "error" /\ UNCHANGED <<taken, handing, done, feed, registered>>
      BY <1>t, <2>0, <2>1 DEF Goto
    <3>2. /\ Passed(w)' = <<>> /\ ~ done'[w] /\ feed'[w].todo = <<>>
          /\ handing'[w] = "no" /\ feed'[w].from <= Len(taken')
      BY <2>0, <3>1, KeptOf DEF Passed
    <3>3. w \notin registered'
      BY <2>0, <3>1
    <3>4. \A i \in 1 .. feed'[w].from : taken'[i] \in feed'[w].shown \cup feed'[w].skipped
      BY <2>0, <3>1, KeptOf DEF Kept
    <3> QED BY <3>1, <3>2, <3>3, <3>4 DEF Kept
  <2>2. CASE Goto(w, IF w \in Listing THEN "list" ELSE "flush")
             /\ Fed(w, [feed[w] EXCEPT !.shown = ToSet(taken), !.from = Len(taken)])
             /\ registered' = registered \cup {w}
    <3>1. /\ step'[w] \in {"list", "flush"}
          /\ feed'[w].from = Len(taken) /\ feed'[w].todo = feed[w].todo
          /\ feed'[w].backlog = feed[w].backlog
          /\ feed'[w].received = feed[w].received /\ feed'[w].shown = ToSet(taken)
      BY <1>t, <2>2 DEF Goto, Fed, Feeds
    <3>2. /\ Passed(w)' = <<>> /\ ~ done'[w] /\ feed'[w].todo = <<>>
          /\ handing'[w] = "no" /\ w \in registered'
      BY <2>0, <2>2, <3>1, KeptOf DEF Passed
    <3>3. \A i \in 1 .. feed'[w].from : taken'[i] \in feed'[w].shown \cup feed'[w].skipped
      BY <1>t, <2>0, <3>1 DEF ToSet
    <3>4. Followed(w)'
      BY <1>t, <2>0, <3>1, <3>2, EmptySeq DEF Followed
    <3>5. feed'[w].from <= Len(taken')
      BY <1>t, <2>0, <3>1
    <3> QED BY <3>1, <3>2, <3>3, <3>4, <3>5 DEF Kept
  <2> QED BY <1>2, <2>1, <2>2 DEF AddAcquires
<1> QED BY <1>1, <1>2

(* The goroutine of a watch preserves the invariant.                         *)
LEMMA WatchStepDelivers ==
  ASSUME DeliveryInv, crashed = "no", NEW w \in Watches, WatchStep(w)
  PROVE  DeliveryInv'
<1>1. WatcherInv' /\ TypeOK /\ TypeOK'
  BY WatchStepInv DEF DeliveryInv, WatcherInv
<1>2. Kept(w)'
  BY WatchStepKept, EnteringKept
<1>3. UNCHANGED <<changeVars, event>>
  BY DEF WatchStep, AddCleans, AddAcquires, List, SendList, TakeBacklog, SendBacklog,
         LastLook, SendLast, Stream, SetDone, Close, managerVars
<1>4. ASSUME NEW v \in Watches \ {w}
      PROVE  /\ step'[v] = step[v] /\ feed'[v] = feed[v] /\ streaming'[v] = streaming[v]
             /\ done'[v] = done[v] /\ handing'[v] = handing[v]
             /\ cancelled[v] => cancelled'[v]
             /\ v \in registered' => v \in registered
             /\ v \in registered => v \in registered' \/ cancelled'[v] \/ done[v]
  <2>1. step'[v] = step[v] /\ feed'[v] = feed[v]
    BY <1>1 DEF WatchStep, AddCleans, AddAcquires, List, SendList, TakeBacklog, SendBacklog,
           LastLook, SendLast, Stream, SetDone, Close, Goto, Fed, TypeOK
  <2>2. streaming'[v] = streaming[v] /\ done'[v] = done[v] /\ handing'[v] = handing[v]
        /\ (cancelled[v] => cancelled'[v])
    <3>1. CASE AddCleans(w) \/ AddAcquires(w) \/ List(w) \/ SendList(w) \/ TakeBacklog(w)
      BY <3>1 DEF AddCleans, AddAcquires, List, SendList, TakeBacklog, managerVars, clientVars
    <3>2. CASE SendBacklog(w) \/ LastLook(w) \/ SendLast(w)
      BY <3>2 DEF SendBacklog, LastLook, SendLast, managerVars, clientVars
    <3>3. CASE Stream(w) \/ SetDone(w) \/ Close(w)
      BY <1>1, <3>3 DEF Stream, SetDone, Close, managerVars, clientVars, TypeOK
    <3>4. \/ AddCleans(w) \/ AddAcquires(w) \/ List(w) \/ SendList(w) \/ TakeBacklog(w)
          \/ SendBacklog(w) \/ LastLook(w) \/ SendLast(w)
          \/ Stream(w) \/ SetDone(w) \/ Close(w)
      BY DEF WatchStep
    <3> QED BY <3>1, <3>2, <3>3, <3>4
  <2>3. CASE AddCleans(w)
    BY <2>1, <2>2, <2>3 DEF AddCleans, Drop, IsDone, clientVars
  <2>4. CASE ~ AddCleans(w)
    <3>1. registered' \in {registered, registered \cup {w}}
      BY <2>4 DEF WatchStep, AddAcquires, List, SendList, TakeBacklog, SendBacklog,
             LastLook, SendLast, Stream, SetDone, Close, managerVars
    <3> QED BY <2>1, <2>2, <3>1
  <2> QED BY <2>3, <2>4
<1>5. registered \cup registered' \subseteq Watches
  BY <1>1 DEF TypeOK
<1> QED BY <1>1, <1>2, <1>3, <1>4, <1>5, DeliveryStep

(* The calls of a watcher preserve the invariant.                            *)
LEMMA HandStepDelivers ==
  ASSUME DeliveryInv, crashed = "no", NEW w \in Watches, HandStep(w)
  PROVE  DeliveryInv'
<1>1. WatcherInv' /\ TypeOK /\ TypeOK' /\ WatcherInv
  BY HandStepInv DEF DeliveryInv, WatcherInv
<1>2. UNCHANGED <<changeVars, event, clientVars, step, found, streaming, done>>
  BY DEF HandStep, HandCheck, HandCall, HandSend, watchVars
<1>3. handing[w] # "no" /\ event \in Changes
  BY <1>1 DEF HandStep, HandCheck, HandCall, HandSend, WatcherInv, SendersHaveWork
<1>4. step[w] \notin {"idle", "cleaning", "acquiring"}
  BY <1>3, KeptOf
<1>5. taken # <<>> /\ taken[Len(taken)] = event
  BY <1>3, ChangesAssumption DEF DeliveryInv
<1>h. ASSUME NEW h, Handed(w, h)
      PROVE  handing'[w] = h /\ \A v \in Watches \ {w} : handing'[v] = handing[v]
  BY <1>h, <1>1 DEF Handed, TypeOK
<1>f. /\ feed \in [Watches -> Feeds] /\ feed[w].received \in Seq(Changes)
      /\ feed[w].backlog \in Seq(Changes) /\ feed[w].todo \in Seq(Changes)
  BY <1>1, FeedOf DEF TypeOK
<1>6. ASSUME Drop({w}), Handed(w, "no"), UNCHANGED feed, IsDone(w) \/ done[w]
      PROVE  DeliveryInv'
  <2>1. registered' = registered \ {w}
    BY <1>6 DEF Drop
  <2>2. Kept(w)'
    <3>1. Passed(w)' = Passed(w)
      BY <1>6 DEF Passed
    <3> QED BY <1>2, <1>4, <1>6, <2>1, <3>1, KeptOf DEF Kept, IsDone, changeVars, clientVars
  <2> QED BY <1>1, <1>2, <1>6, <1>h, <2>1, <2>2, DeliveryStep DEF TypeOK, clientVars
<1>7. ASSUME NEW h, h # "no", Handed(w, h), UNCHANGED <<feed, registered>>
      PROVE  DeliveryInv'
  <2>1. handing'[w] # "no" /\ Passed(w)' = Passed(w)
    BY <1>7, <1>h DEF Passed
  <2>2. (w \in registered => Followed(w))'
    BY <1>2, <1>3, <1>7, <2>1 DEF DeliveryInv, Kept, Followed, changeVars
  <2>3. Kept(w)'
    BY <1>2, <1>4, <1>7, <2>2, KeptOf DEF Kept, changeVars, clientVars
  <2> QED BY <1>1, <1>2, <1>7, <1>h, <2>3, DeliveryStep DEF TypeOK, clientVars
<1>8. ASSUME NEW f, Fed(w, f), f.from = feed[w].from, f.shown = feed[w].shown, f.skipped = feed[w].skipped,
             f.todo = feed[w].todo,
             step[w] = "stream" => f.backlog = <<>>,
             (f.received \o f.todo) \o f.backlog = Append(Passed(w), event),
             Handed(w, "no"), UNCHANGED registered
      PROVE  DeliveryInv'
  <2>1. /\ feed'[w] = f /\ handing'[w] = "no"
        /\ \A v \in Watches \ {w} : feed'[v] = feed[v] /\ handing'[v] = handing[v]
    BY <1>8, <1>f, <1>h DEF Fed
  <2>2. Passed(w)' = Append(Passed(w), event)
    BY <1>8, <2>1 DEF Passed
  <2>3. (w \in registered => Followed(w))'
    <3>1. SUFFICES ASSUME w \in registered PROVE Followed(w)'
      BY <1>8
    <3>2. Followed(w) /\ feed[w].from <= Len(taken)
      BY <3>1, KeptOf DEF Kept
    <3> QED BY <1>1, <1>2, <1>3, <1>5, <1>8, <2>1, <2>2, <3>2, FollowedLast DEF changeVars
  <2>4. Kept(w)'
    BY <1>2, <1>4, <1>8, <2>1, <2>3, KeptOf DEF Kept, changeVars, clientVars
  <2> QED BY <1>1, <1>2, <1>8, <2>1, <2>4, DeliveryStep DEF TypeOK, clientVars
<1>9. CASE HandCheck(w)
  BY <1>6, <1>7, <1>9 DEF HandCheck, watchVars
<1>10. CASE HandCall(w)
  <2>1. CASE done[w]
    BY <1>6, <1>10, <2>1 DEF HandCall
  <2>2. CASE ~ done[w] /\ ~ streaming[w]
    <3> DEFINE f == [feed[w] EXCEPT !.backlog = Append(@, event)]
    <3>1. /\ f.from = feed[w].from /\ f.shown = feed[w].shown /\ f.todo = feed[w].todo
        /\ f.skipped = feed[w].skipped
          /\ f.received = feed[w].received /\ f.backlog = Append(feed[w].backlog, event)
      BY <1>f DEF Feeds
    <3>2. step[w] # "stream"
      BY <2>2, KeptOf
    <3>3. (f.received \o f.todo) \o f.backlog = Append(Passed(w), event)
      <4>1. feed[w].received \o feed[w].todo \in Seq(Changes)
        BY <1>1, PassedParts
      <4>2. f.received \o f.todo = feed[w].received \o feed[w].todo
        BY <3>1
      <4>3. (feed[w].received \o feed[w].todo) \o Append(feed[w].backlog, event)
              = Append((feed[w].received \o feed[w].todo) \o feed[w].backlog, event)
        BY <1>3, <1>f, <4>1, AppendOnPassed
      <4> QED BY <3>1, <4>2, <4>3 DEF Passed
    <3>4. Fed(w, f) /\ Handed(w, "no") /\ UNCHANGED registered
      BY <1>10, <2>2 DEF HandCall
    <3> HIDE DEF f
    <3> QED BY <1>8, <3>1, <3>2, <3>3, <3>4
  <2>3. CASE ~ done[w] /\ streaming[w]
    BY <1>7, <1>10, <2>3 DEF HandCall
  <2> QED BY <2>1, <2>2, <2>3
<1>11. CASE HandSend(w)
  <2>1. step[w] = "stream"
    BY <1>1, <1>11 DEF HandSend, WatcherInv, SendersStream
  <2> DEFINE f == [feed[w] EXCEPT !.received = Append(@, event)]
  <2>2. /\ f.from = feed[w].from /\ f.shown = feed[w].shown /\ f.todo = feed[w].todo
        /\ f.skipped = feed[w].skipped
        /\ f.received = Append(feed[w].received, event) /\ f.backlog = feed[w].backlog
    BY <1>f DEF Feeds
  <2>3. feed[w].todo = <<>> /\ feed[w].backlog = <<>>
    BY <2>1, KeptOf
  <2>4. (f.received \o f.todo) \o f.backlog = Append(Passed(w), event)
    <3>1. feed[w].received \o <<>> = feed[w].received
      BY <1>f, ConcatEmptySeq
    <3>2. Append(feed[w].received, event) \o <<>> = Append(feed[w].received, event)
      BY <1>3, <1>f, AppendProperties, ConcatEmptySeq
    <3> QED BY <2>2, <2>3, <3>1, <3>2 DEF Passed
  <2>5. Fed(w, f) /\ Handed(w, "no") /\ UNCHANGED registered
    BY <1>11, <2>1 DEF HandSend
  <2> HIDE DEF f
  <2> QED BY <1>8, <2>2, <2>3, <2>4, <2>5
<1> QED BY <1>9, <1>10, <1>11 DEF HandStep

(* The manager's own steps preserve the invariant: it takes a change when    *)
(* no watcher is being handed one.                                           *)
LEMMA ManagerStepDelivers ==
  ASSUME DeliveryInv, ManagerStep
  PROVE  DeliveryInv'
<1>1. WatcherInv /\ WatcherInv' /\ TypeOK
  BY ManagerStepInv DEF DeliveryInv, WatcherInv
<1>t. taken \in Seq(Changes) /\ Len(taken) \in Nat /\ notifying \subseteq committed
  BY <1>1, LenProperties DEF TypeOK
<1>2. ASSUME NEW c \in Changes, Receive(c) PROVE DeliveryInv'
  <2>1. /\ event = NoChange /\ c \in committed /\ event' = c /\ taken' = Append(taken, c)
        /\ UNCHANGED <<committed, registered, clientVars, watchVars>>
        /\ \A w \in Watches : handing'[w] = IF w \in registered THEN "check" ELSE "no"
    BY <1>2, <1>t DEF Receive
  <2>2. /\ taken' # <<>> /\ Len(taken') = Len(taken) + 1 /\ taken'[Len(taken')] = c
        /\ \A i \in 1 .. Len(taken) : taken'[i] = taken[i]
    BY <1>t, <2>1, AppendProperties
  <2>3. \A i \in 1 .. Len(taken') : taken'[i] \in committed'
    <3>1. SUFFICES ASSUME NEW i \in 1 .. Len(taken') PROVE taken'[i] \in committed'
      OBVIOUS
    <3>2. CASE i = Len(taken')
      BY <2>1, <2>2, <3>2
    <3>3. CASE i \in 1 .. Len(taken)
      BY <2>1, <2>2, <3>3 DEF DeliveryInv
    <3> QED BY <1>t, <2>2, <3>1, <3>2, <3>3
  <2>4. ASSUME NEW w \in Watches PROVE Kept(w)'
    <3>1. /\ handing[w] = "no" /\ feed[w].from \in Nat /\ Passed(w)' = Passed(w)
          /\ Len(Passed(w)) \in Nat
      BY <1>1, <2>1, FeedOf, PassedParts, ChangesAssumption
      DEF WatcherInv, SendersHaveWork, Passed, watchVars
    <3>2. (w \in registered => Followed(w))'
      <4>1. SUFFICES ASSUME w \in registered PROVE Followed(w)'
        BY <2>1
      <4>2. Followed(w)
        BY <4>1, KeptOf DEF Kept
      <4>3. /\ feed[w].from + Len(Passed(w)) = Len(taken)
            /\ \A i \in 1 .. Len(Passed(w)) : Passed(w)[i] = taken[feed[w].from + i]
        BY <3>1, <4>2 DEF Followed
      <4>4. \A i \in 1 .. Len(Passed(w)) : Passed(w)[i] = taken'[feed[w].from + i]
        <5>1. SUFFICES ASSUME NEW i \in 1 .. Len(Passed(w))
                       PROVE  taken[feed[w].from + i] = taken'[feed[w].from + i]
          BY <4>3
        <5>2. feed[w].from + i \in 1 .. Len(taken)
          BY <1>t, <3>1, <4>3
        <5> QED BY <2>2, <5>2
      <4>5. feed'[w].from = feed[w].from /\ handing'[w] = "check"
        BY <2>1, <4>1 DEF watchVars
      <4> QED BY <1>t, <2>2, <3>1, <4>3, <4>4, <4>5 DEF Followed
    <3>3. feed[w].from <= Len(taken')
          /\ \A i \in 1 .. feed[w].from : taken'[i] \in feed[w].shown \cup feed[w].skipped
      BY <1>t, <2>2, <3>1, KeptOf
    <3> QED BY <2>1, <3>1, <3>2, <3>3, KeptOf DEF Kept, watchVars, clientVars
  <2> QED BY <1>1, <2>1, <2>2, <2>3, <2>4 DEF DeliveryInv
<1>3. CASE Handled
  <2>1. UNCHANGED <<changeVars, registered, handing, clientVars, watchVars>> /\ event' = NoChange
    BY <1>3 DEF Handled
  <2>2. \A w \in Watches : Kept(w)'
    BY <2>1 DEF DeliveryInv, Kept, Followed, Passed, changeVars, clientVars, watchVars
  <2> QED BY <1>1, <2>1, <2>2 DEF DeliveryInv, changeVars
<1> QED BY <1>2, <1>3 DEF ManagerStep

(* Requests and clients preserve the invariant.                              *)
LEMMA ClientStepDelivers ==
  ASSUME DeliveryInv, ClientStep
  PROVE  DeliveryInv'
<1>1. WatcherInv' /\ TypeOK
  BY ClientStepInv DEF DeliveryInv, WatcherInv
<1>2. ASSUME NEW w \in Watches, Watch(w) PROVE DeliveryInv'
  <2>1. /\ step[w] = "idle" /\ step'[w] = "cleaning"
        /\ \A v \in Watches \ {w} : step'[v] = step[v]
        /\ UNCHANGED <<changeVars, managerVars, clientVars, streaming, done, feed>>
    BY <1>1, <1>2 DEF Watch, Goto, TypeOK
  <2>2. Kept(w)'
    <3>1. Passed(w)' = Passed(w)
      BY <2>1 DEF Passed
    <3> QED BY <2>1, <3>1, KeptOf, KeptMove DEF changeVars, managerVars, clientVars
  <2>3. registered' = registered /\ registered \subseteq Watches
    BY <1>1, <2>1 DEF managerVars, TypeOK
  <2> QED BY <1>1, <2>1, <2>2, <2>3, DeliveryStep DEF managerVars, clientVars
<1>3. ASSUME UNCHANGED <<taken, managerVars, watchVars>>, committed \subseteq committed',
             \A w \in Watches : cancelled[w] => cancelled'[w]
      PROVE  DeliveryInv'
  <2>1. \A w \in Watches : Kept(w)'
    BY <1>3 DEF DeliveryInv, Kept, Followed, Passed, managerVars, watchVars
  <2> QED BY <1>1, <1>3, <2>1 DEF DeliveryInv, managerVars
<1>4. ASSUME NEW w \in Watches, Cancel(w) \/ Leave(w) PROVE DeliveryInv'
  BY <1>1, <1>3, <1>4 DEF Cancel, Leave, changeVars, TypeOK
<1>5. ASSUME NEW c \in Changes, Change(c) PROVE DeliveryInv'
  BY <1>3, <1>5 DEF Change, clientVars
<1> QED BY <1>2, <1>4, <1>5 DEF ClientStep

LEMMA DeliveryInitInv == Init => DeliveryInv
<1> SUFFICES ASSUME Init PROVE DeliveryInv
  OBVIOUS
<1>1. \A w \in Watches : feed[w] = NoFeed /\ Passed(w) = <<>>
  <2>1. <<>> \o <<>> = <<>>
    BY EmptySeq, ConcatEmptySeq
  <2> QED BY <2>1 DEF Init, Passed, NoFeed
<1>2. \A w \in Watches : Kept(w)
  BY <1>1, EmptySeq DEF Init, Kept, NoFeed
<1> QED BY <1>2, WatcherInitInv, EmptySeq DEF Init, DeliveryInv

LEMMA DeliveryNextInv == DeliveryInv /\ [Next]_vars => DeliveryInv'
<1> SUFFICES ASSUME DeliveryInv, [Next]_vars PROVE DeliveryInv'
  OBVIOUS
<1>1. ASSUME NEW w \in Watches, crashed = "no", WatchStep(w) \/ HandStep(w)
      PROVE  DeliveryInv'
  BY <1>1, WatchStepDelivers, HandStepDelivers
<1>2. CASE UNCHANGED vars
  <2>1. WatcherInv'
    BY WatcherNextInv DEF DeliveryInv
  <2>2. \A w \in Watches : Kept(w)'
    BY <1>2 DEF vars, changeVars, managerVars, clientVars, watchVars, DeliveryInv, Kept,
                Followed, Passed
  <2> QED BY <1>2, <2>1, <2>2 DEF vars, changeVars, managerVars, DeliveryInv
<1> QED BY <1>1, <1>2, ManagerStepDelivers, ClientStepDelivers DEF Next

(* Every watcher has been sent, or has kept for its watch, the changes from  *)
(* its registration on, but for the one it is being handed.                  *)
THEOREM WatcherDelivers == Spec => []DeliveryInv
  BY DeliveryInitInv, DeliveryNextInv, PTL DEF Spec

LEMMA DeliveryInOrder == DeliveryInv => InOrder
<1> SUFFICES ASSUME DeliveryInv, NEW w \in registered
             PROVE  IsPrefix(Passed(w), SubSeq(taken, feed[w].from + 1, Len(taken)))
  BY DEF InOrder
<1>1. w \in Watches /\ TypeOK /\ WatcherInv
  BY DEF DeliveryInv, WatcherInv, TypeOK
<1>2. /\ taken \in Seq(Changes) /\ Len(taken) \in Nat /\ feed[w].from \in Nat
      /\ Passed(w) \in Seq(Changes) /\ Len(Passed(w)) \in Nat
      /\ \A i \in 1 .. Len(taken) : taken[i] \in Changes
      /\ \A i \in 1 .. Len(Passed(w)) : Passed(w)[i] \in Changes
      /\ feed[w].from <= Len(taken) /\ Followed(w)
  <2>1. taken \in Seq(Changes) /\ feed[w].from \in Nat /\ Passed(w) \in Seq(Changes)
    BY <1>1, FeedOf, PassedParts DEF TypeOK
  <2>2. /\ Len(taken) \in Nat /\ \A i \in 1 .. Len(taken) : taken[i] \in Changes
        /\ Len(Passed(w)) \in Nat /\ \A i \in 1 .. Len(Passed(w)) : Passed(w)[i] \in Changes
    BY <2>1, LenProperties
  <2>3. Kept(w) /\ feed[w].from <= Len(taken)
    BY <1>1, KeptOf
  <2> QED BY <2>1, <2>2, <2>3 DEF Kept
<1> DEFINE t == SubSeq(taken, feed[w].from + 1, Len(taken))
           p == Passed(w)
<1>3. /\ t \in Seq(Changes) /\ Len(t) = Len(taken) - feed[w].from
      /\ \A i \in 1 .. Len(t) : t[i] = taken[feed[w].from + i]
  <2>1. \A i \in feed[w].from + 1 .. Len(taken) : taken[i] \in Changes
    BY <1>2
  <2>2. /\ t \in Seq(Changes)
        /\ Len(t) = IF feed[w].from + 1 <= Len(taken)
                    THEN Len(taken) - (feed[w].from + 1) + 1 ELSE 0
        /\ \A i \in 1 .. Len(taken) - (feed[w].from + 1) + 1 :
              t[i] = taken[(feed[w].from + 1) + i - 1]
    <3>1. feed[w].from + 1 \in Int /\ Len(taken) \in Int
      BY <1>2
    <3> QED BY <2>1, <3>1, SubSeqProperties
  <2>3. Len(t) = Len(taken) - feed[w].from
    BY <1>2, <2>2
  <2> HIDE DEF t
  <2>4. ASSUME NEW i \in 1 .. Len(t) PROVE t[i] = taken[feed[w].from + i]
    <3>1. (feed[w].from + 1) + i - 1 = feed[w].from + i
      BY <1>2
    <3> QED BY <1>2, <2>2, <2>3, <3>1
  <2> QED BY <2>2, <2>3, <2>4
<1>4. Len(p) <= Len(t) /\ \A i \in 1 .. Len(p) : p[i] = t[i]
  <2>1. /\ Len(p) \in Nat /\ \A i \in 1 .. Len(p) : p[i] = taken[feed[w].from + i]
        /\ feed[w].from + Len(p) = Len(taken) \/ feed[w].from + Len(p) = Len(taken) - 1
    BY <1>2 DEF Followed
  <2> HIDE DEF t, p
  <2>2. Len(p) <= Len(t)
    BY <1>2, <1>3, <2>1
  <2> QED BY <1>2, <1>3, <2>1, <2>2
<1> HIDE DEF t, p
<1>5. /\ p \in Seq(Changes) /\ Len(p) \in Nat /\ Len(t) \in Nat
      /\ \A i \in 1 .. Len(p) : p[i] \in Changes /\ t[i] \in Changes
  BY <1>2, <1>3, <1>4, LenProperties DEF p
<1>6. /\ SubSeq(p, 1, Len(p)) \in Seq(Changes) /\ SubSeq(t, 1, Len(p)) \in Seq(Changes)
      /\ Len(SubSeq(p, 1, Len(p))) = Len(p) /\ Len(SubSeq(t, 1, Len(p))) = Len(p)
      /\ \A i \in 1 .. Len(p) : /\ SubSeq(p, 1, Len(p))[i] = p[i]
                                /\ SubSeq(t, 1, Len(p))[i] = t[i]
  <2>1. ASSUME NEW q, \A i \in 1 .. Len(p) : q[i] \in Changes
        PROVE  /\ SubSeq(q, 1, Len(p)) \in Seq(Changes)
               /\ Len(SubSeq(q, 1, Len(p))) = Len(p)
               /\ \A i \in 1 .. Len(p) : SubSeq(q, 1, Len(p))[i] = q[i]
    <3>1. /\ SubSeq(q, 1, Len(p)) \in Seq(Changes)
          /\ Len(SubSeq(q, 1, Len(p))) = IF 1 <= Len(p) THEN Len(p) - 1 + 1 ELSE 0
          /\ \A i \in 1 .. Len(p) - 1 + 1 : SubSeq(q, 1, Len(p))[i] = q[1 + i - 1]
      BY <1>5, <2>1, SubSeqProperties
    <3> QED BY <1>5, <3>1
  <2> QED BY <1>5, <2>1
<1>7. SubSeq(p, 1, Len(p)) = SubSeq(t, 1, Len(p))
  BY <1>4, <1>6, SeqEqual
<1>8. IsPrefix(p, t)
  BY <1>4, <1>7 DEF IsPrefix
<1> QED BY <1>8 DEF p, t

(* What is sent to a watch is in the order of the manager, without a gap and *)
(* without a repetition (watcher.go, innerListAndWatch).                     *)
THEOREM WatcherInOrder == Spec => []InOrder
  BY WatcherDelivers, DeliveryInOrder, PTL

LEMMA DeliveryMissesNothing == DeliveryInv => NothingMissed
<1> SUFFICES ASSUME DeliveryInv PROVE NothingMissed
  OBVIOUS
<1>0. Len(taken) \in Nat /\ \A w \in Watches : feed[w].from \in Nat
  BY KeptOf, LenProperties DEF DeliveryInv, WatcherInv, TypeOK
<1> SUFFICES ASSUME NEW w \in Watches, step[w] = "stream", ~ cancelled[w],
                    NEW i \in 1 .. Len(taken)
             PROVE  /\ i <= feed[w].from =>
                         taken[i] \in feed[w].shown \cup feed[w].skipped
                    /\ i > feed[w].from =>
                         \/ taken[i] \in ToSet(Passed(w))
                         \/ taken[i] \in (IF handing[w] = "no" THEN {} ELSE {event})
  BY <1>0 DEF NothingMissed
<1>1. /\ WatcherInv /\ Followed(w)
      /\ \A j \in 1 .. feed[w].from : taken[j] \in feed[w].shown \cup feed[w].skipped
  BY KeptOf DEF Kept
<1>2. /\ taken \in Seq(Changes) /\ Len(taken) \in Nat
      /\ feed[w].from \in Nat /\ Len(Passed(w)) \in Nat
      /\ DOMAIN Passed(w) = 1 .. Len(Passed(w))
  BY <1>1, LenProperties, FeedOf, PassedParts DEF WatcherInv, TypeOK
<1>3. CASE i <= feed[w].from
  BY <1>1, <1>2, <1>3
<1>4. CASE i > feed[w].from /\ i <= feed[w].from + Len(Passed(w))
  <2>1. i - feed[w].from \in 1 .. Len(Passed(w))
    BY <1>2, <1>4
  <2>2. Passed(w)[i - feed[w].from] = taken[feed[w].from + (i - feed[w].from)]
    BY <1>1, <2>1 DEF Followed
  <2>3. taken[i] = Passed(w)[i - feed[w].from]
    BY <1>2, <2>2
  <2>4. taken[i] \in ToSet(Passed(w))
    BY <1>2, <2>1, <2>3 DEF ToSet
  <2> QED BY <1>2, <1>4, <2>4
<1>5. CASE i > feed[w].from + Len(Passed(w))
  <2>1. handing[w] # "no" /\ i = Len(taken)
    <3>1. feed[w].from + Len(Passed(w)) = IF handing[w] = "no" THEN Len(taken) ELSE Len(taken) - 1
      BY <1>1 DEF Followed
    <3>2. CASE handing[w] = "no"
      <4>1. feed[w].from + Len(Passed(w)) = Len(taken)
        BY <3>1, <3>2
      <4>2. i <= Len(taken) /\ i \in Nat /\ Len(taken) \in Nat
        BY <1>2
      <4> QED BY <1>5, <4>1, <4>2
    <3>3. CASE handing[w] # "no"
      <4>1. feed[w].from + Len(Passed(w)) = Len(taken) - 1
        BY <3>1, <3>3
      <4>2. i <= Len(taken) /\ i \in Nat /\ Len(taken) \in Nat
        BY <1>2
      <4>3. i = Len(taken)
        BY <1>5, <4>1, <4>2
      <4> QED BY <3>3, <4>3
    <3> QED BY <3>2, <3>3
  <2>2. event # NoChange
    BY <1>1, <2>1, ChangesAssumption DEF WatcherInv, SendersHaveWork
  <2>3. taken[i] = event
    BY <2>1, <2>2 DEF DeliveryInv
  <2>4. ~ (i <= feed[w].from)
    BY <1>2, <1>5
  <2> QED BY <2>1, <2>3, <2>4
<1> QED BY <1>2, <1>3, <1>4, <1>5

(* A watch that streams has been passed, or is being handed, every change    *)
(* announced since its watcher was registered; of those before, its list     *)
(* has shown all but the packages it left out (watcher.go, strategy_list.go). *)
THEOREM WatcherMissesNothing == Spec => []NothingMissed
  BY WatcherDelivers, DeliveryMissesNothing, PTL
=============================================================================
