--------------------------- MODULE WatcherManager ---------------------------
(***************************************************************************)
(* Watches of package resources (pkg/watcher-manager and watcher.go of     *)
(* pkg/pkgserver/packagerevisionresource).  A REST request that changed a  *)
(* package hands its event to the one goroutine of the manager, which      *)
(* calls every registered watcher, each in a goroutine of its own, and     *)
(* waits for all of them.  A watch registers first, then lists, sends what *)
(* came in meanwhile (the backlog) and then streams.                       *)
(*                                                                         *)
(* No channel has a buffer: a send is one step with the receiver.  The     *)
(* receiver of a watch is the API server's handler of the client's         *)
(* request, which is gone once the client is.                              *)
(***************************************************************************)
EXTENDS Naturals, Sequences, SequencesExt, FiniteSets

CONSTANTS
  Watches,      \* the watch requests of a run
  Changes,      \* the changes of package resources in a run
  NoChange,     \* what the manager is at when it is at none
  MaxWatchers,  \* the weight of the semaphore
  Listing,      \* the watches that list first (options.Watch is not set)
  Selected      \* the changes of the packages a watch's selectors select

ASSUME WatchesAssumption == IsFiniteSet(Watches) /\ Listing \subseteq Watches
ASSUME SelectedAssumption == Selected \in [Watches -> SUBSET Changes]
ASSUME ChangesAssumption == NoChange \notin Changes
ASSUME LimitAssumption == MaxWatchers \in Nat

VARIABLES
  committed,   \* the changes that are in git
  notifying,   \* those whose request waits for the manager
  taken,       \* history: those the manager has taken, in that order
  registered,  \* the watchers of the manager
  held,        \* what is acquired of its semaphore
  event,       \* the change the manager is at
  handing,     \* how far the call of each watcher is with it
  step,        \* where listAndWatch is
  found,       \* the registered watchers Add has listed
  streaming,   \* the callback is the one that sends
  done,
  cancelled,   \* the context of the request has ended
  gone,        \* the handler of the request has returned: nobody receives
  feed,        \* what a watch has shown and has still to show
  crashed      \* why the process has panicked

changeVars  == <<committed, notifying, taken>>
managerVars == <<registered, held, event, handing, crashed>>
clientVars  == <<cancelled, gone>>
watchVars   == <<step, found, streaming, done, feed>>
vars == <<changeVars, managerVars, clientVars, watchVars>>

(* shown: the changes the list had, or, for a watch without a list, those    *)
(* announced before it began; skipped: those of the packages the list left   *)
(* out; from: how many changes were taken when the watcher was registered.   *)
Feeds == [shown : SUBSET Changes, skipped : SUBSET Changes, todo : Seq(Changes),
          backlog : Seq(Changes), received : Seq(Changes), from : Nat]
NoFeed == [shown |-> {}, skipped |-> {}, todo |-> <<>>, backlog |-> <<>>,
           received |-> <<>>, from |-> 0]

Steps == {"idle", "cleaning", "acquiring", "list",
          "send list", "flush", "send", "last look", "final", "stream",
          "set done", "error", "closed"}

TypeOK ==
  /\ committed \subseteq Changes /\ notifying \subseteq committed
  /\ taken \in Seq(Changes)
  /\ registered \subseteq Watches
  /\ held \in 0 .. MaxWatchers
  /\ event \in Changes \cup {NoChange}
  /\ handing \in [Watches -> {"no", "check", "call", "send"}]
  /\ step \in [Watches -> Steps]
  /\ found \in [Watches -> SUBSET Watches]
  /\ streaming \in [Watches -> BOOLEAN] /\ done \in [Watches -> BOOLEAN]
  /\ cancelled \in [Watches -> BOOLEAN] /\ gone \in [Watches -> BOOLEAN]
  /\ feed \in [Watches -> Feeds]
  /\ crashed \in {"no", "released too much", "sent on closed", "nil repository"}

Init ==
  /\ committed = {} /\ notifying = {} /\ taken = <<>>
  /\ registered = {} /\ held = 0
  /\ event = NoChange /\ handing = [w \in Watches |-> "no"]
  /\ step = [w \in Watches |-> "idle"]
  /\ found = [w \in Watches |-> {}]
  /\ streaming = [w \in Watches |-> FALSE]
  /\ done = [w \in Watches |-> FALSE]
  /\ cancelled = [w \in Watches |-> FALSE]
  /\ gone = [w \in Watches |-> FALSE]
  /\ feed = [w \in Watches |-> NoFeed]
  /\ crashed = "no"

----------------------------------------------------------------------------
(* The registry and its semaphore                                           *)

(* Mutant of Drop: a semaphore that does not look at what is held. *)
DropUnchecked(D) ==
  /\ registered' = registered \ D
  /\ held' = held - Cardinality(D)
  /\ UNCHANGED crashed

(* Mutant of Drop: the place is not released. *)
DropKeepsPlace(D) ==
  /\ registered' = registered \ D
  /\ UNCHANGED <<held, crashed>>

(* Who drops a watcher releases its place, whether it was there or not; a   *)
(* semaphore that is released more than it is held panics.                  *)
Drop(D) ==
  /\ registered' = registered \ D
  /\ IF Cardinality(D) <= held
     THEN held' = held - Cardinality(D) /\ UNCHANGED crashed
     ELSE held' = 0 /\ crashed' = "released too much"

Fed(w, f) == feed' = [feed EXCEPT ![w] = f]

Goto(w, s) == step' = [step EXCEPT ![w] = s]

(* isDone is the error of the watcher's context.                            *)
IsDone(w) == cancelled[w]

(* Add drops the watchers that are done, of the copy of the list it made.   *)
AddCleans(w) ==
  /\ step[w] = "cleaning"
  /\ Drop({v \in found[w] : IsDone(v)})
  /\ found' = [found EXCEPT ![w] = {}]
  /\ Goto(w, "acquiring")
  /\ UNCHANGED <<changeVars, event, handing, clientVars, streaming, done, feed>>

(* Without a place the watch ends with an error event.                      *)
AddAcquires(w) ==
  /\ step[w] = "acquiring"
  /\ \/ /\ held < MaxWatchers
        /\ held' = held + 1
        /\ registered' = registered \cup {w}
        /\ Fed(w, [feed[w] EXCEPT !.shown = ToSet(taken), !.from = Len(taken)])
        /\ Goto(w, IF w \in Listing THEN "list" ELSE "flush")
     \/ /\ held >= MaxWatchers
        /\ Goto(w, "error")
        /\ UNCHANGED <<held, registered, feed>>
  /\ UNCHANGED <<changeVars, event, handing, crashed, clientVars,
                 found, streaming, done>>

----------------------------------------------------------------------------
(* listAndWatch, a goroutine for each watch                                 *)

(* A watch begins with the callback that fills the backlog, and with Add,   *)
(* which lists the watchers.                                                *)
Watch(w) ==
  /\ step[w] = "idle"
  /\ found' = [found EXCEPT ![w] = registered]
  /\ Goto(w, "cleaning")
  /\ UNCHANGED <<changeVars, managerVars, clientVars, streaming, done, feed>>

(* The lock of a watcher is held over steps by the last look at the backlog *)
(* and by a streaming callback.                                             *)
Locked(w) == step[w] = "final" \/ handing[w] = "send"

(* The list leaves out, without an error, the packages that are not ready   *)
(* and those not selected, and has no resources of one git fails to read.   *)
(* It fails as a whole when the package revisions cannot be listed.  After  *)
(* a repository that cannot be read or opened it goes on with none.         *)
List(w) ==
  /\ step[w] = "list"
  /\ \/ /\ \E unready, unread \in SUBSET committed :
             LET listed == (committed \cap Selected[w]) \ (unready \cup unread)
             IN Fed(w, [feed[w] EXCEPT !.shown = listed, !.skipped = committed \ listed])
        /\ Goto(w, "send list")
        /\ UNCHANGED crashed
     \/ /\ Goto(w, "set done")
        /\ UNCHANGED <<feed, crashed>>
     \/ /\ crashed' = "nil repository"
        /\ UNCHANGED <<step, feed>>
  /\ UNCHANGED <<changeVars, registered, held, event, handing, clientVars,
                 found, streaming, done>>

(* The listed packages stand for one message.                               *)
SendList(w) ==
  /\ step[w] = "send list" /\ ~ gone[w]
  /\ Goto(w, "flush")
  /\ UNCHANGED <<changeVars, managerVars, clientVars, found, streaming, done, feed>>

(* Mutant of TakeBacklog: the backlog is not reset. *)
TakeBacklogAgain(w) ==
  /\ step[w] = "flush" /\ ~ Locked(w)
  /\ Fed(w, [feed[w] EXCEPT !.todo = feed[w].backlog])
  /\ Goto(w, IF feed[w].backlog = <<>> THEN "last look" ELSE "send")
  /\ UNCHANGED <<changeVars, managerVars, clientVars, found, streaming, done>>

(* The backlog is flushed until nothing has come in meanwhile.              *)
TakeBacklog(w) ==
  /\ step[w] = "flush" /\ ~ Locked(w)
  /\ Fed(w, [feed[w] EXCEPT !.todo = feed[w].backlog, !.backlog = <<>>])
  /\ Goto(w, IF feed[w].backlog = <<>> THEN "last look" ELSE "send")
  /\ UNCHANGED <<changeVars, managerVars, clientVars, found, streaming, done>>

SendBacklog(w) ==
  /\ step[w] = "send" /\ ~ gone[w]
  /\ Fed(w, [feed[w] EXCEPT !.received = Append(@, Head(feed[w].todo)),
                            !.todo = Tail(@)])
  /\ Goto(w, IF Len(feed[w].todo) = 1 THEN "flush" ELSE "send")
  /\ UNCHANGED <<changeVars, managerVars, clientVars, found, streaming, done>>

(* Mutant of LastLook: what came in after the flush is forgotten. *)
NoLastLook(w) ==
  /\ step[w] = "last look" /\ ~ Locked(w)
  /\ Fed(w, [feed[w] EXCEPT !.backlog = <<>>])
  /\ Goto(w, "final")
  /\ UNCHANGED <<changeVars, managerVars, clientVars, found, streaming, done>>

LastLook(w) ==
  /\ step[w] = "last look" /\ ~ Locked(w)
  /\ Goto(w, "final")
  /\ UNCHANGED <<changeVars, managerVars, clientVars, found, streaming, done, feed>>

(* What squeezed in is sent with the lock held.                             *)
SendLast(w) ==
  /\ step[w] = "final" /\ feed[w].backlog # <<>> /\ ~ gone[w]
  /\ Fed(w, [feed[w] EXCEPT !.received = Append(@, Head(feed[w].backlog)),
                            !.backlog = Tail(@)])
  /\ UNCHANGED <<changeVars, managerVars, clientVars, step, found, streaming, done>>

Stream(w) ==
  /\ step[w] = "final" /\ feed[w].backlog = <<>>
  /\ streaming' = [streaming EXCEPT ![w] = TRUE]
  /\ Goto(w, "stream")
  /\ UNCHANGED <<changeVars, managerVars, clientVars, found, done, feed>>

(* Mutant of SetDone: a watch that ends is not marked. *)
SetNothing(w) ==
  /\ \/ step[w] = "stream" /\ cancelled[w]
     \/ step[w] = "set done"
  /\ ~ Locked(w)
  /\ Goto(w, "error")
  /\ UNCHANGED <<changeVars, managerVars, clientVars, found, streaming, done, feed>>

(* setDone, when the context has ended or the list failed: it needs the lock. *)
SetDone(w) ==
  /\ \/ step[w] = "stream" /\ cancelled[w]
     \/ step[w] = "set done"
  /\ ~ Locked(w)
  /\ done' = [done EXCEPT ![w] = TRUE]
  /\ Goto(w, "error")
  /\ UNCHANGED <<changeVars, managerVars, clientVars, found, streaming, feed>>

(* However a watch ends, an error event is sent before the channel is closed. *)
Close(w) ==
  /\ step[w] = "error" /\ ~ gone[w]
  /\ cancelled' = [cancelled EXCEPT ![w] = TRUE]
  /\ Goto(w, "closed")
  /\ UNCHANGED <<changeVars, managerVars, gone, found, streaming, done, feed>>

----------------------------------------------------------------------------
(* The manager's goroutine and the calls it waits for                       *)

(* The send of a request and the receive of the manager are one step.       *)
Receive(c) ==
  /\ event = NoChange /\ c \in notifying
  /\ event' = c
  /\ notifying' = notifying \ {c}
  /\ taken' = Append(taken, c)
  /\ handing' = [w \in Watches |-> IF w \in registered THEN "check" ELSE "no"]
  /\ UNCHANGED <<committed, registered, held, crashed, clientVars, watchVars>>

Handed(w, h) == handing' = [handing EXCEPT ![w] = h]

HandCheck(w) ==
  /\ handing[w] = "check"
  /\ \/ /\ IsDone(w)
        /\ Drop({w})
        /\ Handed(w, "no")
     \/ /\ ~ IsDone(w)
        /\ Handed(w, "call")
        /\ UNCHANGED <<registered, held, crashed>>
  /\ UNCHANGED <<changeVars, event, clientVars, watchVars>>

(* Mutant of HandCall: a watcher that is done never answers. *)
DoneNeverAnswers(w) ==
  /\ handing[w] = "call" /\ ~ Locked(w) /\ ~ done[w]
  /\ \/ /\ ~ streaming[w]
        /\ Fed(w, [feed[w] EXCEPT !.backlog = Append(@, event)])
        /\ Handed(w, "no")
     \/ /\ streaming[w]
        /\ Handed(w, "send")
        /\ UNCHANGED feed
  /\ UNCHANGED <<changeVars, registered, held, crashed, event, clientVars,
                 step, found, streaming, done>>

(* OnChange takes the lock; a watcher that is done does not go on, a        *)
(* streaming one keeps the lock until somebody receives.                    *)
HandCall(w) ==
  /\ handing[w] = "call" /\ ~ Locked(w)
  /\ \/ /\ done[w]
        /\ Drop({w})
        /\ Handed(w, "no")
        /\ UNCHANGED feed
     \/ /\ ~ done[w] /\ ~ streaming[w]
        /\ Fed(w, [feed[w] EXCEPT !.backlog = Append(@, event)])
        /\ Handed(w, "no")
        /\ UNCHANGED <<registered, held, crashed>>
     \/ /\ ~ done[w] /\ streaming[w]
        /\ Handed(w, "send")
        /\ UNCHANGED <<registered, held, crashed, feed>>
  /\ UNCHANGED <<changeVars, event, clientVars, step, found, streaming, done>>

(* A send on a closed channel panics.                                       *)
HandSend(w) ==
  /\ handing[w] = "send"
  /\ \/ /\ step[w] = "closed"
        /\ crashed' = "sent on closed"
        /\ UNCHANGED <<handing, feed>>
     \/ /\ step[w] # "closed" /\ ~ gone[w]
        /\ Fed(w, [feed[w] EXCEPT !.received = Append(@, event)])
        /\ Handed(w, "no")
        /\ UNCHANGED crashed
  /\ UNCHANGED <<changeVars, registered, held, event, clientVars,
                 step, found, streaming, done>>

(* The manager waits for all calls.                                         *)
Handled ==
  /\ event # NoChange /\ \A w \in Watches : handing[w] = "no"
  /\ event' = NoChange
  /\ UNCHANGED <<changeVars, registered, held, handing, crashed, clientVars, watchVars>>

----------------------------------------------------------------------------
(* Requests and clients                                                     *)

(* Create and Update change git and then notify; one that fails after git   *)
(* was changed tells nobody.                                                *)
Change(c) ==
  /\ c \notin committed
  /\ committed' = committed \cup {c}
  /\ notifying' \in {notifying, notifying \cup {c}}
  /\ UNCHANGED <<taken, managerVars, clientVars, watchVars>>

Active(w) == step[w] \notin {"idle", "closed"}

(* The context of the request ends; its handler may still receive.          *)
Cancel(w) ==
  /\ Active(w) /\ ~ cancelled[w]
  /\ cancelled' = [cancelled EXCEPT ![w] = TRUE]
  /\ UNCHANGED <<changeVars, managerVars, gone, watchVars>>

(* The handler returns, and stops the watch.                                *)
Leave(w) ==
  /\ Active(w) /\ ~ gone[w]
  /\ cancelled' = [cancelled EXCEPT ![w] = TRUE]
  /\ gone' = [gone EXCEPT ![w] = TRUE]
  /\ UNCHANGED <<changeVars, managerVars, watchVars>>

----------------------------------------------------------------------------
WatchStep(w) ==
  \/ AddCleans(w) \/ AddAcquires(w)
  \/ List(w) \/ SendList(w)
  \/ TakeBacklog(w) \/ SendBacklog(w)
  \/ LastLook(w) \/ SendLast(w) \/ Stream(w)
  \/ SetDone(w) \/ Close(w)

HandStep(w) == HandCheck(w) \/ HandCall(w) \/ HandSend(w)

ManagerStep == (\E c \in Changes : Receive(c)) \/ Handled

ClientStep ==
  \/ \E w \in Watches : Watch(w) \/ Cancel(w) \/ Leave(w)
  \/ \E c \in Changes : Change(c)

Next ==
  /\ crashed = "no"
  /\ \/ \E w \in Watches : WatchStep(w) \/ HandStep(w)
     \/ ManagerStep
     \/ ClientStep

Spec == Init /\ [][Next]_vars

(* Goroutines that can go on do; a handler that is there receives.          *)
FairSpec ==
  /\ Spec
  /\ WF_vars(crashed = "no" /\ ManagerStep)
  /\ \A w \in Watches :
       /\ WF_vars(crashed = "no" /\ WatchStep(w))
       /\ WF_vars(crashed = "no" /\ HandStep(w))

----------------------------------------------------------------------------
(* Properties                                                               *)

(* Nothing is sent on a result channel that is closed: listAndWatch closes  *)
(* it while the manager may be about to call the watcher, and only done,    *)
(* set under the lock, keeps the callback from sending (watcher.go).        *)
NeverSentOnClosed == crashed # "sent on closed"

(* No place is lost: what is held of the semaphore belongs to a registered  *)
(* watcher, however a watch ends, so new watches are not refused for old    *)
(* ones that are gone (manager.go, Add and Start).                          *)
NoPlaceLost == held <= Cardinality(registered)

(* A callback that sends belongs to a watch that streams. *)
SendersStream ==
  \A w \in Watches :
     /\ streaming[w] /\ ~ done[w] => step[w] = "stream"
     /\ handing[w] = "send" => step[w] = "stream"

(* A watcher is registered when its watch has passed Add. *)
RegisteredPassedAdd ==
  \A w \in registered : step[w] \notin {"idle", "cleaning", "acquiring"}

(* Whoever sends has something to send. *)
SendersHaveWork ==
  \A w \in Watches :
     /\ step[w] = "send" => feed[w].todo # <<>>
     /\ handing[w] # "no" => event \in Changes

(* The inductive invariant: with the types, what keeps a callback from a    *)
(* closed channel, and what ties the semaphore to the registered watchers   *)
(* (manager.go, watcher.go).                                                *)
WatcherInv ==
  /\ TypeOK
  /\ SendersStream
  /\ SendersHaveWork
  /\ RegisteredPassedAdd
  /\ NeverSentOnClosed
  /\ NoPlaceLost

Passed(w) == feed[w].received \o feed[w].todo \o feed[w].backlog

(* What a watch sends of the changes, from the backlog, from its last look  *)
(* or as a stream, is in the order the manager took them, without a gap and *)
(* without a repetition (watcher.go, innerListAndWatch).                    *)
InOrder ==
  \A w \in registered :
     IsPrefix(Passed(w), SubSeq(taken, feed[w].from + 1, Len(taken)))

(* A watch that streams misses nothing: what was announced after its         *)
(* watcher was registered has been or is being passed to it, even if the     *)
(* list had it already or its package was left out; what was announced       *)
(* before, its list has shown, but for the packages that were not selected,  *)
(* not ready or could not be read (watcher.go: the callback is registered    *)
(* before the list is read; strategy_list.go:82-133).                        *)
NothingMissed ==
  \A w \in Watches : step[w] = "stream" /\ ~ cancelled[w] =>
     \A i \in 1 .. Len(taken) :
        IF i <= feed[w].from
        THEN taken[i] \in feed[w].shown \cup feed[w].skipped
        ELSE taken[i] \in ToSet(Passed(w))
                           \cup (IF handing[w] = "no" THEN {} ELSE {event})

(* A watcher has had the changes from its registration on, but for the one   *)
(* it is being handed.                                                       *)
Followed(w) ==
  /\ feed[w].from + Len(Passed(w))
       = IF handing[w] = "no" THEN Len(taken) ELSE Len(taken) - 1
  /\ \A i \in 1 .. Len(Passed(w)) : Passed(w)[i] = taken[feed[w].from + i]

(* What the goroutine of a watch and the calls of its watcher leave each     *)
(* other: when there is nothing to send, who has been registered, and what   *)
(* was shown before.                                                         *)
Kept(w) ==
  /\ step[w] \in {"idle", "cleaning", "acquiring"} =>
       handing[w] = "no" /\ Passed(w) = <<>>
  /\ step[w] # "send" => feed[w].todo = <<>>
  /\ step[w] = "stream" => streaming[w] /\ feed[w].backlog = <<>>
  /\ done[w] => step[w] \in {"error", "closed"}
  /\ step[w] \in {"idle", "cleaning", "acquiring", "error", "closed"}
       \/ cancelled[w] \/ w \in registered
  /\ feed[w].from <= Len(taken)
  /\ \A i \in 1 .. feed[w].from : taken[i] \in feed[w].shown \cup feed[w].skipped
  /\ w \in registered => Followed(w)

(* The inductive invariant of what watches are sent: it is WatcherInv, what  *)
(* the manager has taken is in git and ends with the change it is at, and    *)
(* every watcher has followed it (manager.go, watcher.go).                   *)
DeliveryInv ==
  /\ WatcherInv
  /\ \A i \in 1 .. Len(taken) : taken[i] \in committed
  /\ event # NoChange => taken # <<>> /\ taken[Len(taken)] = event
  /\ \A w \in Watches : Kept(w)

SomeoneGone == \E w \in Watches : gone[w]

(* A request that changed a package is not kept waiting for ever by the     *)
(* watches, as long as no handler has gone and the process is there         *)
(* (manager.go, Start; strategy.go, notifyWatcher).                         *)
RequestsReturn ==
  \A c \in Changes :
     c \in notifying ~> (c \notin notifying \/ SomeoneGone \/ crashed # "no")

(* "Stop stops watching. Will close the channel returned by ResultChan().   *)
(* Releases any resources used by the watch." (watcher.go, Stop): a watch   *)
(* whose handler has stopped it is closed in the end.                       *)
StopCloses ==
  \A w \in Watches : gone[w] ~> (step[w] = "closed" \/ crashed # "no")
=============================================================================
