------------------------ MODULE RepositoryCacheProofs -----------------------
(* Proofs about RepositoryCache: for any Repositories, keys, directories and *)
(* callers, one repository is open under a key, the controller's scanner     *)
(* stops before its Repository goes, and a clone in use is removed only by   *)
(* those the property names.                                                 *)
EXTENDS RepositoryCache, TLAPS

Calls == [step : Steps, repo : Repos \cup {None}, spec : Specs \cup {None},
          cleanup : BOOLEAN, fresh : BOOLEAN, answer : Entries]
Clones == [Dirs -> {"none", "half", "made"}]
HasKey == Opening \cup {"cleanup", "opened", "cancel", "release"}

(* The invariant without the types.                                          *)
Held ==
  /\ OneRepository /\ CallsAsk /\ EntriesAsked /\ ControllerHolds /\ ObjectsHeld
  /\ ScannedIsHeld /\ CancelledFirst

(* The calls that a step leaves a caller with have their type.               *)
LEMMA CallTypes ==
  /\ Idle \in Calls /\ NoEntry \in Entries
  /\ Absent \in Objects /\ \A spec \in Specs : New(spec) \in Objects
  /\ \A c \in Callers, r \in Repos :
       objects[r].spec \in Specs
       => /\ Asking(c, r) \in Calls
          /\ [Asking(c, r) EXCEPT !.step = "remove"] \in Calls
<1>1. Idle \in Calls
  BY DEF Idle, Calls, Steps, Entries, NoEntry
<1>2. NoEntry \in Entries
  BY DEF Entries, NoEntry
<1>3. Absent \in Objects /\ \A spec \in Specs : New(spec) \in Objects
  BY DEF Absent, New, Objects
<1>4. ASSUME NEW c \in Callers, NEW r \in Repos, objects[r].spec \in Specs
      PROVE  /\ Asking(c, r) \in Calls
             /\ [Asking(c, r) EXCEPT !.step = "remove"] \in Calls
  BY <1>2, <1>4 DEF Asking, Idle, Calls, Steps
<1> QED BY <1>1, <1>2, <1>3, <1>4

(* A call that goes on, or is answered, keeps the invariant.                 *)
LEMMA CallGoesOn ==
  ASSUME CacheInv, NEW c \in Callers, NEW call \in Calls,
         calls' = [calls EXCEPT ![c] = call],
         UNCHANGED <<objects, entry, moved, scanners>>,
         calls[c].step # "idle", call.step \notin {"idle", "release"},
         call.repo = calls[c].repo, call.spec = calls[c].spec, call.fresh = calls[c].fresh,
         call.step \in HasKey => Key(c) # None,
         call.answer # NoEntry
         => call.step = "opened" /\ Stored(Key(c)) /\ call.answer = entry[Key(c)],
         call.step \in {"init", "make", "cleanup"} => call.cleanup,
         call.step \in Closing => calls[c].step \in Closing,
         c = Controller /\ call.step \in Opening
         => entry[Key(c)].by # Controller
  PROVE  Held'
<1>1. /\ calls \in [Callers -> Calls] /\ Controller \in Callers
      /\ calls'[c] = call /\ \A d \in Callers \ {c} : calls'[d] = calls[d]
  BY DEF CacheInv, TypeOK, Calls, Callers
<1>2. \A d \in Callers : Key(d)' = Key(d)
  BY <1>1 DEF Key
<1>3. \A k : Stored(k)' = Stored(k)
  BY DEF Stored
<1>4. OneRepository'
  BY <1>1, <1>2 DEF CacheInv, OneRepository
<1>5. CallsAsk'
  BY <1>1, <1>2, <1>3 DEF CacheInv, CallsAsk, HasKey
<1>6. EntriesAsked'
  BY <1>3 DEF CacheInv, EntriesAsked
<1>7. ControllerHolds'
  BY <1>1, <1>2 DEF CacheInv, ControllerHolds
<1>8. ObjectsHeld' /\ ScannedIsHeld'
  BY DEF CacheInv, ObjectsHeld, ScannedIsHeld
<1>9. CancelledFirst'
  BY <1>1 DEF CacheInv, CancelledFirst
<1> QED BY <1>4, <1>5, <1>6, <1>7, <1>8, <1>9 DEF Held

(* A call that begins or ends keeps it, and so does a step of the objects    *)
(* that keeps what is held.                                                  *)
LEMMA CallBegins ==
  ASSUME CacheInv, NEW c \in Callers, NEW call \in Calls,
         calls' = [calls EXCEPT ![c] = call],
         entry' = entry, moved' = moved, scanners' \subseteq scanners,
         call.answer = NoEntry, call.step \in {"idle", "get", "remove"},
         call.step # "idle"
         => call.repo \in Repos /\ call.spec \in Specs /\ call.spec = objects[call.repo].spec,
         call.step = "remove" => c = Controller /\ objects[call.repo].deleting,
         c = Controller /\ call.step = "get"
         => objects'[call.repo].there /\ objects'[call.repo].finalizer,
         \A r \in Repos :
           /\ objects'[r].deleting = objects[r].deleting
           /\ objects'[r].there = objects[r].there /\ objects'[r].spec = objects[r].spec
           /\ objects[r].finalizer => objects'[r].finalizer
  PROVE  Held'
<1>1. /\ calls \in [Callers -> Calls] /\ Controller \in Callers
      /\ calls'[c] = call /\ \A d \in Callers \ {c} : calls'[d] = calls[d]
  BY DEF CacheInv, TypeOK, Calls, Callers
<1>2. \A d \in Callers \ {c} : Key(d)' = Key(d)
  BY <1>1 DEF Key
<1>3. \A k : Stored(k)' = Stored(k)
  BY DEF Stored
<1>4. OneRepository'
  BY <1>1, <1>2 DEF CacheInv, OneRepository
<1>5. CallsAsk'
  BY <1>1, <1>2, <1>3, CallersAssumption DEF CacheInv, CallsAsk, Opening, Closing
<1>6. EntriesAsked'
  BY <1>3 DEF CacheInv, EntriesAsked
<1>7. ObjectsHeld'
  BY DEF CacheInv, ObjectsHeld
<1>8. ControllerHolds'
  <2>1. CASE c = Controller
    <3>1. calls'[Controller] = call
      BY <1>1, <2>1
    <3>2. call.step = "remove"
          => /\ call.repo \in Repos /\ objects'[call.repo].deleting
             /\ objects'[call.repo].there /\ objects'[call.repo].finalizer
      BY <2>1 DEF CacheInv, ObjectsHeld
    <3>3. calls'[Controller].step # "idle"
          => /\ objects'[calls'[Controller].repo].there
             /\ objects'[calls'[Controller].repo].finalizer
             /\ calls'[Controller].spec = objects'[calls'[Controller].repo].spec
      BY <2>1, <3>1, <3>2
    <3>4. calls'[Controller].step \in Closing => objects'[calls'[Controller].repo].deleting
      BY <3>1, <3>2 DEF Closing
    <3>5. calls'[Controller].step \notin Opening
      BY <3>1 DEF Opening
    <3>6. Key(Controller)' = KeyOf[calls'[Controller].spec]
      BY DEF Key
    <3> QED BY <3>3, <3>4, <3>5, <3>6 DEF ControllerHolds
  <2>2. CASE c # Controller
    <3>1. calls'[Controller] = calls[Controller] /\ Key(Controller)' = Key(Controller)
      BY <1>1, <1>2, <2>2
    <3>2. calls[Controller].step # "idle" => calls[Controller].repo \in Repos
      BY <1>1 DEF CacheInv, CallsAsk
    <3> DEFINE now == calls[Controller]
    <3>3. /\ now.step # "idle" =>
                /\ objects[now.repo].there /\ objects[now.repo].finalizer
                /\ Key(Controller) \in moved \cup {None, KeyOf[objects[now.repo].spec]}
                /\ now.fresh => now.spec = objects[now.repo].spec
          /\ now.step \in Closing => objects[now.repo].deleting /\ now.step # "idle"
          /\ now.step \in Opening => entry[Key(Controller)].by # Controller
      BY DEF CacheInv, ControllerHolds, Closing
    <3>4. /\ now.step # "idle" =>
                /\ objects'[now.repo].there /\ objects'[now.repo].finalizer
                /\ objects'[now.repo].spec = objects[now.repo].spec
          /\ now.step \in Closing => objects'[now.repo].deleting
      BY <3>2, <3>3
    <3> QED BY <3>1, <3>3, <3>4 DEF ControllerHolds
  <2> QED BY <2>1, <2>2
<1>9. ScannedIsHeld'
  <2> SUFFICES ASSUME NEW k \in Keys \ moved, entry[k].by = Controller,
                      <<Controller, k>> \in scanners
               PROVE  /\ objects'[entry[k].for].there /\ objects'[entry[k].for].finalizer
                      /\ KeyOf[objects'[entry[k].for].spec] = k
    BY DEF ScannedIsHeld
  <2>1. entry[k].for \in Repos
    BY CallersAssumption DEF CacheInv, EntriesAsked, Stored, Callers
  <2> QED BY <2>1 DEF CacheInv, ScannedIsHeld
<1>10. CancelledFirst'
  <2>1. calls'[Controller].step = "release" => c # Controller
    BY <1>1
  <2> QED BY <1>1, <2>1 DEF CacheInv, CancelledFirst
<1> QED BY <1>4, <1>5, <1>6, <1>7, <1>8, <1>9, <1>10 DEF Held

(* Open: each of its steps. *)
LEMMA OpenKeeps ==
  ASSUME CacheInv, NEW c \in Callers, OpenStep(c)
  PROVE  CacheInv'
<1> DEFINE k == Key(c)
           r == calls[c].repo
<1>0. /\ calls \in [Callers -> Calls] /\ calls[c] \in Calls
      /\ entry \in [Keys -> Entries] /\ Controller \in Callers
  BY DEF CacheInv, TypeOK, Calls, Callers
<1>1. ASSUME calls[c].step # "idle"
      PROVE  /\ r \in Repos /\ calls[c].spec \in Specs /\ k \in Keys \cup {None}
             /\ calls[c].step \in HasKey => k \in Keys /\ Dir(c) \in Dirs
  BY <1>1, KeysAssumption DEF CacheInv, CallsAsk, Key, Dir, HasKey
<1>2. CASE Get(c)
  <2>1. r \in Repos /\ calls[c].step = "get" /\ calls[c].answer = NoEntry
    BY <1>1, <1>2 DEF Get, At, CacheInv, CallsAsk
  <2>2. /\ UNCHANGED <<objects, entry, closed, moved, clones, scanners, found, requests,
                        edits, faults>>
        /\ \/ k = None /\ calls' = [calls EXCEPT ![c].step = "failed"]
           \/ /\ k # None /\ Stored(k)
              /\ calls' = [calls EXCEPT ![c].step = "opened", ![c].answer = entry[k]]
           \/ k # None /\ ~ Stored(k) /\ calls' = [calls EXCEPT ![c].step = "stat"]
    BY <1>2 DEF Get
  <2> DEFINE call == calls'[c]
  <2>3. /\ calls' = [calls EXCEPT ![c] = call] /\ call \in Calls
        /\ call.repo = r /\ call.spec = calls[c].spec /\ call.fresh = calls[c].fresh
        /\ \/ k = None /\ call.step = "failed" /\ call.answer = NoEntry
           \/ k \in Keys /\ Stored(k) /\ call.step = "opened" /\ call.answer = entry[k]
           \/ k \in Keys /\ ~ Stored(k) /\ call.step = "stat" /\ call.answer = NoEntry
    <3>1. CASE k = None /\ calls' = [calls EXCEPT ![c].step = "failed"]
      BY <1>0, <2>1, <3>1 DEF Calls, Steps
    <3>2. CASE /\ k # None /\ Stored(k)
               /\ calls' = [calls EXCEPT ![c].step = "opened", ![c].answer = entry[k]]
      <4>1. k \in Keys /\ entry[k] \in Entries
        BY <1>0, <1>1, <2>1, <3>2
      <4> QED BY <1>0, <2>1, <3>2, <4>1 DEF Calls, Steps
    <3>3. CASE k # None /\ ~ Stored(k) /\ calls' = [calls EXCEPT ![c].step = "stat"]
      BY <1>0, <1>1, <2>1, <3>3 DEF Calls, Steps
    <3> QED BY <2>2, <3>1, <3>2, <3>3
  <2> HIDE DEF call
  <2>4. TypeOK'
    BY <1>0, <2>2, <2>3 DEF CacheInv, TypeOK, Calls
  <2>5. k \in Keys /\ ~ Stored(k) => entry[k].by # Controller
    BY CallersAssumption DEF Stored, Callers
  <2>6. /\ calls[c].step # "idle" /\ call.step \notin {"idle", "release"} \cup Closing
        /\ call.answer # NoEntry
           => call.step = "opened" /\ Stored(Key(c)) /\ call.answer = entry[Key(c)]
        /\ call.step \in Opening => entry[Key(c)].by # Controller
        /\ call.step \in HasKey => Key(c) # None
        /\ call.step \notin {"init", "make", "cleanup"}
    BY <2>1, <2>3, <2>5, KeysAssumption DEF Opening, Closing, HasKey
  <2>7. Held'
    BY <2>2, <2>3, <2>6, CallGoesOn
  <2> QED BY <2>4, <2>7 DEF CacheInv, Held
<1>3. CASE Stat(c) \/ InitClone(c) \/ MakeClone(c) \/ FetchClone(c) \/ Cleanup(c)
  <2>1. /\ r \in Repos /\ k \in Keys /\ Dir(c) \in Dirs /\ calls[c].answer = NoEntry
        /\ calls[c].step \in {"stat", "init", "make", "fetch", "cleanup"}
        /\ calls[c].step \in {"init", "make", "cleanup"} => calls[c].cleanup
    BY <1>1, <1>3
    DEF Stat, InitClone, MakeClone, FetchClone, Cleanup, At, CacheInv, CallsAsk, HasKey, Opening
  <2> DEFINE call == calls'[c]
  <2>2. /\ calls' = [calls EXCEPT ![c] = call] /\ call \in Calls /\ call.answer = NoEntry
        /\ call.repo = r /\ call.spec = calls[c].spec /\ call.fresh = calls[c].fresh
        /\ call.step \in {"init", "make", "fetch", "cleanup", "store", "failed"}
        /\ call.step \in Opening => calls[c].step \in Opening
        /\ call.step \in {"init", "make", "cleanup"} => call.cleanup
    <3>1. CASE Stat(c)
      BY <1>0, <2>1, <3>1 DEF Stat, At, Calls, Steps, Opening
    <3>2. CASE InitClone(c)
      BY <1>0, <2>1, <3>2 DEF InitClone, Goto, At, Calls, Steps, Opening
    <3>3. CASE MakeClone(c)
      BY <1>0, <2>1, <3>3 DEF MakeClone, Goto, At, Calls, Steps, Opening
    <3>4. CASE FetchClone(c)
      BY <1>0, <2>1, <3>4 DEF FetchClone, Goto, At, Calls, Steps, Opening
    <3>5. CASE Cleanup(c)
      BY <1>0, <2>1, <3>5 DEF Cleanup, Goto, At, Calls, Steps, Opening
    <3> QED BY <1>3, <3>1, <3>2, <3>3, <3>4, <3>5
  <2> HIDE DEF call
  <2>3. /\ clones' \in Clones /\ faults' \in 0 .. MaxFaults
        /\ UNCHANGED <<objects, entry, closed, moved, scanners, found, requests, edits>>
    <3>1. faults' = faults \/ Fault
      BY <1>3 DEF Stat, InitClone, MakeClone, FetchClone, Cleanup
    <3>2. faults' \in 0 .. MaxFaults
      BY <3>1, RepositoryBoundsAssumption DEF Fault, CacheInv, TypeOK
    <3>3. \/ clones' = clones
          \/ \E left \in {"none", "half", "made"} : clones' = [clones EXCEPT ![Dir(c)] = left]
      <4>1. Remains(Dir(c)) \subseteq {"none", "half", "made"}
        BY <2>1 DEF Remains, CacheInv, TypeOK
      <4> QED BY <1>3, <4>1 DEF Stat, InitClone, MakeClone, FetchClone, Cleanup
    <3>4. clones' \in Clones
      BY <3>3 DEF CacheInv, TypeOK, Clones
    <3> QED BY <1>3, <3>2, <3>4 DEF Stat, InitClone, MakeClone, FetchClone, Cleanup
  <2>4. TypeOK'
    BY <1>0, <2>2, <2>3 DEF CacheInv, TypeOK, Calls, Clones
  <2>5. c = Controller /\ call.step \in Opening => entry[Key(c)].by # Controller
    BY <2>1, <2>2 DEF CacheInv, ControllerHolds
  <2>6. Key(c) # None
    BY <2>1, KeysAssumption
  <2>7. Held'
    BY <2>1, <2>2, <2>3, <2>5, <2>6, CallGoesOn DEF Closing
  <2> QED BY <2>4, <2>7 DEF CacheInv, Held
<1>4. CASE Store(c)
  <2> DEFINE mine == Mine(c)
  <2>1. /\ r \in Repos /\ k \in Keys /\ calls[c].step = "store" /\ calls[c].answer = NoEntry
        /\ calls[c].spec \in Specs /\ KeyOf[calls[c].spec] = k
    BY <1>1, <1>4 DEF Store, At, CacheInv, CallsAsk, Key, HasKey, Opening
  <2>2. /\ mine \in Entries /\ mine # NoEntry /\ mine.by = c /\ mine.for = r
        /\ mine.spec = calls[c].spec
    BY <2>1, CallersAssumption DEF Mine, Entries, NoEntry, Callers
  <2> HIDE DEF mine
  <2>3. scanners' \subseteq scanners \cup {<<c, k>>} /\ scanners \subseteq scanners'
    BY <1>4 DEF Store
  <2>4. UNCHANGED <<objects, closed, moved, clones, found, requests, edits, faults>>
    BY <1>4 DEF Store
  <2>5. c = Controller => entry[k].by # Controller
    BY <2>1 DEF CacheInv, ControllerHolds, Opening
  <2>6. CASE ~ Stored(k)
    <3>1. entry' = [entry EXCEPT ![k] = mine]
          /\ calls' = [calls EXCEPT ![c] = [@ EXCEPT !.step = "opened", !.answer = mine]]
      BY <1>0, <1>4, <2>6 DEF Store, mine
    <3>2. /\ entry'[k] = mine /\ \A i \in Keys \ {k} : entry'[i] = entry[i]
          /\ \A d \in Callers \ {c} : calls'[d] = calls[d]
          /\ calls'[c].step = "opened" /\ calls'[c].answer = mine /\ calls'[c].repo = r
          /\ calls'[c].spec = calls[c].spec /\ calls'[c].fresh = calls[c].fresh
      BY <1>0, <2>1, <3>1 DEF Calls
    <3>3. Key(c)' = k /\ \A d \in Callers \ {c} : Key(d)' = Key(d)
      BY <3>2 DEF Key
    <3>4. TypeOK'
      <4>1. entry' \in [Keys -> Entries]
        BY <1>0, <2>2, <3>1
      <4>2. scanners' \in SUBSET (Callers \X Keys)
        BY <2>1, <2>3 DEF CacheInv, TypeOK
      <4>3. [calls[c] EXCEPT !.step = "opened", !.answer = mine] \in Calls
        BY <1>0, <2>2 DEF Calls, Steps
      <4>4. calls' \in [Callers -> Calls]
        BY <1>0, <3>1, <4>3
      <4> QED BY <2>4, <4>1, <4>2, <4>4 DEF CacheInv, TypeOK, Calls
    <3>5. \A d \in Callers : calls[d].answer # NoEntry => Key(d) # k /\ Key(d) \in Keys
      <4> SUFFICES ASSUME NEW d \in Callers, calls[d].answer # NoEntry
                   PROVE  Key(d) # k /\ Key(d) \in Keys
        OBVIOUS
      <4>1. calls[d].step = "opened" /\ Stored(Key(d)) /\ Key(d) # None /\ calls[d].spec \in Specs
        BY DEF CacheInv, CallsAsk
      <4> QED BY <2>6, <4>1, KeysAssumption DEF Key
    <3>6. OneRepository'
      BY <3>2, <3>3, <3>5 DEF CacheInv, OneRepository
    <3>7. CallsAsk'
      <4> SUFFICES ASSUME NEW d \in Callers
                   PROVE  /\ calls'[d].step # "idle"
                             => calls'[d].repo \in Repos /\ calls'[d].spec \in Specs
                          /\ calls'[d].step \in Opening \cup {"cleanup", "opened", "cancel",
                                                              "release"}
                             => Key(d)' # None
                          /\ calls'[d].answer # NoEntry
                             => calls'[d].step = "opened" /\ Stored(Key(d))'
                          /\ calls'[d].step \in {"init", "make", "cleanup"} => calls'[d].cleanup
                          /\ d \in Requests => calls'[d].step \notin Closing
        BY DEF CallsAsk
      <4>1. CASE d = c
        <5>1. Stored(Key(c))'
          BY <2>1, <2>2, <3>2, <3>3, CallersAssumption DEF Stored, Callers
        <5> QED BY <2>1, <3>2, <3>3, <4>1, <5>1, KeysAssumption DEF Closing
      <4>2. CASE d # c
        <5>1. calls'[d].answer # NoEntry => Stored(Key(d))'
          BY <3>2, <3>3, <3>5, <4>2 DEF Stored, CacheInv, CallsAsk
        <5> QED BY <3>2, <3>3, <4>2, <5>1 DEF CacheInv, CallsAsk
      <4> QED BY <4>1, <4>2
    <3>8. EntriesAsked'
      BY <2>1, <2>2, <3>2 DEF CacheInv, EntriesAsked, Stored
    <3>9. ControllerHolds'
      <4>1. CASE c = Controller
        <5>1. /\ objects[r].there /\ objects[r].finalizer
              /\ k \in moved \cup {None, KeyOf[objects[r].spec]}
              /\ calls[c].fresh => calls[c].spec = objects[r].spec
          BY <2>1, <4>1 DEF CacheInv, ControllerHolds
        <5> QED BY <2>4, <3>2, <3>3, <4>1, <5>1 DEF ControllerHolds, Opening, Closing
      <4>2. CASE c # Controller
        <5>1. calls'[Controller] = calls[Controller] /\ Key(Controller)' = Key(Controller)
          BY <1>0, <3>2, <3>3, <4>2
        <5>2. calls[Controller].step \in Opening => Key(Controller) \in Keys
          BY <1>0, KeysAssumption DEF CacheInv, CallsAsk, Key, Opening
        <5>3. calls[Controller].step \in Opening
              => entry'[Key(Controller)].by # Controller
          BY <2>2, <3>2, <4>2, <5>2 DEF CacheInv, ControllerHolds
        <5> QED BY <2>4, <5>1, <5>3 DEF CacheInv, ControllerHolds
      <4> QED BY <4>1, <4>2
    <3>10. ObjectsHeld'
      BY <2>4 DEF CacheInv, ObjectsHeld
    <3>11. ScannedIsHeld'
      <4> SUFFICES ASSUME NEW i \in Keys \ moved, entry'[i].by = Controller,
                          <<Controller, i>> \in scanners'
                   PROVE  /\ objects[entry'[i].for].there /\ objects[entry'[i].for].finalizer
                          /\ KeyOf[objects[entry'[i].for].spec] = i
        BY <2>4 DEF ScannedIsHeld
      <4>1. CASE i = k
        BY <2>1, <2>2, <3>2, <4>1, KeysAssumption DEF CacheInv, ControllerHolds
      <4>2. CASE i # k
        BY <2>3, <3>2, <4>2 DEF CacheInv, ScannedIsHeld
      <4> QED BY <4>1, <4>2
    <3>12. CancelledFirst'
      <4> SUFFICES ASSUME calls'[Controller].step = "release", calls'[Controller].fresh,
                          NEW i \in Keys \ moved, entry'[i].by = Controller, entry'[i].for = calls'[Controller].repo
                   PROVE  <<Controller, i>> \notin scanners'
        BY <2>4 DEF CancelledFirst
      <4>1. c # Controller /\ calls'[Controller] = calls[Controller]
        BY <1>0, <3>2
      <4>2. i # k
        BY <2>2, <3>2, <4>1
      <4> QED BY <2>3, <3>2, <4>1, <4>2 DEF CacheInv, CancelledFirst
    <3> QED BY <3>4, <3>6, <3>7, <3>8, <3>9, <3>10, <3>11, <3>12 DEF CacheInv
  <2>7. CASE Stored(k)
    <3>1. entry' = entry /\ calls' = [calls EXCEPT ![c].step = "failed"]
      BY <1>4, <2>7 DEF Store, Goto
    <3>2. /\ \A d \in Callers \ {c} : calls'[d] = calls[d]
          /\ calls'[c].step = "failed" /\ calls'[c].answer = NoEntry /\ calls'[c].repo = r
          /\ calls'[c].spec = calls[c].spec /\ calls'[c].fresh = calls[c].fresh
      BY <1>0, <2>1, <3>1 DEF Calls
    <3>3. \A d \in Callers : Key(d)' = Key(d)
      BY <3>2 DEF Key
    <3>4. TypeOK'
      BY <1>0, <2>1, <2>3, <2>4, <3>1 DEF CacheInv, TypeOK, Calls, Steps
    <3>5. \A i : Stored(i)' = Stored(i)
      BY <3>1 DEF Stored
    <3>6. OneRepository' /\ EntriesAsked' /\ ObjectsHeld'
      BY <2>4, <3>1, <3>2, <3>3, <3>5 DEF CacheInv, OneRepository, EntriesAsked, ObjectsHeld
    <3>7. CallsAsk'
      BY <2>1, <3>2, <3>3, <3>5 DEF CacheInv, CallsAsk, Opening, Closing
    <3>8. ControllerHolds'
      <4>1. CASE c = Controller
        <5>1. /\ objects[r].there /\ objects[r].finalizer
              /\ k \in moved \cup {None, KeyOf[objects[r].spec]}
              /\ calls[c].fresh => calls[c].spec = objects[r].spec
          BY <2>1, <4>1 DEF CacheInv, ControllerHolds
        <5> QED BY <2>4, <3>2, <3>3, <4>1, <5>1 DEF ControllerHolds, Opening, Closing
      <4>2. CASE c # Controller
        <5>1. calls'[Controller] = calls[Controller] /\ Key(Controller)' = Key(Controller)
          BY <1>0, <3>2, <3>3, <4>2
        <5> QED BY <2>4, <3>1, <5>1 DEF CacheInv, ControllerHolds
      <4> QED BY <4>1, <4>2
    <3>9. \A i \in Keys : entry[i].by = Controller /\ <<Controller, i>> \in scanners'
                         => <<Controller, i>> \in scanners
      BY <2>3, <2>5
    <3>10. ScannedIsHeld'
      BY <2>4, <3>1, <3>9 DEF CacheInv, ScannedIsHeld
    <3>11. CancelledFirst'
      BY <1>0, <2>4, <3>1, <3>2, <3>9 DEF CacheInv, CancelledFirst
    <3> QED BY <3>4, <3>6, <3>7, <3>8, <3>10, <3>11 DEF CacheInv
  <2> QED BY <2>6, <2>7
<1> QED BY <1>2, <1>3, <1>4 DEF OpenStep

(* The requests and the reconciles, but for the steps of Open and the end.   *)
LEMMA BeginningsKeep ==
  ASSUME CacheInv,
         \/ \E c \in Requests : EndRequest(c) \/ \E r \in Repos : Ask(c, r)
         \/ \E r \in Repos : Reconcile(r) \/ ReconcileDeleted(r)
         \/ Report
  PROVE  CacheInv'
<1>0. /\ calls \in [Callers -> Calls] /\ Controller \in Callers /\ Requests \subseteq Callers
      /\ Controller \notin Requests
  BY CallersAssumption DEF CacheInv, TypeOK, Calls, Callers
<1>1. ASSUME NEW c \in Requests, EndRequest(c)
      PROVE  CacheInv'
  <2>1. /\ calls' = [calls EXCEPT ![c] = Idle] /\ scanners' \subseteq scanners
        /\ UNCHANGED <<objects, entry, closed, moved, clones, found, requests, edits, faults>>
    BY <1>1 DEF EndRequest
  <2>2. TypeOK'
    BY <1>0, <2>1, CallTypes DEF CacheInv, TypeOK, Calls
  <2>3. /\ Idle.answer = NoEntry /\ Idle.step = "idle" /\ Idle \in Calls /\ c # Controller
    BY <1>0, CallTypes DEF Idle
  <2>4. Held'
    BY <1>0, <2>1, <2>3, CallBegins
  <2> QED BY <2>2, <2>4 DEF CacheInv, Held
<1>2. ASSUME NEW c \in Requests, NEW r \in Repos, Ask(c, r)
      PROVE  CacheInv'
  <2>1. /\ calls' = [calls EXCEPT ![c] = Asking(c, r)] /\ requests' \in 0 .. MaxRequests
        /\ objects[r].spec \in Specs
        /\ UNCHANGED <<objects, entry, closed, moved, clones, scanners, found, edits, faults>>
    BY <1>2, RepositoryBoundsAssumption DEF Ask, CacheInv, TypeOK, ObjectsHeld
  <2>2. Asking(c, r) \in Calls
    BY <1>0, <2>1, CallTypes
  <2>3. TypeOK'
    BY <1>0, <2>1, <2>2 DEF CacheInv, TypeOK, Calls
  <2>4. /\ Asking(c, r).answer = NoEntry /\ Asking(c, r).step = "get"
        /\ Asking(c, r).repo = r /\ Asking(c, r).spec = objects[r].spec /\ c # Controller
    BY <1>0 DEF Asking, Idle
  <2>5. Held'
    BY <1>0, <2>1, <2>2, <2>4, CallBegins
  <2> QED BY <2>3, <2>5 DEF CacheInv, Held
<1>3. ASSUME NEW r \in Repos, Reconcile(r)
      PROVE  CacheInv'
  <2> DEFINE call == Asking(Controller, r)
  <2>1. /\ calls' = [calls EXCEPT ![Controller] = call] /\ objects[r].there
        /\ objects[r].spec \in Specs /\ objects' = [objects EXCEPT ![r].finalizer = TRUE]
        /\ UNCHANGED <<entry, closed, moved, clones, scanners, found, requests, edits, faults>>
    BY <1>3 DEF Reconcile, CacheInv, ObjectsHeld
  <2>2. call \in Calls
    BY <1>0, <2>1, CallTypes
  <2>3. TypeOK'
    <3>1. objects[r] \in Objects /\ objects \in [Repos -> Objects]
      BY DEF CacheInv, TypeOK
    <3>2. [objects[r] EXCEPT !.finalizer = TRUE] \in Objects
      BY <3>1 DEF Objects
    <3>3. objects' \in [Repos -> Objects]
      BY <2>1, <3>1, <3>2
    <3> QED BY <1>0, <2>1, <2>2, <3>3 DEF CacheInv, TypeOK, Calls
  <2>4. /\ call.answer = NoEntry /\ call.step = "get" /\ call.repo = r
        /\ call.spec = objects[r].spec
    BY DEF Asking, Idle
  <2>5. /\ objects'[r].there /\ objects'[r].finalizer
        /\ \A q \in Repos :
             /\ objects'[q].deleting = objects[q].deleting
             /\ objects'[q].there = objects[q].there /\ objects'[q].spec = objects[q].spec
             /\ objects[q].finalizer => objects'[q].finalizer
    BY <2>1 DEF CacheInv, TypeOK, Objects
  <2> HIDE DEF call
  <2>6. Held'
    BY <1>0, <2>1, <2>2, <2>4, <2>5, CallBegins
  <2> QED BY <2>3, <2>6 DEF CacheInv, Held
<1>4. ASSUME NEW r \in Repos, ReconcileDeleted(r)
      PROVE  CacheInv'
  <2> DEFINE call == [Asking(Controller, r) EXCEPT !.step = "remove"]
  <2>1. /\ calls' = [calls EXCEPT ![Controller] = call] /\ objects[r].deleting
        /\ UNCHANGED <<objects, entry, closed, moved, clones, scanners, found, requests, edits,
                       faults>>
        /\ objects[r].spec \in Specs
    BY <1>4 DEF ReconcileDeleted, CacheInv, ObjectsHeld
  <2>2. call \in Calls
    BY <1>0, <2>1, CallTypes
  <2>3. /\ call.answer = NoEntry /\ call.step = "remove" /\ call.repo = r
        /\ call.spec = objects[r].spec
    BY DEF Asking, Idle
  <2> HIDE DEF call
  <2>4. TypeOK'
    BY <1>0, <2>1, <2>2 DEF CacheInv, TypeOK, Calls
  <2>5. Held'
    BY <1>0, <2>1, <2>2, <2>3, CallBegins
  <2> QED BY <2>4, <2>5 DEF CacheInv, Held
<1>5. ASSUME Report
      PROVE  CacheInv'
  <2> DEFINE r == calls[Controller].repo
  <2>1. /\ calls' = [calls EXCEPT ![Controller] = Idle] /\ r \in Repos
        /\ UNCHANGED <<entry, closed, moved, clones, scanners, found, requests, edits, faults>>
    BY <1>0, <1>5 DEF Report, CacheInv, CallsAsk
  <2>2. /\ objects' \in [Repos -> Objects]
        /\ \A q \in Repos :
             /\ objects'[q].deleting = objects[q].deleting
             /\ objects'[q].there = objects[q].there /\ objects'[q].spec = objects[q].spec
             /\ objects[q].finalizer => objects'[q].finalizer
    <3>1. objects' = objects
          \/ \E b \in BOOLEAN : objects' = [objects EXCEPT ![r].ready = b]
      BY <1>5 DEF Report, At
    <3>2. CASE objects' = objects
      BY <3>2 DEF CacheInv, TypeOK, Objects
    <3>3. CASE \E b \in BOOLEAN : objects' = [objects EXCEPT ![r].ready = b]
      <4>1. PICK b \in BOOLEAN : objects' = [objects EXCEPT ![r].ready = b]
        BY <3>3
      <4> QED BY <2>1, <4>1 DEF CacheInv, TypeOK, Objects
    <3> QED BY <3>1, <3>2, <3>3
  <2>3. TypeOK'
    BY <1>0, <2>1, <2>2, CallTypes DEF CacheInv, TypeOK, Calls
  <2>4. Idle.answer = NoEntry /\ Idle.step = "idle" /\ Idle \in Calls
    BY CallTypes DEF Idle
  <2>5. Held'
    BY <1>0, <2>1, <2>2, <2>4, CallBegins
  <2> QED BY <2>3, <2>5 DEF CacheInv, Held
<1> QED BY <1>1, <1>2, <1>3, <1>4, <1>5

(* Close: the three steps of a Repository that goes. *)
LEMMA CloseKeeps ==
  ASSUME CacheInv, Remove \/ Cancel \/ Release
  PROVE  CacheInv'
<1> DEFINE r == calls[Controller].repo
           k == Key(Controller)
<1>0. /\ calls \in [Callers -> Calls] /\ Controller \in Callers
      /\ Controller \notin Requests
  BY CallersAssumption DEF CacheInv, TypeOK, Calls, Callers
<1>1. /\ r \in Repos /\ calls[Controller].spec \in Specs /\ k \in Keys \cup {None}
      /\ calls[Controller].step \in Closing /\ calls[Controller].answer = NoEntry
      /\ calls[Controller].step \in {"cancel", "release"} => k # None
      /\ objects[r].there /\ objects[r].finalizer
      /\ k \in moved \cup {None, KeyOf[objects[r].spec]}
      /\ calls[Controller].fresh => calls[Controller].spec = objects[r].spec
  BY <1>0, KeysAssumption
  DEF Remove, Cancel, Release, At, CacheInv, CallsAsk, ControllerHolds, Key, Closing
<1>2. CASE Remove
  <2>1. /\ \/ k = None /\ calls' = [calls EXCEPT ![Controller].step = "failed"]
           \/ k # None /\ calls' = [calls EXCEPT ![Controller].step = "cancel"]
           \/ k # None /\ calls' = [calls EXCEPT ![Controller].step = "failed"]
        /\ UNCHANGED <<objects, entry, closed, moved, scanners, found, requests, edits>>
    BY <1>2 DEF Remove, Goto
  <2> DEFINE call == calls'[Controller]
  <2>2. /\ calls' = [calls EXCEPT ![Controller] = call] /\ call \in Calls
        /\ call.step \in {"cancel", "failed"} /\ call.answer = NoEntry
        /\ call.step = "cancel" => k # None
        /\ call.repo = r /\ call.spec = calls[Controller].spec
        /\ call.fresh = calls[Controller].fresh
    BY <1>0, <1>1, <2>1 DEF Calls, Steps
  <2> HIDE DEF call
  <2>3. clones' \in Clones /\ faults' \in 0 .. MaxFaults
    <3> DEFINE d == Dir(Controller)
    <3>1. \/ faults' = faults /\ clones' = clones
          \/ faults' = faults /\ clones' = [clones EXCEPT ![d] = "none"]
          \/ /\ k # None /\ Fault
             /\ \E left \in Remains(d) : clones' = [clones EXCEPT ![d] = left]
      BY <1>2 DEF Remove
    <3>2. CASE UNCHANGED faults
      BY <3>1, <3>2, RepositoryBoundsAssumption
      DEF CacheInv, TypeOK, Clones, Fault
    <3>3. CASE /\ k # None /\ Fault
               /\ \E left \in Remains(d) : clones' = [clones EXCEPT ![d] = left]
      <4>1. d \in Dirs
        BY <1>1, <3>3, KeysAssumption DEF Dir
      <4>2. Remains(d) \subseteq {"none", "half", "made"}
        BY <4>1 DEF Remains, CacheInv, TypeOK
      <4>3. faults' \in 0 .. MaxFaults
        BY <3>3, RepositoryBoundsAssumption DEF Fault, CacheInv, TypeOK
      <4> QED BY <3>3, <4>2, <4>3 DEF CacheInv, TypeOK, Clones
    <3> QED BY <3>1, <3>2, <3>3
  <2>4. TypeOK'
    BY <1>0, <2>1, <2>2, <2>3 DEF CacheInv, TypeOK, Calls, Clones
  <2>5. /\ calls[Controller].step # "idle" /\ call.step \notin {"idle", "release"}
        /\ call.step \notin Opening \cup {"init", "make", "cleanup"}
        /\ call.step \in HasKey => Key(Controller) # None
    BY <1>1, <2>2 DEF Opening, Closing, HasKey
  <2>6. Held'
    BY <1>0, <1>1, <2>1, <2>2, <2>5, CallGoesOn
  <2> QED BY <2>4, <2>6 DEF CacheInv, Held
<1>3. CASE Cancel
  <2>1. /\ scanners' = scanners \ {<<entry[k].by, k>>} /\ closed' \in SUBSET Keys
        /\ calls' = [calls EXCEPT ![Controller] = [calls[Controller] EXCEPT !.step = "release"]]
        /\ UNCHANGED <<objects, entry, moved, clones, found, requests, edits, faults>>
        /\ calls[Controller].step = "cancel" /\ k \in Keys
    BY <1>0, <1>1, <1>3 DEF Cancel, Goto, At, CacheInv, TypeOK
  <2>2. /\ \A d \in Callers \ {Controller} : calls'[d] = calls[d]
        /\ calls'[Controller].step = "release" /\ calls'[Controller].answer = NoEntry
        /\ calls'[Controller].repo = r /\ calls'[Controller].spec = calls[Controller].spec
        /\ calls'[Controller].fresh = calls[Controller].fresh
        /\ [calls[Controller] EXCEPT !.step = "release"] \in Calls
    BY <1>0, <1>1, <2>1 DEF Calls, Steps
  <2>3. \A d \in Callers : Key(d)' = Key(d)
    BY <2>2 DEF Key
  <2>4. TypeOK'
    BY <1>0, <2>1, <2>2 DEF CacheInv, TypeOK, Calls
  <2>5. \A i : Stored(i)' = Stored(i)
    BY <2>1 DEF Stored
  <2>6. OneRepository' /\ EntriesAsked' /\ ObjectsHeld'
    BY <2>1, <2>2, <2>3, <2>5 DEF CacheInv, OneRepository, EntriesAsked, ObjectsHeld
  <2>7. CallsAsk'
    BY <1>0, <1>1, <2>1, <2>2, <2>3, <2>5 DEF CacheInv, CallsAsk
  <2>8. ControllerHolds'
    BY <1>0, <1>1, <2>1, <2>2, <2>3 DEF CacheInv, ControllerHolds, Opening, Closing
  <2>9. ScannedIsHeld'
    BY <2>1 DEF CacheInv, ScannedIsHeld
  <2>10. CancelledFirst'
    <3> SUFFICES ASSUME calls[Controller].fresh, NEW i \in Keys \ moved,
                        entry[i].by = Controller, entry[i].for = r,
                        <<Controller, i>> \in scanners'
                 PROVE  FALSE
      BY <2>1, <2>2 DEF CancelledFirst
    <3>1. <<Controller, i>> \in scanners
      BY <2>1
    <3>2. KeyOf[objects[r].spec] = i
      BY <3>1 DEF CacheInv, ScannedIsHeld
    <3>3. KeyOf[objects[r].spec] = k
      BY <1>1 DEF Key
    <3>4. i = k
      BY <3>2, <3>3
    <3> QED BY <2>1, <3>4
  <2> QED BY <2>4, <2>6, <2>7, <2>8, <2>9, <2>10 DEF CacheInv
<1>4. CASE Release
  <2>1. /\ calls' = [calls EXCEPT ![Controller] = Idle]
        /\ objects' = IF calls[Controller].fresh THEN [objects EXCEPT ![r] = Absent] ELSE objects
        /\ UNCHANGED <<entry, closed, moved, clones, scanners, found, requests, edits, faults>>
        /\ calls[Controller].step = "release"
    BY <1>4 DEF Release, At
  <2>2. /\ \A d \in Callers \ {Controller} : calls'[d] = calls[d]
        /\ calls'[Controller] = Idle /\ Idle.step = "idle" /\ Idle.answer = NoEntry
        /\ \A q \in Repos \ {r} : objects'[q] = objects[q]
        /\ objects'[r] = IF calls[Controller].fresh THEN Absent ELSE objects[r]
        /\ ~ Absent.deleting /\ ~ Absent.there
    BY <1>0, <1>1, <2>1 DEF CacheInv, TypeOK, Idle, Absent
  <2>3. \A d \in Callers \ {Controller} : Key(d)' = Key(d)
    BY <2>2 DEF Key
  <2>4. TypeOK'
    BY <1>0, <1>1, <2>1, CallTypes DEF CacheInv, TypeOK, Calls
  <2>5. \A i : Stored(i)' = Stored(i)
    BY <2>1 DEF Stored
  <2>6. OneRepository' /\ EntriesAsked'
    BY <2>1, <2>2, <2>3, <2>5 DEF CacheInv, OneRepository, EntriesAsked
  <2>7. CallsAsk'
    BY <1>0, <2>2, <2>3, <2>5 DEF CacheInv, CallsAsk, Opening, Closing
  <2>8. ControllerHolds'
    BY <2>2 DEF ControllerHolds, Opening, Closing
  <2>9. ObjectsHeld'
    BY <2>2 DEF CacheInv, ObjectsHeld
  <2>10. ScannedIsHeld'
    <3> SUFFICES ASSUME NEW i \in Keys \ moved, entry[i].by = Controller,
                        <<Controller, i>> \in scanners
                 PROVE  /\ objects'[entry[i].for].there /\ objects'[entry[i].for].finalizer
                        /\ KeyOf[objects'[entry[i].for].spec] = i
      BY <2>1 DEF ScannedIsHeld
    <3>1. entry[i].for \in Repos /\ (calls[Controller].fresh => entry[i].for # r)
      BY <2>1, CallersAssumption
      DEF CacheInv, EntriesAsked, Stored, Callers, CancelledFirst
    <3> QED BY <2>2, <3>1 DEF CacheInv, ScannedIsHeld
  <2>11. CancelledFirst'
    BY <2>2 DEF CancelledFirst
  <2> QED BY <2>4, <2>6, <2>7, <2>8, <2>9, <2>10, <2>11 DEF CacheInv
<1> QED BY <1>2, <1>3, <1>4

(* The scanners, the users and a restart. *)
LEMMA OthersKeep ==
  ASSUME CacheInv,
         \/ \E s \in Callers \X Keys : Scan(s)
         \/ \E r \in Repos : UserCreate(r) \/ UserChange(r) \/ UserDelete(r)
         \/ Restart
         \/ UNCHANGED vars
  PROVE  CacheInv'
<1>0. /\ calls \in [Callers -> Calls] /\ Controller \in Callers
  BY DEF CacheInv, TypeOK, Calls, Callers
<1>1. ASSUME UNCHANGED <<objects, entry, moved, scanners, calls>>
      PROVE  Held'
  <2>1. \A d : Key(d)' = Key(d) /\ Stored(d)' = Stored(d)
    BY <1>1 DEF Key, Stored
  <2>2. OneRepository' /\ CallsAsk' /\ EntriesAsked'
    BY <1>1, <2>1 DEF CacheInv, OneRepository, CallsAsk, EntriesAsked
  <2>3. ControllerHolds' /\ ObjectsHeld' /\ ScannedIsHeld' /\ CancelledFirst'
    BY <1>1, <2>1 DEF CacheInv, ControllerHolds, ObjectsHeld, ScannedIsHeld, CancelledFirst
  <2> QED BY <2>2, <2>3 DEF Held
<1>2. ASSUME NEW s \in Callers \X Keys, Scan(s)
      PROVE  CacheInv'
  <2>1. UNCHANGED <<objects, entry, moved, scanners, calls>>
    BY <1>2 DEF Scan
  <2>2. TypeOK'
    BY <1>2 DEF Scan, CacheInv, TypeOK
  <2> QED BY <1>1, <2>1, <2>2 DEF CacheInv, Held
<1>3. CASE UNCHANGED vars
  <2>1. UNCHANGED <<objects, entry, moved, scanners, calls>> /\ TypeOK'
    BY <1>3 DEF vars, CacheInv, TypeOK
  <2> QED BY <1>1, <2>1 DEF CacheInv, Held
<1>4. CASE Restart
  <2>1. /\ calls' = [c \in Callers |-> Idle] /\ entry' = [i \in Keys |-> NoEntry]
        /\ scanners' = {} /\ clones' \in Clones /\ faults' \in 0 .. MaxFaults
        /\ closed' = {} /\ moved' = {} /\ UNCHANGED <<objects, found, requests, edits>>
    BY <1>4, RepositoryBoundsAssumption DEF Restart, Fault, CacheInv, TypeOK, Clones
  <2>2. /\ \A c \in Callers : calls'[c].step = "idle" /\ calls'[c].answer = NoEntry
        /\ \A i \in Keys : ~ Stored(i)'
    BY <2>1 DEF Idle, NoEntry, Stored
  <2>3. TypeOK'
    BY <2>1, CallTypes DEF CacheInv, TypeOK, Calls, Clones
  <2>4. OneRepository' /\ CallsAsk' /\ EntriesAsked'
    BY <2>2 DEF OneRepository, CallsAsk, EntriesAsked, Opening, Closing
  <2>5. ControllerHolds' /\ ObjectsHeld' /\ ScannedIsHeld' /\ CancelledFirst'
    BY <1>0, <2>1, <2>2
    DEF CacheInv, ControllerHolds, ObjectsHeld, ScannedIsHeld, CancelledFirst, Opening, Closing
  <2> QED BY <2>3, <2>4, <2>5 DEF CacheInv
<1>5. ASSUME NEW r \in Repos, UserCreate(r)
      PROVE  CacheInv'
  <2>0. PICK spec \in Specs : objects' = [objects EXCEPT ![r] = New(spec)]
    BY <1>5 DEF UserCreate
  <2>1. /\ ~ objects[r].there /\ edits' \in 0 .. MaxEdits
        /\ UNCHANGED <<entry, closed, moved, clones, scanners, calls, found, requests, faults>>
    BY <1>5, RepositoryBoundsAssumption DEF UserCreate, CacheInv, TypeOK
  <2>2. /\ \A q \in Repos \ {r} : objects'[q] = objects[q]
        /\ objects'[r] = New(spec) /\ ~ New(spec).deleting /\ New(spec).spec = spec
    BY <2>0 DEF CacheInv, TypeOK, New, Absent
  <2>3. TypeOK'
    BY <2>0, <2>1, CallTypes DEF CacheInv, TypeOK
  <2>4. \A d : Key(d)' = Key(d) /\ Stored(d)' = Stored(d)
    BY <2>1 DEF Key, Stored
  <2>5. OneRepository' /\ CallsAsk' /\ EntriesAsked' /\ CancelledFirst'
    BY <2>1, <2>4 DEF CacheInv, OneRepository, CallsAsk, EntriesAsked, CancelledFirst
  <2>6. ObjectsHeld'
    BY <2>2 DEF CacheInv, ObjectsHeld
  <2>7. ControllerHolds'
    <3>1. calls[Controller].step # "idle"
          => calls[Controller].repo \in Repos /\ calls[Controller].repo # r
      BY <1>0, <2>1 DEF CacheInv, ControllerHolds, CallsAsk
    <3> QED BY <2>1, <2>2, <2>4, <3>1 DEF CacheInv, ControllerHolds, Closing
  <2>8. ScannedIsHeld'
    <3> SUFFICES ASSUME NEW i \in Keys \ moved, entry[i].by = Controller,
                        <<Controller, i>> \in scanners
                 PROVE  /\ objects'[entry[i].for].there /\ objects'[entry[i].for].finalizer
                        /\ KeyOf[objects'[entry[i].for].spec] = i
      BY <2>1 DEF ScannedIsHeld
    <3>1. entry[i].for \in Repos
      BY CallersAssumption DEF CacheInv, EntriesAsked, Stored, Callers
    <3> QED BY <2>1, <2>2, <3>1 DEF CacheInv, ScannedIsHeld
  <2> QED BY <2>3, <2>5, <2>6, <2>7, <2>8 DEF CacheInv
<1>6. ASSUME NEW r \in Repos, UserDelete(r)
      PROVE  CacheInv'
  <2>1. /\ objects' = [objects EXCEPT ![r] = IF @.finalizer THEN [@ EXCEPT !.deleting = TRUE]
                                                           ELSE Absent]
        /\ calls' = [c \in Callers |-> IF calls[c].repo = r
                                       THEN [calls[c] EXCEPT !.fresh = FALSE] ELSE calls[c]]
        /\ objects[r].there
        /\ UNCHANGED <<entry, closed, moved, clones, scanners, found, requests, edits, faults>>
    BY <1>6 DEF UserDelete, Stale
  <2>2. \A c \in Callers :
          /\ calls'[c].step = calls[c].step /\ calls'[c].repo = calls[c].repo
          /\ calls'[c].answer = calls[c].answer /\ calls'[c].cleanup = calls[c].cleanup
          /\ calls'[c].spec = calls[c].spec /\ calls'[c] \in Calls
          /\ calls'[c].fresh => calls[c].fresh
    BY <1>0, <2>1 DEF Calls
  <2>3. \A q \in Repos :
          /\ objects'[q] \in Objects
          /\ objects[q].there /\ objects[q].finalizer
             => /\ objects'[q].there /\ objects'[q].finalizer
                /\ objects'[q].spec = objects[q].spec
          /\ objects'[q].there => objects'[q].spec \in Specs
          /\ objects[q].deleting => objects'[q].deleting
          /\ objects'[q].deleting => objects'[q].there /\ objects'[q].finalizer
    <3> SUFFICES ASSUME NEW q \in Repos
                 PROVE  /\ objects'[q] \in Objects
                        /\ objects[q].there /\ objects[q].finalizer
                           => /\ objects'[q].there /\ objects'[q].finalizer
                              /\ objects'[q].spec = objects[q].spec
                        /\ objects'[q].there => objects'[q].spec \in Specs
                        /\ objects[q].deleting => objects'[q].deleting
                        /\ objects'[q].deleting => objects'[q].there /\ objects'[q].finalizer
      OBVIOUS
    <3>1. /\ objects[q].deleting => objects[q].there /\ objects[q].finalizer
          /\ objects[q].there => objects[q].spec \in Specs
      BY DEF CacheInv, ObjectsHeld
    <3>2. CASE q # r
      BY <2>1, <3>1, <3>2 DEF CacheInv, TypeOK
    <3>3. CASE q = r /\ objects[r].finalizer
      <4>1. objects'[q] = [objects[q] EXCEPT !.deleting = TRUE]
        BY <2>1, <3>3 DEF CacheInv, TypeOK
      <4>2. objects[q] \in Objects
        BY DEF CacheInv, TypeOK
      <4>3. /\ objects'[q] \in Objects /\ objects'[q].deleting
            /\ objects'[q].there = objects[q].there /\ objects'[q].spec = objects[q].spec
            /\ objects'[q].finalizer = objects[q].finalizer
        BY <4>1, <4>2 DEF Objects
      <4> QED BY <2>1, <3>1, <3>3, <4>3
    <3>4. CASE q = r /\ ~ objects[r].finalizer
      <4>1. objects'[q] = Absent
        BY <2>1, <3>4 DEF CacheInv, TypeOK
      <4> QED BY <3>1, <3>4, <4>1, CallTypes DEF Absent
    <3> QED BY <3>2, <3>3, <3>4
  <2>4. \A d \in Callers : Key(d)' = Key(d)
    BY <2>2 DEF Key
  <2>5. \A d : Stored(d)' = Stored(d)
    BY <2>1 DEF Stored
  <2>6. TypeOK'
    <3>1. objects' \in [Repos -> Objects]
      <4>1. objects' = [q \in Repos |-> objects'[q]]
        BY <2>1 DEF CacheInv, TypeOK
      <4> QED BY <2>3, <4>1
    <3>2. calls' \in [Callers -> Calls]
      BY <2>1, <2>2
    <3> QED BY <2>1, <3>1, <3>2 DEF CacheInv, TypeOK, Calls
  <2>7. OneRepository'
    BY <2>1, <2>2, <2>4 DEF CacheInv, OneRepository
  <2>8. CallsAsk'
    BY <2>2, <2>4, <2>5 DEF CacheInv, CallsAsk
  <2>9. EntriesAsked' /\ ObjectsHeld'
    BY <2>1, <2>3, <2>5 DEF CacheInv, EntriesAsked, ObjectsHeld
  <2>10. ControllerHolds'
    <3>1. calls[Controller].step # "idle" => calls[Controller].repo \in Repos
      BY <1>0 DEF CacheInv, CallsAsk
    <3>2. calls[Controller].step \in Closing => calls[Controller].step # "idle"
      BY DEF Closing
    <3>3. /\ calls'[Controller].step = calls[Controller].step
          /\ calls'[Controller].repo = calls[Controller].repo
          /\ calls'[Controller].spec = calls[Controller].spec
          /\ calls'[Controller].fresh => calls[Controller].fresh
          /\ Key(Controller)' = Key(Controller)
      BY <1>0, <2>2, <2>4
    <3> DEFINE now == calls[Controller]
    <3>4. /\ now.step # "idle" =>
                /\ objects[now.repo].there /\ objects[now.repo].finalizer
                /\ Key(Controller) \in moved \cup {None, KeyOf[objects[now.repo].spec]}
                /\ now.fresh => now.spec = objects[now.repo].spec
          /\ now.step \in Closing => objects[now.repo].deleting
          /\ now.step \in Opening => entry[Key(Controller)].by # Controller
      BY DEF CacheInv, ControllerHolds
    <3>5. /\ now.step # "idle" =>
                /\ objects'[now.repo].there /\ objects'[now.repo].finalizer
                /\ objects'[now.repo].spec = objects[now.repo].spec
          /\ now.step \in Closing => objects'[now.repo].deleting
      BY <2>3, <3>1, <3>2, <3>4
    <3> QED BY <2>1, <3>3, <3>4, <3>5 DEF ControllerHolds
  <2>11. ScannedIsHeld'
    <3> SUFFICES ASSUME NEW i \in Keys \ moved, entry[i].by = Controller,
                        <<Controller, i>> \in scanners
                 PROVE  /\ objects'[entry[i].for].there /\ objects'[entry[i].for].finalizer
                        /\ KeyOf[objects'[entry[i].for].spec] = i
      BY <2>1 DEF ScannedIsHeld
    <3>1. entry[i].for \in Repos
      BY CallersAssumption DEF CacheInv, EntriesAsked, Stored, Callers
    <3> QED BY <2>3, <3>1 DEF CacheInv, ScannedIsHeld
  <2>12. CancelledFirst'
    BY <1>0, <2>1, <2>2 DEF CacheInv, CancelledFirst
  <2> QED BY <2>6, <2>7, <2>8, <2>9, <2>10, <2>11, <2>12 DEF CacheInv
<1>7. ASSUME NEW r \in Repos, UserChange(r)
      PROVE  CacheInv'
  <2> DEFINE old == objects[r].spec
  <2>1. PICK spec \in Specs \ {old} :
          /\ objects' = [objects EXCEPT ![r].spec = spec]
          /\ moved' = moved \cup ({KeyOf[old]} \ {KeyOf[spec], None})
    BY <1>7 DEF UserChange
  <2>2. /\ calls' = [c \in Callers |-> IF calls[c].repo = r
                                       THEN [calls[c] EXCEPT !.fresh = FALSE] ELSE calls[c]]
        /\ objects[r].there /\ old \in Specs /\ edits' \in 0 .. MaxEdits
        /\ UNCHANGED <<entry, closed, clones, scanners, found, requests, faults>>
    BY <1>7, RepositoryBoundsAssumption DEF UserChange, Stale, CacheInv, TypeOK, ObjectsHeld
  <2>3. \A c \in Callers :
          /\ calls'[c].step = calls[c].step /\ calls'[c].repo = calls[c].repo
          /\ calls'[c].answer = calls[c].answer /\ calls'[c].cleanup = calls[c].cleanup
          /\ calls'[c].spec = calls[c].spec /\ calls'[c] \in Calls
          /\ calls'[c].fresh => calls[c].fresh /\ calls[c].repo # r
    BY <1>0, <2>2 DEF Calls
  <2>4. /\ \A q \in Repos \ {r} : objects'[q] = objects[q]
        /\ objects'[r].spec = spec /\ objects'[r].there = objects[r].there
        /\ objects'[r].finalizer = objects[r].finalizer
        /\ objects'[r].deleting = objects[r].deleting
    BY <2>1 DEF CacheInv, TypeOK, Objects
  <2>5. \A d \in Callers : Key(d)' = Key(d)
    BY <2>3 DEF Key
  <2>6. \A d : Stored(d)' = Stored(d)
    BY <2>2 DEF Stored
  <2>7. TypeOK'
    <3>1. objects' \in [Repos -> Objects]
      BY <2>1 DEF CacheInv, TypeOK, Objects
    <3>2. moved' \in SUBSET Keys
      BY <2>1, <2>2, KeysAssumption DEF CacheInv, TypeOK
    <3>3. calls' \in [Callers -> Calls]
      BY <2>2, <2>3
    <3> QED BY <2>2, <3>1, <3>2, <3>3 DEF CacheInv, TypeOK, Calls
  <2>8. OneRepository' /\ CallsAsk' /\ EntriesAsked'
    <3>1. OneRepository'
      BY <2>2, <2>3, <2>5 DEF CacheInv, OneRepository
    <3>2. CallsAsk'
      BY <2>3, <2>5, <2>6 DEF CacheInv, CallsAsk
    <3> QED BY <2>2, <2>6, <3>1, <3>2 DEF CacheInv, EntriesAsked
  <2>9. ObjectsHeld'
    BY <2>1, <2>4 DEF CacheInv, ObjectsHeld
  <2>10. ControllerHolds'
    <3> DEFINE now == calls[Controller]
    <3>1. now.step # "idle" => now.repo \in Repos
      BY <1>0 DEF CacheInv, CallsAsk
    <3>2. now.step \in Closing => now.step # "idle"
      BY DEF Closing
    <3>3. /\ calls'[Controller].step = now.step /\ calls'[Controller].repo = now.repo
          /\ calls'[Controller].spec = now.spec /\ Key(Controller)' = Key(Controller)
          /\ calls'[Controller].fresh => now.fresh /\ now.repo # r
      BY <1>0, <2>3, <2>5
    <3>4. /\ now.step # "idle" =>
                /\ objects[now.repo].there /\ objects[now.repo].finalizer
                /\ Key(Controller) \in moved \cup {None, KeyOf[objects[now.repo].spec]}
                /\ now.fresh => now.spec = objects[now.repo].spec
          /\ now.step \in Closing => objects[now.repo].deleting
          /\ now.step \in Opening => entry[Key(Controller)].by # Controller
      BY DEF CacheInv, ControllerHolds
    <3>5. now.step # "idle"
          => /\ objects'[now.repo].there /\ objects'[now.repo].finalizer
             /\ Key(Controller) \in moved' \cup {None, KeyOf[objects'[now.repo].spec]}
             /\ now.repo # r => objects'[now.repo].spec = objects[now.repo].spec
      BY <2>1, <2>4, <3>1, <3>4
    <3>6. now.step \in Closing => objects'[now.repo].deleting
      BY <2>4, <3>1, <3>2, <3>4
    <3> HIDE DEF now
    <3> QED BY <2>2, <3>3, <3>4, <3>5, <3>6 DEF ControllerHolds
  <2>11. ScannedIsHeld'
    <3> SUFFICES ASSUME NEW i \in Keys \ moved', entry[i].by = Controller,
                        <<Controller, i>> \in scanners
                 PROVE  /\ objects'[entry[i].for].there /\ objects'[entry[i].for].finalizer
                        /\ KeyOf[objects'[entry[i].for].spec] = i
      BY <2>2 DEF ScannedIsHeld
    <3>1. entry[i].for \in Repos
      BY CallersAssumption DEF CacheInv, EntriesAsked, Stored, Callers
    <3>2. /\ objects[entry[i].for].there /\ objects[entry[i].for].finalizer
          /\ KeyOf[objects[entry[i].for].spec] = i
      BY <2>1 DEF CacheInv, ScannedIsHeld
    <3> QED BY <2>1, <2>4, <3>1, <3>2, KeysAssumption
  <2>12. CancelledFirst'
    BY <1>0, <2>1, <2>2, <2>3 DEF CacheInv, CancelledFirst
  <2> QED BY <2>7, <2>8, <2>9, <2>10, <2>11, <2>12 DEF CacheInv
<1> QED BY <1>2, <1>3, <1>4, <1>5, <1>6, <1>7

LEMMA CacheInit == Init => CacheInv
<1> SUFFICES ASSUME Init PROVE CacheInv
  OBVIOUS
<1>1. /\ \A c \in Callers : calls[c].step = "idle" /\ calls[c].answer = NoEntry
      /\ \A k \in Keys : ~ Stored(k)
      /\ \A r \in Repos : objects[r] = Absent
      /\ scanners = {} /\ Controller \in Callers
  BY DEF Init, Idle, NoEntry, Stored, Callers
<1>2. TypeOK
  <2>1. /\ entry \in [Keys -> Entries] /\ calls \in [Callers -> Calls]
        /\ objects \in [Repos -> Objects]
    BY CallTypes DEF Init
  <2>2. /\ requests \in 0 .. MaxRequests /\ edits \in 0 .. MaxEdits
        /\ faults \in 0 .. MaxFaults
    BY RepositoryBoundsAssumption DEF Init
  <2> QED BY <2>1, <2>2 DEF Init, TypeOK, Calls
<1>3. OneRepository /\ CallsAsk /\ EntriesAsked
  BY <1>1 DEF OneRepository, CallsAsk, EntriesAsked, Opening, Closing
<1>4. ControllerHolds /\ ObjectsHeld /\ ScannedIsHeld /\ CancelledFirst
  BY <1>1
  DEF ControllerHolds, ObjectsHeld, ScannedIsHeld, CancelledFirst, Opening, Closing, Absent
<1> QED BY <1>2, <1>3, <1>4 DEF CacheInv

LEMMA CacheStep == CacheInv /\ [Next]_vars => CacheInv'
<1> SUFFICES ASSUME CacheInv, [Next]_vars PROVE CacheInv'
  OBVIOUS
<1>1. ASSUME NEW c \in Callers, EndRequest(c) \/ \E r \in Repos : Ask(c, r)
      PROVE  c \in Requests
  BY <1>1 DEF EndRequest, Ask
<1>2. CASE \E c \in Callers : OpenStep(c)
  <2>1. PICK c \in Callers : OpenStep(c)
    BY <1>2
  <2> QED BY <2>1, OpenKeeps
<1>3. CASE \E c \in Callers : EndRequest(c) \/ \E r \in Repos : Ask(c, r)
  BY <1>1, <1>3, BeginningsKeep
<1>4. CASE ControllerNext
  BY <1>4, BeginningsKeep, CloseKeeps DEF ControllerNext
<1>5. CASE \/ \E s \in Callers \X Keys : Scan(s)
           \/ \E r \in Repos : UserCreate(r) \/ UserChange(r) \/ UserDelete(r)
           \/ Restart \/ UNCHANGED vars
  BY <1>5, OthersKeep
<1> QED BY <1>2, <1>3, <1>4, <1>5 DEF Next

(* The inductive invariant of the store of repositories and its controller,  *)
(* in whatever order Open, Close and the requests take their steps.          *)
THEOREM CacheHolds == Spec => []CacheInv
<1>1. Init => CacheInv
  BY CacheInit
<1>2. CacheInv /\ [Next]_vars => CacheInv'
  BY CacheStep
<1> QED BY <1>1, <1>2, PTL DEF Spec

(* All who hold a repository of one key hold the one that is stored: Get and *)
(* Create of Cache.Open are two steps with a clone in between.               *)
THEOREM CacheOneRepository == Spec => []OneRepository
<1>1. CacheInv => OneRepository
  BY DEF CacheInv
<1> QED BY <1>1, CacheHolds, PTL

(* The scanner of a repository that the controller opened and stored is      *)
(* stopped by Close before the finalizer goes, and with it the Repository,   *)
(* unless users have given the Repository another key meanwhile.             *)
THEOREM CacheScannerStops == Spec => []ScannerStops
<1>1. CacheInv => ScannerStops
  BY DEF CacheInv, ScannedIsHeld, ScannerStops
<1> QED BY <1>1, CacheHolds, PTL

(* A clone in use goes with a Close, a restart, or an Open that looked for   *)
(* the directory before it was there (OpenRepository's deferred clean-up).   *)
THEOREM CacheClonesAreKept == Spec => ClonesAreKept
<1> DEFINE Excused(k) ==
       \/ At(Controller, "remove") /\ Key(Controller) # None /\ Dir(Controller) = DirOf[k]
       \/ entry' = [i \in Keys |-> NoEntry]
       \/ \E c \in Callers : At(c, "cleanup") /\ calls[c].cleanup /\ Dir(c) = DirOf[k]
<1> DEFINE Kept == \A k \in Keys :
       Stored(k) /\ clones[DirOf[k]] = "made" /\ clones'[DirOf[k]] # "made" => Excused(k)
<1>1. CacheInv /\ [Next]_vars => Kept
  <2> SUFFICES ASSUME CacheInv, [Next]_vars, NEW k \in Keys,
                      clones[DirOf[k]] = "made", clones'[DirOf[k]] # "made"
               PROVE  Excused(k)
    OBVIOUS
  <2>0. clones \in Clones /\ DirOf[k] \in Dirs
    BY KeysAssumption DEF CacheInv, TypeOK, Clones
  <2>1. CASE \E c \in Callers : OpenStep(c)
    <3>1. PICK c \in Callers : OpenStep(c)
      BY <2>1
    <3>2. ~ (Get(c) \/ Stat(c) \/ FetchClone(c) \/ Store(c))
      BY DEF Get, Stat, FetchClone, Store
    <3>3. ~ (InitClone(c) \/ MakeClone(c))
      <4>1. InitClone(c) => \/ /\ clones[Dir(c)] # "made"
                               /\ clones' = [clones EXCEPT ![Dir(c)] = "half"]
                            \/ UNCHANGED clones
        BY DEF InitClone
      <4>2. MakeClone(c) => clones' = [clones EXCEPT ![Dir(c)] = "made"] \/ UNCHANGED clones
        BY DEF MakeClone
      <4> QED BY <2>0, <4>1, <4>2 DEF Clones
    <3>4. Cleanup(c)
      BY <3>1, <3>2, <3>3 DEF OpenStep
    <3>5. At(c, "cleanup") /\ calls[c].cleanup /\ Dir(c) = DirOf[k]
      <4>1. At(c, "cleanup") /\ \E left : clones' = [clones EXCEPT ![Dir(c)] = left]
        BY <3>4 DEF Cleanup
      <4> QED BY <2>0, <4>1 DEF At, CacheInv, CallsAsk, Clones
    <3> QED BY <3>5
  <2>2. CASE Remove
    <3>1. /\ At(Controller, "remove") /\ Key(Controller) # None
          /\ \E left : clones' = [clones EXCEPT ![Dir(Controller)] = left]
      BY <2>2 DEF Remove
    <3> QED BY <2>0, <3>1 DEF Clones
  <2>3. CASE Restart
    BY <2>3 DEF Restart
  <2>4. ~ UNCHANGED clones
    OBVIOUS
  <2>5. ControllerNext => Remove
    BY <2>4 DEF ControllerNext, Reconcile, ReconcileDeleted, Report, Cancel, Release
  <2>6. ~ \E c \in Callers : EndRequest(c) \/ \E r \in Repos : Ask(c, r)
    BY <2>4 DEF EndRequest, Ask
  <2>7. ~ (\/ \E s \in Callers \X Keys : Scan(s)
           \/ \E r \in Repos : UserCreate(r) \/ UserChange(r) \/ UserDelete(r)
           \/ UNCHANGED vars)
    BY <2>4 DEF Scan, UserCreate, UserChange, UserDelete, vars
  <2> QED BY <2>1, <2>2, <2>3, <2>5, <2>6, <2>7 DEF Next
<1> QED BY <1>1, CacheHolds, PTL DEF Spec, ClonesAreKept
=============================================================================
