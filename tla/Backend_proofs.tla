-------------------------- MODULE Backend_proofs ----------------------------
(***************************************************************************)
(* The parts of the backend that keep their word over a crash, a kill or a *)
(* step that fails: the recovery of sessions, the settings, the            *)
(* installation of FFmpeg and the main window.                             *)
(***************************************************************************)
EXTENDS SessionRecovery, SettingsSave, FfmpegInstall, WindowLifecycle, SequenceTheorems,
        TLAPS

(***************************************************************************)
(* Recovery.  What was recorded survives, for any names, any number of     *)
(* sessions, crashes and foreign files, and wherever recovery stands while *)
(* the replacement reserves, records or finishes.                          *)
(***************************************************************************)

States == {"off", "recovering", "found", "emptied", "moved", "ready", "named", "created",
           "marked", "recording", "over"}
Recovery == {"recovering", "found", "emptied", "moved"}

RecorderState == [at : States, id : Nat, try : 1 .. Len(Attempts), name : Names,
                  seen : SUBSET Names, empty : BOOLEAN, dest : Names]

Foreign == MaxSessions + 1

Typed ==
    /\ temp \in [Names -> [id : Nat, footage : BOOLEAN]]
    /\ final \in [Names -> Nat]
    /\ marked \in SUBSET Names
    /\ recorder \in [Recorders -> RecorderState]
    /\ used \in [sessions : 0 .. MaxSessions, crashes : Nat, foreign : Nat]
    /\ misread \in BOOLEAN

At(r)     == recorder[r].at
Owns(r)   == At(r) \in {"created", "marked", "recording"}
Ids       == 1 .. used.sessions
Here(r, n) == recorder[r].name = n

\* Recovery is the launched recorder's, which is there before its replacement.
Roles ==
    /\ At(Replacement) \notin Recovery
    /\ At(Launched) = "off" => At(Replacement) = "off"

\* Every session has a number of its own, and footage says which have been written to.
Numbered ==
    /\ old \in SUBSET Ids /\ wrote \in SUBSET Ids
    /\ \A n \in Names : /\ temp[n].id \in Ids \cup {0}
                        /\ temp[n].footage <=> temp[n].id \in wrote
                        /\ final[n] \in Ids \cup {0, Foreign}
    /\ \A r \in Recorders : Owns(r) =>
          /\ recorder[r].id \in Ids \ old
          /\ At(r) # "recording" => recorder[r].id \notin wrote
          /\ \A n \in Names : temp[n].id = recorder[r].id => Here(r, n)
    /\ Owns(Launched) /\ Owns(Replacement) =>
          recorder[Launched].id # recorder[Replacement].id

\* A session that was recovered while it was recorded.
Recovered(r) ==
    /\ r = Replacement /\ At(r) = "recording"
    /\ ~Recording(RecorderName(r)) /\ Finished(RecorderName(r))
    /\ At(Launched) \in {"named", "created", "marked", "recording"} =>
          ~Here(Launched, RecorderName(r))

Moved(n) == At(Launched) = "moved" /\ Here(Launched, n)

\* A recorder's file is under the name it reserved, and that name is its own.
Reserved ==
    \A r \in Recorders :
        LET n == RecorderName(r) IN
        /\ Owns(r) => temp[n].id = recorder[r].id \/ Recovered(r)
        /\ At(r) \in {"marked", "recording"} /\ (Recording(n) \/ Moved(n)) =>
              n \in marked /\ final[n] \in {0, Foreign}

\* Footage nobody has a clip of is marked, so that its name is not reserved again.
Claimed ==
    /\ \A n \in Names : temp[n].footage /\ ~Finished(n) => n \in marked
    /\ At(Replacement) = "named" /\ At(Launched) \in Recovery =>
          ~temp[RecorderName(Replacement)].footage

\* What recovery has seen of the recording in its hands still holds: an empty one is
\* empty and marked, any other has footage, unless its recorder has finished it since.
FoundTrue ==
    LET n == RecorderName(Launched) IN
    At(Launched) = "found" =>
        IF recorder[Launched].empty
        THEN temp[n].id \in old /\ ~temp[n].footage /\ n \in marked
        ELSE IF Recording(n) THEN temp[n].footage ELSE At(Replacement) = "over"

\* Nobody takes a name whose marker recovery is about to remove ...
EmptiedTrue ==
    LET n == RecorderName(Launched) IN
    At(Launched) = "emptied" =>
        /\ n \in marked /\ ~temp[n].footage
        /\ At(Replacement) \in {"marked", "recording"} => ~Here(Replacement, n)

\* ... and neither of the two names of a recording it has moved.
MovedTrue ==
    LET n == RecorderName(Launched)
        m == recorder[Launched].dest
    IN  At(Launched) = "moved" =>
            /\ m # n /\ Finished(n) /\ ~Recording(n) /\ final[m] \in wrote
            /\ ~temp[m].footage
            /\ At(Replacement) \in {"named", "created", "marked"} => ~Here(Replacement, n)
            /\ At(Replacement) \in {"marked", "recording"} => ~Here(Replacement, m)
            /\ Owns(Replacement) =>
                  (final[m] = recorder[Replacement].id <=> Here(Replacement, n))

StillTrue == FoundTrue /\ EmptiedTrue /\ MovedTrue

HasFile(id) == \E n \in Names : temp[n].id = id \/ final[n] = id

KeptInv ==
    /\ \A id \in wrote : HasFile(id)
    /\ \A r \in Recorders : At(r) = "recording" => HasFile(recorder[r].id)

RecoveryInv ==
    /\ Typed /\ Roles
    /\ ~misread => Numbered /\ Reserved /\ Claimed /\ StillTrue /\ KeptInv

-----------------------------------------------------------------------------
LEMMA AttemptsFacts ==
    ASSUME RecoveryAssumption
    PROVE  /\ Len(Attempts) \in Nat \ {0} /\ \A i \in 1 .. Len(Attempts) : Attempts[i] \in Names
           /\ MaxSessions \in Nat /\ Launched # Replacement /\ NoFile.id = 0 /\ ~NoFile.footage
           /\ NoFile \in [id : Nat, footage : BOOLEAN] /\ Off \in RecorderState
<1>1. MaxSessions \in Nat /\ Launched # Replacement /\ Attempts \in Seq(Names) /\ Attempts # <<>>
  BY DEF RecoveryAssumption
<1>2. Len(Attempts) \in Nat \ {0} /\ \A i \in 1 .. Len(Attempts) : Attempts[i] \in Names
  BY <1>1, LenProperties, ElementOfSeq, EmptySeq
<1>3. NoFile.id = 0 /\ ~NoFile.footage /\ NoFile \in [id : Nat, footage : BOOLEAN]
  BY DEF NoFile
<1>4. Off \in RecorderState
  BY <1>2 DEF Off, RecorderState, States
<1> QED
  BY <1>1, <1>2, <1>3, <1>4

\* A step of one recorder leaves the other's state.
Becomes(r, at) ==
    /\ recorder' \in [Recorders -> RecorderState]
    /\ recorder'[r].at = at
    /\ \A s \in Recorders : s # r => recorder'[s] = recorder[s]

SameName(r) ==
    /\ recorder'[r].name = recorder[r].name /\ recorder'[r].id = recorder[r].id
    /\ recorder'[r].empty = recorder[r].empty /\ recorder'[r].dest = recorder[r].dest

LEMMA GoEffect ==
    ASSUME Typed, NEW r \in Recorders, NEW at \in States, Go(r, at)
    PROVE  Becomes(r, at) /\ SameName(r)
<1>1. recorder \in [Recorders -> RecorderState] /\ recorder' = [recorder EXCEPT ![r].at = at]
  BY DEF Typed, Go
<1> QED
  BY <1>1 DEF Becomes, SameName, RecorderState

LEMMA TryNextEffect ==
    ASSUME RecoveryAssumption, Typed, NEW r \in Recorders, TryNext(r)
    PROVE  \E at \in {"ready", "over"} : Becomes(r, at)
<1>1. recorder \in [Recorders -> RecorderState] /\ recorder[r].try \in 1 .. Len(Attempts)
  BY DEF Typed, RecorderState
<1>2. CASE recorder[r].try = Len(Attempts)
  BY <1>1, <1>2, SMTT(30) DEF Becomes, TryNext, RecorderState, States
<1>3. CASE recorder[r].try # Len(Attempts)
  <2>1. recorder[r].try + 1 \in 1 .. Len(Attempts)
    BY <1>1, <1>3, AttemptsFacts
  <2>2. Attempts[recorder[r].try + 1] \in Names
    BY <2>1, AttemptsFacts
  <2>3. PICK t \in 1 .. Len(Attempts), n \in Names :
           recorder' = [recorder EXCEPT ![r].at = "ready", ![r].try = t, ![r].name = n]
    BY <1>3, <2>1, <2>2 DEF TryNext
  <2>4. PICK q \in RecorderState : q = recorder[r]
    BY <1>1
  <2>5. [q EXCEPT !.at = "ready", !.try = t, !.name = n] \in RecorderState
    BY DEF RecorderState, States
  <2>6. PICK p \in RecorderState : p.at = "ready" /\ recorder' = [recorder EXCEPT ![r] = p]
    BY <1>1, <2>3, <2>4, <2>5 DEF RecorderState
  <2> QED
    BY <1>1, <2>6 DEF Becomes
<1> QED
  BY <1>2, <1>3

SameData ==
    /\ temp' = temp /\ final' = final /\ marked' = marked
    /\ old' = old /\ wrote' = wrote /\ misread' = misread /\ used' = used

\* A recorder that gives up its name, or has none yet, leaves everything as it was.
LEMMA LeavesKeeps ==
    ASSUME RecoveryAssumption, RecoveryInv, SameData, NEW r \in Recorders,
           NEW at \in {"ready", "over"}, Becomes(r, at), At(r) # "over",
           r = Replacement => At(Launched) # "off"
    PROVE  RecoveryInv'
<1>1. Typed /\ Roles /\ Launched # Replacement /\ Recorders = {Launched, Replacement}
  BY AttemptsFacts DEF RecoveryInv, Recorders
<1>2. Typed'
  BY <1>1 DEF Typed, SameData, Becomes
<1>3. Roles'
  BY <1>1 DEF Roles, Becomes, At, Recovery
<1>4. ASSUME ~misread'
      PROVE  (Numbered /\ Reserved /\ Claimed /\ StillTrue /\ KeptInv)'
  <2>1. Numbered /\ Reserved /\ Claimed /\ StillTrue /\ KeptInv
    BY <1>4 DEF RecoveryInv, SameData
  <2>2. Numbered'
    BY <1>1, <2>1 DEF Numbered, Ids, Owns, At, Here, SameData, Becomes
  <2>3. Reserved'
    BY <1>1, <2>1
       DEF Reserved, Recovered, Moved, Recording, Finished, RecorderName, Owns, At, Here,
                      SameData, Becomes
  <2>4. Claimed'
    BY <1>1, <2>1
       DEF Claimed, Recording, Finished, RecorderName, At, Recovery, SameData, Becomes
  <2>5. StillTrue'
    BY <1>1, <2>1
       DEF StillTrue, FoundTrue, EmptiedTrue, MovedTrue, Recording, Finished, RecorderName, Owns,
           At,
           Here, SameData, Becomes
  <2>6. KeptInv'
    BY <1>1, <2>1 DEF KeptInv, HasFile, At, SameData, Becomes
  <2> QED
    BY <2>2, <2>3, <2>4, <2>5, <2>6
<1> QED
  BY <1>2, <1>3, <1>4 DEF RecoveryInv

LEMMA StartKeeps ==
    ASSUME RecoveryAssumption, RecoveryInv, NEW r \in Recorders, Start(r)
    PROVE  RecoveryInv'
<1>1. /\ SameData /\ At(r) = "off"
      /\ r = Replacement => At(Launched) # "off"
      /\ \/ r = Launched /\ Go(r, "recovering")
         \/ Go(r, "ready")
  BY DEF Start, SameData, SameFiles, Is, At
<1>2. Typed /\ Roles /\ Launched # Replacement /\ Recorders = {Launched, Replacement}
  BY AttemptsFacts DEF RecoveryInv, Recorders
<1>3. CASE Go(r, "ready")
  BY <1>1, <1>2, <1>3, GoEffect, LeavesKeeps DEF States
<1>4. CASE r = Launched /\ Go(r, "recovering")
  <2>1. Becomes(Launched, "recovering") /\ At(Replacement) = "off"
    BY <1>1, <1>2, <1>4, GoEffect DEF States, Roles
  <2>2. Typed' /\ Roles'
    BY <1>1, <1>2, <2>1 DEF Typed, SameData, Becomes, Roles, At, Recovery
  <2>3. ASSUME ~misread'
        PROVE  (Numbered /\ Reserved /\ Claimed /\ StillTrue /\ KeptInv)'
    <3>1. Numbered /\ Reserved /\ Claimed /\ StillTrue /\ KeptInv
      BY <1>1, <2>3 DEF RecoveryInv, SameData
    <3>2. Numbered'
      BY <1>1, <1>2, <2>1, <3>1 DEF Numbered, Ids, Owns, At, Here, SameData, Becomes
    <3>3. Reserved'
      BY <1>1, <1>2, <2>1, <3>1
         DEF Reserved, Recovered, Moved, Recording, Finished, RecorderName,
                                    Owns, At, Here, SameData, Becomes
    <3>4. Claimed'
      BY <1>1, <1>2, <2>1, <3>1
         DEF Claimed, Recording, Finished, RecorderName, At, SameData, Becomes
    <3>5. StillTrue' /\ KeptInv'
      BY <1>1, <1>2, <2>1, <3>1 DEF StillTrue, FoundTrue, EmptiedTrue, MovedTrue,
            KeptInv, HasFile, At, SameData, Becomes
    <3> QED
      BY <3>2, <3>3, <3>4, <3>5
  <2> QED
    BY <2>2, <2>3 DEF RecoveryInv
<1> QED
  BY <1>1, <1>3, <1>4

LEMMA RecoveryEndsKeeps ==
    ASSUME RecoveryAssumption, RecoveryInv, NEW r \in Recorders, RecoveryEnds(r)
    PROVE  RecoveryInv'
<1>1. SameData /\ At(r) = "recovering" /\ Go(r, "ready")
  BY DEF RecoveryEnds, SameData, SameFiles, SameProcess, Is, At
<1>2. Typed /\ r # Replacement
  BY <1>1 DEF RecoveryInv, Roles, Recovery
<1> QED
  BY <1>1, <1>2, GoEffect, LeavesKeeps DEF States

LEMMA LooksKeeps ==
    ASSUME RecoveryAssumption, RecoveryInv, NEW r \in Recorders, Looks(r)
    PROVE  RecoveryInv'
<1>1. SameData /\ At(r) = "ready"
  BY DEF Looks, SameData, SameFiles, SameProcess, Is, At
<1>2. Typed /\ Roles /\ Launched # Replacement /\ Recorders = {Launched, Replacement}
  BY AttemptsFacts DEF RecoveryInv, Recorders
<1>3. CASE TryNext(r)
  <2>1. r = Replacement => At(Launched) # "off"
    BY <1>1, <1>2 DEF Roles
  <2> QED
    BY <1>1, <1>2, <1>3, <2>1, TryNextEffect, LeavesKeeps
<1>4. ASSUME NEW n \in Names, ~Finished(n), n \notin marked,
             recorder' = [recorder EXCEPT ![r].at = "named", ![r].name = n]
      PROVE  RecoveryInv'
  <2>1. Becomes(r, "named") /\ recorder'[r].name = n
    <3>1. recorder \in [Recorders -> RecorderState] /\ recorder[r] \in RecorderState
      BY <1>2 DEF Typed
    <3>2. PICK q \in RecorderState : q = recorder[r]
      BY <3>1
    <3>3. [q EXCEPT !.at = "named", !.name = n] \in RecorderState
      BY DEF RecorderState, States
    <3>4. PICK p \in RecorderState : /\ p.at = "named" /\ p.name = n
                                    /\ recorder' = [recorder EXCEPT ![r] = p]
      BY <1>4, <3>1, <3>2, <3>3 DEF RecorderState
    <3> QED
      BY <3>1, <3>4 DEF Becomes
  <2>2. Typed' /\ Roles'
    BY <1>1, <1>2, <2>1 DEF Typed, SameData, Becomes, Roles, At, Recovery
  <2>3. ASSUME ~misread'
        PROVE  (Numbered /\ Reserved /\ Claimed /\ StillTrue /\ KeptInv)'
    <3>1. Numbered /\ Reserved /\ Claimed /\ StillTrue /\ KeptInv
      BY <1>1, <2>3 DEF RecoveryInv, SameData
    <3>2. Numbered'
      BY <1>1, <1>2, <2>1, <3>1 DEF Numbered, Ids, Owns, At, Here, SameData, Becomes
    <3>3. Reserved'
      BY <1>1, <1>2, <1>4, <2>1, <3>1 DEF Reserved, Recovered, Moved, Recording, Finished,
            RecorderName, Owns, At, Here, SameData, Becomes
    <3>4. Claimed'
      BY <1>1, <1>2, <1>4, <2>1, <3>1
         DEF Claimed, Recording, Finished, RecorderName, At, SameData,
            Becomes, Recovery
    <3>5. StillTrue'
      BY <1>1, <1>2, <1>4, <2>1, <3>1
         DEF StillTrue, FoundTrue, EmptiedTrue, MovedTrue, Recording, Finished, RecorderName, Owns,
             At,
            Here, SameData, Becomes
    <3>6. KeptInv'
      BY <1>1, <1>2, <2>1, <3>1 DEF KeptInv, HasFile, At, SameData, Becomes
    <3> QED
      BY <3>2, <3>3, <3>4, <3>5, <3>6
  <2> QED
    BY <2>2, <2>3 DEF RecoveryInv
<1>5. Attempts[recorder[r].try] \in Names
  BY <1>2, AttemptsFacts DEF Typed, RecorderState
<1> QED
  BY <1>3, <1>4, <1>5 DEF Looks

LEMMA RecorderSet ==
    ASSUME Typed, NEW r \in Recorders, NEW p \in RecorderState,
           recorder' = [recorder EXCEPT ![r] = p]
    PROVE  Becomes(r, p.at) /\ recorder'[r] = p
<1>1. recorder \in [Recorders -> RecorderState]
  BY DEF Typed
<1> QED
  BY <1>1 DEF Becomes

LEMMA Basics ==
    ASSUME RecoveryAssumption, RecoveryInv
    PROVE  /\ Typed /\ Roles /\ Launched # Replacement /\ Recorders = {Launched, Replacement}
           /\ 0 \notin Ids /\ Foreign \notin Ids /\ Foreign # 0 /\ Foreign \in Nat
           /\ Ids \in SUBSET Nat
           /\ \A s \in Recorders : recorder[s].name \in Names /\ recorder[s].dest \in Names
           /\ used.sessions \in 0 .. MaxSessions /\ MaxSessions \in Nat
<1>1. used.sessions \in 0 .. MaxSessions /\ MaxSessions \in Nat
  BY AttemptsFacts DEF RecoveryInv, Typed
<1>2. 0 \notin Ids /\ Foreign \notin Ids /\ Foreign # 0 /\ Foreign \in Nat /\ Ids \in SUBSET Nat
  BY <1>1 DEF Ids, Foreign
<1>3. \A s \in Recorders : recorder[s].name \in Names /\ recorder[s].dest \in Names
  BY DEF RecoveryInv, Typed, RecorderState
<1> QED
  BY <1>1, <1>2, <1>3, AttemptsFacts DEF RecoveryInv, Recorders

\* A step changes the recording under one name.
Puts(n, f) ==
    /\ temp' \in [Names -> [id : Nat, footage : BOOLEAN]] /\ temp'[n] = f
    /\ \A k \in Names : k # n => temp'[k] = temp[k]

LEMMA PutsEffect ==
    ASSUME Typed, NEW n \in Names, NEW f \in [id : Nat, footage : BOOLEAN],
           temp' = [temp EXCEPT ![n] = f]
    PROVE  Puts(n, f)
<1>1. temp \in [Names -> [id : Nat, footage : BOOLEAN]]
  BY DEF Typed
<1> QED
  BY <1>1 DEF Puts

LEMMA CreatesNewKeeps ==
    ASSUME RecoveryAssumption, RecoveryInv, NEW r \in Recorders, Creates(r),
           ~Recording(RecorderName(r))
    PROVE  RecoveryInv'
<1> DEFINE id == used.sessions + 1
<1>1. /\ Typed /\ Roles /\ Launched # Replacement /\ Recorders = {Launched, Replacement}
      /\ At(r) = "named" /\ final' = final /\ marked' = marked /\ old' = old
      /\ wrote' = wrote /\ misread' = misread
  BY Basics DEF Creates, Is, At
<1>2. PICK n \in Names : n = RecorderName(r) /\ temp[n].id = 0
  BY <1>1 DEF RecorderName, Recording, Typed, RecorderState
<1>3. /\ id \in Nat /\ id \notin Ids /\ id # 0 /\ Ids' = Ids \cup {id}
      /\ Foreign \notin Ids \cup {id} /\ 0 \notin Ids /\ Foreign # 0
      /\ used' \in [sessions : 0 .. MaxSessions, crashes : Nat, foreign : Nat]
  <2>1. used.sessions < MaxSessions /\ used' = [used EXCEPT !.sessions = used.sessions + 1]
    BY DEF Creates, CreatedByOne
  <2>2. used.sessions \in Nat /\ MaxSessions \in Nat /\ used'.sessions = used.sessions + 1
        /\ used' \in [sessions : 0 .. MaxSessions, crashes : Nat, foreign : Nat]
    BY <1>1, <2>1, Basics DEF Typed
  <2> QED
    BY <2>1, <2>2, Basics DEF Ids, Foreign
<1>4. Puts(n, [id |-> id, footage |-> FALSE])
  <2>1. temp' = [temp EXCEPT ![n] = [id |-> id, footage |-> FALSE]]
    BY <1>2 DEF Creates, CreatedByOne
  <2> QED
    BY <1>1, <1>3, <2>1, PutsEffect
<1>5. Becomes(r, "created") /\ recorder'[r].name = n /\ recorder'[r].id = id
  <2>1. PICK q \in RecorderState : q = recorder[r]
    BY <1>1 DEF Typed
  <2>2. [q EXCEPT !.at = "created", !.id = id] \in RecorderState
    BY <1>3 DEF RecorderState, States
  <2>3. PICK p \in RecorderState : /\ p.at = "created" /\ p.id = id /\ p.name = n
                                  /\ recorder' = [recorder EXCEPT ![r] = p]
    BY <1>1, <1>2, <2>1, <2>2 DEF Creates, CreatedByOne, RecorderName, Typed, RecorderState
  <2> QED
    BY <1>1, <2>3, RecorderSet
<1>6. temp'[n].id = id /\ ~temp'[n].footage
  BY <1>4 DEF Puts
<1> HIDE DEF id
<1>7. Typed' /\ Roles'
  BY <1>1, <1>2, <1>3, <1>4, <1>5, <1>6, Basics DEF Typed, Roles, At, Recovery, Becomes, Puts
<1>8. ASSUME ~misread'
      PROVE  (Numbered /\ Reserved /\ Claimed /\ StillTrue /\ KeptInv)'
  <2>1. Numbered /\ Reserved /\ Claimed /\ StillTrue /\ KeptInv
    BY <1>1, <1>8 DEF RecoveryInv
  <2>2. Numbered'
    BY <1>1, <1>2, <1>3, <1>4, <1>5, <1>6, Basics, <2>1
       DEF Numbered, Owns, At, Here, Becomes, Puts
  <2>3. \A s \in Recorders : recorder[s].name \in Names /\ recorder[s].dest \in Names
    BY Basics
  <2>4. /\ wrote \in SUBSET Ids /\ old \in SUBSET Ids
        /\ 0 \notin wrote /\ id \notin wrote /\ id \notin old
    BY <1>3, <2>1 DEF Numbered
  <2>5. \A s \in Recorders : s # r =>
           At(s)' = At(s) /\ recorder'[s] = recorder[s] /\ Owns(s)' = Owns(s)
    BY <1>5 DEF Becomes, At, Owns
  <2>6. At(r)' = "created" /\ Owns(r)' /\ ~Owns(r)
    BY <1>1, <1>5 DEF Becomes, At, Owns
  <2>7. \A k \in Names : final'[k] = final[k] /\ (k # n => temp'[k] = temp[k])
    BY <1>1, <1>4 DEF Puts
  <2>8. Reserved'
    <3>1. ASSUME NEW s \in Recorders
          PROVE  /\ Owns(s)' => temp'[recorder'[s].name].id = recorder'[s].id \/ Recovered(s)'
                 /\ /\ At(s)' \in {"marked", "recording"}
                    /\ Recording(recorder[s].name)' \/ Moved(recorder[s].name)'
                    => recorder[s].name \in marked /\ final[recorder[s].name] \in {0, Foreign}
      <4>1. CASE s = r
        BY <4>1, <1>5, <1>6, <2>6
      <4>2. CASE s # r
        BY <4>2, <1>1, <1>2, <1>3, <2>3, <2>4, <2>5, <2>6, <2>7, <2>1, <1>5, <1>6
           DEF Reserved, Recovered, Moved, Recording, Finished, RecorderName, Owns, At, Here,
               Numbered
      <4> QED
        BY <4>1, <4>2
    <3> QED
      BY <3>1, <1>1, <2>5, <2>6 DEF Reserved, RecorderName, At, Owns
  <2>9. Claimed'
    BY <1>1, <1>2, <1>3, <1>4, <1>5, <1>6, Basics, <2>1
       DEF Claimed, Recording, Finished, RecorderName, At, Recovery, Becomes, Puts
  <2>10. FoundTrue'
    BY <1>1, <1>2, <1>3, <1>4, <1>5, <1>6, <2>3, <2>4, <2>1
       DEF StillTrue, FoundTrue, Recording, RecorderName, Owns, At, Here, Becomes, Puts
  <2>11. EmptiedTrue'
    BY <1>1, <1>2, <1>3, <1>4, <1>5, <1>6, <2>3, <2>4, <2>1
       DEF StillTrue, EmptiedTrue, Recording, RecorderName, Owns, At, Here, Becomes, Puts
  <2>12. MovedTrue'
    BY <1>1, <1>2, <1>3, <1>4, <1>5, <1>6, <2>3, <2>4, <2>1
       DEF StillTrue, MovedTrue, Recording, Finished, RecorderName, Owns, At, Here, Becomes, Puts
  <2>13. StillTrue'
    BY <2>10, <2>11, <2>12 DEF StillTrue
  <2>14. \A x : x # 0 /\ HasFile(x) => HasFile(x)'
    BY <1>1, <1>2, <1>4 DEF HasFile, Puts
  <2>15. KeptInv'
    <3>1. \A x \in wrote : HasFile(x)'
      BY <2>1, <2>4, <2>14 DEF KeptInv
    <3>2. ASSUME NEW s \in Recorders, At(s)' = "recording"
          PROVE  HasFile(recorder[s].id)'
      <4>1. s # r /\ At(s) = "recording" /\ recorder'[s].id = recorder[s].id /\ recorder[s].id # 0
        BY <3>2, <2>5, <2>6, <2>1, <1>3 DEF Numbered, Owns
      <4>2. PICK x : x = recorder[s].id
        OBVIOUS
      <4>3. HasFile(x)'
        BY <4>1, <4>2, <2>1, <2>14 DEF KeptInv
      <4> QED
        BY <4>1, <4>2, <4>3 DEF HasFile
    <3> QED
      BY <3>1, <3>2, <1>1 DEF KeptInv, At, HasFile
  <2> QED
    BY <2>2, <2>8, <2>9, <2>13, <2>15
<1> QED
  BY <1>7, <1>8 DEF RecoveryInv

LEMMA DiscardKeeps ==
    ASSUME RecoveryAssumption, RecoveryInv, NEW r \in Recorders, NEW at \in {"ready", "over"},
           NEW n \in Names, n = RecorderName(r), Owns(r), Becomes(r, at), Puts(n, NoFile),
           ~misread => ~temp[n].footage, final' = final, old' = old, wrote' = wrote,
           misread' = misread, used' = used,
           marked' = marked \/ (At(r) # "created" /\ marked' = marked \ {n})
    PROVE  RecoveryInv'
<1>1. Typed /\ Roles /\ Launched # Replacement /\ Recorders = {Launched, Replacement}
  BY Basics
<1>2. 0 \notin Ids /\ Foreign \notin Ids /\ Foreign # 0 /\ Ids' = Ids /\ Foreign \in Nat
  BY Basics DEF Ids
<1>3. At(r)' = at /\ ~Owns(r)' /\ at \notin Recovery /\ at # "off" /\ at # "recording"
  BY DEF Becomes, At, Owns, Recovery
<1>4. \A s \in Recorders : s # r => At(s)' = At(s) /\ recorder'[s] = recorder[s]
  BY DEF Becomes, At
<1>5. /\ temp'[n].id = 0 /\ ~temp'[n].footage
      /\ \A k \in Names : k # n => temp'[k] = temp[k]
  BY AttemptsFacts DEF Puts
<1>6. Typed' /\ Roles'
  BY <1>1, <1>3, <1>4 DEF Typed, Roles, Owns, Recovery, Becomes, Puts
<1>7. ASSUME ~misread'
      PROVE  (Numbered /\ Reserved /\ Claimed /\ StillTrue /\ KeptInv)'
  <2>1. Numbered /\ Reserved /\ Claimed /\ StillTrue /\ KeptInv /\ ~temp[n].footage
    BY <1>7 DEF RecoveryInv
  <2>2. \A s \in Recorders : recorder[s].name \in Names /\ recorder[s].dest \in Names
    BY Basics
  <2>3. /\ wrote \in SUBSET Ids /\ old \in SUBSET Ids /\ 0 \notin wrote /\ 0 \notin old
        /\ recorder[r].id \in Ids /\ recorder[r].id \notin old
    BY <1>2, <2>1 DEF Numbered
  <2>4. temp[n].id = recorder[r].id \/ (Recovered(r) /\ temp[n].id = 0)
    BY <2>1 DEF Reserved, Recovered, Recording, RecorderName
  <2>5. temp[n].id \notin wrote /\ temp[n].id \notin old
    BY <2>1, <2>3, <2>4 DEF Numbered
  <2>6. \A s \in Recorders : s # r /\ Owns(s) => temp[n].id # recorder[s].id
    BY <1>1, <1>2, <2>1, <2>3, <2>4 DEF Numbered
  <2>7. Numbered'
    BY <1>1, <1>2, <1>3, <1>4, <1>5, <2>1, <2>3 DEF Numbered, Owns, At, Here
  <2>8. Reserved'
    <3>1. ASSUME NEW s \in Recorders
          PROVE  /\ Owns(s)' => temp'[recorder'[s].name].id = recorder'[s].id \/ Recovered(s)'
                 /\ /\ At(s)' \in {"marked", "recording"}
                    /\ Recording(recorder[s].name)' \/ Moved(recorder[s].name)'
                    => /\ recorder'[s].name \in marked'
                       /\ final'[recorder'[s].name] \in {0, Foreign}
      <4>1. CASE s = r
        BY <4>1, <1>3 DEF Owns
      <4>2. CASE s # r
        <5>1. recorder'[s] = recorder[s] /\ At(s)' = At(s) /\ Owns(s)' = Owns(s)
          BY <4>2, <1>4 DEF At, Owns
        <5>2. ASSUME Owns(s) PROVE temp'[recorder[s].name].id = recorder[s].id \/ Recovered(s)'
          BY <5>2, <4>2, <1>1, <1>2, <1>3, <1>4, <1>5, <2>1, <2>2, <2>3, <2>4, <2>6
             DEF Reserved, Recovered, Recording, Finished, RecorderName, At, Here, Owns
        <5>3. ASSUME At(s) \in {"marked", "recording"},
                     Recording(recorder[s].name)' \/ Moved(recorder[s].name)'
              PROVE  /\ recorder[s].name # n /\ recorder[s].name \in marked
                     /\ final[recorder[s].name] \in {0, Foreign}
          BY <5>1, <5>3, <4>2, <1>1, <1>2, <1>3, <1>4, <1>5, <2>1, <2>2
             DEF Reserved, Recording, Moved, RecorderName, At, Here, Owns
        <5> QED
          BY <5>1, <5>2, <5>3
      <4> QED
        BY <4>1, <4>2
    <3> QED
      BY <3>1 DEF Reserved, RecorderName, At, Owns, Recovered, Recording, Moved, Here, Finished
  <2>9. Claimed'
    BY <1>1, <1>3, <1>4, <1>5, <2>1, <2>2 DEF Claimed, Finished, RecorderName, Recovery
  <2>10. FoundTrue'
    BY <1>1, <1>3, <1>4, <1>5, <2>1, <2>2, <2>3, <2>5
       DEF StillTrue, FoundTrue, Recording, RecorderName, Owns, At
  <2>11. EmptiedTrue'
    BY <1>1, <1>3, <1>4, <1>5, <2>1, <2>2
       DEF StillTrue, EmptiedTrue, RecorderName, Owns, At, Here
  <2>12. MovedTrue'
    BY <1>1, <1>3, <1>4, <1>5, <2>1, <2>2
       DEF StillTrue, MovedTrue, Recording, Finished, RecorderName, Owns, At, Here
  <2>13. \A x : x # temp[n].id /\ HasFile(x) => HasFile(x)'
    BY <1>5 DEF HasFile
  <2>14. KeptInv'
    <3>1. \A x \in wrote : HasFile(x)'
      BY <2>1, <2>5, <2>13 DEF KeptInv
    <3>2. ASSUME NEW s \in Recorders, At(s)' = "recording"
          PROVE  HasFile(recorder[s].id)'
      <4>1. /\ s # r /\ At(s) = "recording" /\ recorder'[s] = recorder[s]
            /\ recorder[s].id # temp[n].id
        BY <3>2, <1>3, <1>4, <2>6 DEF Owns
      <4>2. PICK x : x = recorder[s].id
        OBVIOUS
      <4>3. HasFile(x)'
        BY <4>1, <4>2, <2>1, <2>13 DEF KeptInv
      <4> QED
        BY <4>1, <4>2, <4>3 DEF HasFile
    <3> QED
      BY <3>1, <3>2 DEF KeptInv, At, HasFile
  <2> QED
    BY <2>7, <2>8, <2>9, <2>10, <2>11, <2>12, <2>14 DEF StillTrue
<1> QED
  BY <1>6, <1>7 DEF RecoveryInv

LEMMA TryNextKeeps ==
    ASSUME RecoveryAssumption, RecoveryInv, NEW r \in Recorders, At(r) # "over", At(r) # "off",
           SameData, TryNext(r)
    PROVE  RecoveryInv'
<1>1. Typed /\ Roles /\ Launched # Replacement /\ Recorders = {Launched, Replacement}
  BY Basics
<1>2. r = Replacement => At(Launched) # "off"
  BY <1>1 DEF Roles
<1> QED
  BY <1>1, <1>2, TryNextEffect, LeavesKeeps

LEMMA OwnFile ==
    ASSUME RecoveryAssumption, RecoveryInv, ~misread, NEW r \in Recorders, Owns(r)
    PROVE  /\ temp[RecorderName(r)].id \in {recorder[r].id, 0} /\ recorder[r].id \in Ids
           /\ At(r) # "recording" => /\ temp[RecorderName(r)].id = recorder[r].id
                                     /\ ~temp[RecorderName(r)].footage /\ Recording(RecorderName(r))
           /\ temp[RecorderName(r)].id = 0 => ~temp[RecorderName(r)].footage
<1>1. Numbered /\ Reserved
  BY DEF RecoveryInv
<1>2. 0 \notin Ids /\ RecorderName(r) \in Names
  BY Basics DEF RecorderName
<1> QED
  BY <1>1, <1>2 DEF Numbered, Reserved, Recovered, Recording

LEMMA OwnerKeepsNumbers ==
    ASSUME Numbered, Recorders = {Launched, Replacement}, NEW r \in Recorders, Owns(r), Owns(r)',
           SameName(r), At(r) # "recording",
           \A s \in Recorders : s # r => At(s)' = At(s) /\ recorder'[s] = recorder[s],
           temp' = temp, final' = final, old' = old, wrote' = wrote, Ids' = Ids
    PROVE  Numbered'
<1>1. \A s \in Recorders : /\ recorder'[s].id = recorder[s].id
                           /\ recorder'[s].name = recorder[s].name
                           /\ Owns(s)' = Owns(s)
  BY DEF SameName, Owns
<1>2. \A s \in Recorders : Owns(s) =>
          /\ recorder[s].id \in Ids \ old
          /\ At(s)' # "recording" => recorder[s].id \notin wrote
          /\ \A n \in Names : temp[n].id = recorder[s].id => recorder[s].name = n
  BY DEF Numbered, Here
<1>3. Owns(Launched) /\ Owns(Replacement) => recorder[Launched].id # recorder[Replacement].id
  BY DEF Numbered
<1>4. Launched \in Recorders /\ Replacement \in Recorders
  OBVIOUS
<1>5. \A n \in Names : /\ temp[n].id \in Ids \cup {0}
                       /\ temp[n].footage <=> temp[n].id \in wrote
                       /\ final[n] \in Ids \cup {0, Foreign}
  BY DEF Numbered
<1>6. old \in SUBSET Ids /\ wrote \in SUBSET Ids
  BY DEF Numbered
<1> QED
  BY <1>1, <1>2, <1>3, <1>4, <1>5, <1>6 DEF Numbered, Here, At, Foreign

LEMMA MarksKeeps ==
    ASSUME RecoveryAssumption, RecoveryInv, NEW r \in Recorders, Marks(r)
    PROVE  RecoveryInv'
<1>1. /\ Typed /\ Roles /\ Launched # Replacement /\ Recorders = {Launched, Replacement}
      /\ At(r) = "created" /\ final' = final /\ old' = old /\ recovered' = recovered
      /\ wrote' = wrote /\ misread' = misread /\ used' = used
  BY Basics DEF Marks, Is, At, SameProcess
<1>2. PICK n \in Names : n = RecorderName(r)
  BY Basics DEF RecorderName
<1>3. CASE Finished(n) \/ n \in marked
  <2>1. temp' = [temp EXCEPT ![n] = NoFile] /\ TryNext(r) /\ marked' = marked
    BY <1>2, <1>3 DEF Marks
  <2>2. Puts(n, NoFile)
    BY <1>1, <2>1, AttemptsFacts, PutsEffect
  <2>3. PICK at \in {"ready", "over"} : Becomes(r, at)
    BY <1>1, <2>1, TryNextEffect
  <2>4. ~misread => ~temp[n].footage
    BY <1>1, <1>2, OwnFile DEF Owns
  <2> QED
    BY <1>1, <1>2, <2>1, <2>2, <2>3, <2>4, DiscardKeeps DEF Owns
<1>4. CASE ~Finished(n) /\ n \notin marked
  <2>1. temp' = temp /\ marked' = marked \cup {n} /\ Becomes(r, "marked") /\ SameName(r)
    BY <1>1, <1>2, <1>4, GoEffect DEF Marks, States
  <2>2. At(r)' = "marked" /\ Owns(r)'
    BY <2>1 DEF Becomes, At, Owns
  <2>3. \A s \in Recorders : s # r => At(s)' = At(s) /\ recorder'[s] = recorder[s]
    BY <2>1 DEF Becomes, At
  <2>4. Typed' /\ Roles'
    BY <1>1, <1>2, <2>1, <2>2, <2>3 DEF Typed, Roles, Recovery, Becomes
  <2>5. ASSUME ~misread'
        PROVE  (Numbered /\ Reserved /\ Claimed /\ StillTrue /\ KeptInv)'
    <3>1. Numbered /\ Reserved /\ Claimed /\ StillTrue /\ KeptInv
      BY <1>1, <2>5 DEF RecoveryInv
    <3>2. /\ \A s \in Recorders : recorder[s].name \in Names /\ recorder[s].dest \in Names
          /\ recorder'[r].name = n /\ recorder'[r].id = recorder[r].id /\ Ids' = Ids
      BY <1>1, <1>2, <2>1, Basics DEF SameName, RecorderName, Ids
    <3>3. temp[n].id = recorder[r].id /\ ~temp[n].footage /\ final[n] = 0 /\ 0 \notin Ids
          /\ wrote \in SUBSET Ids
      BY <1>1, <1>2, <1>4, <2>5, <3>1, Basics, OwnFile DEF Owns, Finished, Numbered
    <3>4. Numbered'
      BY <1>1, <2>1, <2>2, <2>3, <3>1, <3>2, OwnerKeepsNumbers DEF SameName, Owns
    <3>5. Reserved'
      BY <1>1, <1>2, <2>1, <2>2, <2>3, <3>1, <3>2, <3>3
         DEF Reserved, Recovered, Recording, Moved, Finished, RecorderName, Owns, At, Here
    <3>6. Claimed'
      BY <1>1, <2>1, <2>2, <2>3, <3>1, <3>2 DEF Claimed, Finished, RecorderName, Recovery
    <3>7. FoundTrue' /\ EmptiedTrue'
      BY <1>1, <1>4, <2>1, <2>2, <2>3, <3>1, <3>2
         DEF StillTrue, FoundTrue, EmptiedTrue, Recording, RecorderName, At, Here
    <3>8. MovedTrue'
      BY <1>1, <1>4, <2>1, <2>2, <2>3, <3>1, <3>2, <3>3
         DEF StillTrue, MovedTrue, Recording, Finished, RecorderName, Owns, At, Here
    <3>9. KeptInv'
      BY <1>1, <2>1, <2>2, <2>3, <3>1 DEF KeptInv, HasFile, At
    <3> QED
      BY <3>4, <3>5, <3>6, <3>7, <3>8, <3>9 DEF StillTrue
  <2> QED
    BY <2>4, <2>5 DEF RecoveryInv
<1> QED
  BY <1>3, <1>4

LEMMA ReservesKeeps ==
    ASSUME RecoveryAssumption, RecoveryInv, NEW r \in Recorders, Reserves(r)
    PROVE  RecoveryInv'
<1>1. /\ Typed /\ Roles /\ Launched # Replacement /\ Recorders = {Launched, Replacement}
      /\ At(r) = "marked" /\ final' = final /\ old' = old /\ recovered' = recovered
      /\ wrote' = wrote /\ misread' = misread /\ used' = used
  BY Basics DEF Reserves, Is, At, SameProcess
<1>2. PICK n \in Names : n = RecorderName(r)
  BY Basics DEF RecorderName
<1>3. CASE Finished(n)
  <2>1. temp' = [temp EXCEPT ![n] = NoFile] /\ TryNext(r) /\ marked' = marked \ {n}
    BY <1>2, <1>3 DEF Reserves
  <2>2. Puts(n, NoFile)
    BY <1>1, <2>1, AttemptsFacts, PutsEffect
  <2>3. PICK at \in {"ready", "over"} : Becomes(r, at)
    BY <1>1, <2>1, TryNextEffect
  <2>4. ~misread => ~temp[n].footage
    BY <1>1, <1>2, OwnFile DEF Owns
  <2> QED
    BY <1>1, <1>2, <2>1, <2>2, <2>3, <2>4, DiscardKeeps DEF Owns
<1>4. CASE ~Finished(n)
  <2>1. temp' = temp /\ marked' = marked /\ Becomes(r, "recording") /\ SameName(r)
    BY <1>1, <1>2, <1>4, GoEffect DEF Reserves, States
  <2>2. At(r)' = "recording" /\ Owns(r)'
    BY <2>1 DEF Becomes, At, Owns
  <2>3. \A s \in Recorders : s # r => At(s)' = At(s) /\ recorder'[s] = recorder[s]
    BY <2>1 DEF Becomes, At
  <2>4. Typed' /\ Roles'
    BY <1>1, <2>1, <2>2, <2>3 DEF Typed, Roles, Recovery, Becomes
  <2>5. ASSUME ~misread'
        PROVE  (Numbered /\ Reserved /\ Claimed /\ StillTrue /\ KeptInv)'
    <3>1. Numbered /\ Reserved /\ Claimed /\ StillTrue /\ KeptInv
      BY <1>1, <2>5 DEF RecoveryInv
    <3>2. /\ \A s \in Recorders : recorder[s].name \in Names /\ recorder[s].dest \in Names
          /\ recorder'[r].name = n /\ recorder'[r].id = recorder[r].id /\ Ids' = Ids
      BY <1>1, <1>2, <2>1, Basics DEF SameName, RecorderName, Ids
    <3>3. temp[n].id = recorder[r].id /\ ~temp[n].footage /\ Recording(n)
      BY <1>1, <1>2, <2>5, OwnFile DEF Owns
    <3>4. Numbered'
      BY <1>1, <2>1, <2>2, <2>3, <3>1, <3>2, OwnerKeepsNumbers DEF SameName, Owns
    <3>5. Reserved'
      BY <1>1, <1>2, <2>1, <2>2, <2>3, <3>1, <3>2, <3>3
         DEF Reserved, Recovered, Recording, Moved, Finished, RecorderName, Owns, At, Here
    <3>6. Claimed'
      BY <1>1, <2>1, <2>2, <2>3, <3>1, <3>2 DEF Claimed, Finished, RecorderName, Recovery
    <3>7. FoundTrue' /\ EmptiedTrue'
      BY <1>1, <1>2, <2>1, <2>2, <2>3, <3>1, <3>2
         DEF StillTrue, FoundTrue, EmptiedTrue, Recording, RecorderName, At, Here
    <3>8. MovedTrue'
      BY <1>1, <1>2, <2>1, <2>2, <2>3, <3>1, <3>2, <3>3
         DEF StillTrue, MovedTrue, Recording, Finished, RecorderName, Owns, At, Here
    <3>9. KeptInv'
      <4>1. \E k \in Names : temp'[k].id = recorder'[r].id
        BY <2>1, <3>2, <3>3
      <4> QED
        BY <1>1, <2>1, <2>2, <2>3, <3>1, <4>1 DEF KeptInv, HasFile, At
    <3> QED
      BY <3>4, <3>5, <3>6, <3>7, <3>8, <3>9 DEF StillTrue
  <2> QED
    BY <2>4, <2>5 DEF RecoveryInv
<1> QED
  BY <1>3, <1>4

LEMMA FinishFailsKeeps ==
    ASSUME RecoveryAssumption, RecoveryInv, NEW r \in Recorders, FinishFails(r)
    PROVE  RecoveryInv'
<1>1. /\ Typed /\ Roles /\ Launched # Replacement /\ Recorders = {Launched, Replacement}
      /\ At(r) = "recording" /\ final' = final /\ old' = old /\ Becomes(r, "over")
      /\ wrote' = wrote /\ misread' = misread /\ used' = used
  BY Basics, GoEffect DEF FinishFails, Is, At, SameProcess, States
<1>2. PICK n \in Names : n = RecorderName(r)
  BY Basics DEF RecorderName
<1>3. CASE Recording(n) /\ temp[n].footage
  <2>1. SameData
    BY <1>1, <1>2, <1>3 DEF FinishFails, SameData
  <2>2. r = Replacement => At(Launched) # "off"
    BY <1>1 DEF Roles
  <2> QED
    BY <1>1, <2>1, <2>2, LeavesKeeps
<1>4. CASE ~(Recording(n) /\ temp[n].footage)
  <2>1. temp' = [temp EXCEPT ![n] = NoFile] /\ marked' = marked \ {n}
    BY <1>2, <1>4 DEF FinishFails
  <2>2. Puts(n, NoFile)
    BY <1>1, <2>1, AttemptsFacts, PutsEffect
  <2>3. ~misread => ~temp[n].footage
    BY <1>1, <1>2, <1>4, OwnFile DEF Owns, Recording
  <2> QED
    BY <1>1, <1>2, <2>1, <2>2, <2>3, DiscardKeeps DEF Owns
<1> QED
  BY <1>3, <1>4

LEMMA CreatesKeeps ==
    ASSUME RecoveryAssumption, RecoveryInv, NEW r \in Recorders, Creates(r)
    PROVE  RecoveryInv'
<1>1. CASE ~Recording(RecorderName(r))
  BY <1>1, CreatesNewKeeps
<1>2. CASE Recording(RecorderName(r))
  <2>1. SameData /\ TryNext(r) /\ At(r) = "named"
    BY <1>2 DEF Creates, CreatedByOne, SameData, Is, At
  <2> QED
    BY <2>1, TryNextKeeps
<1> QED
  BY <1>1, <1>2

LEMMA WritesKeeps ==
    ASSUME RecoveryAssumption, RecoveryInv, NEW r \in Recorders, Writes(r)
    PROVE  RecoveryInv'
<1>1. /\ Typed /\ Roles /\ Launched # Replacement /\ Recorders = {Launched, Replacement}
      /\ At(r) = "recording" /\ Owns(r) /\ final' = final /\ old' = old /\ marked' = marked
      /\ recorder' = recorder /\ misread' = misread /\ used' = used /\ Ids' = Ids
  BY Basics DEF Writes, Is, At, Owns, Ids
<1>2. PICK id \in Nat : id = recorder[r].id /\ wrote' = wrote \cup {id}
  BY <1>1 DEF Writes, Typed, RecorderState
<1>3. /\ temp' \in [Names -> [id : Nat, footage : BOOLEAN]]
      /\ \A n \in Names : /\ temp'[n].id = temp[n].id
                          /\ temp[n].id = id => temp'[n].footage
                          /\ temp[n].id # id => temp'[n] = temp[n]
  <2>1. temp \in [Names -> [id : Nat, footage : BOOLEAN]]
    BY <1>1 DEF Typed
  <2>2. temp' = [n \in Names |-> IF temp[n].id = id THEN [temp[n] EXCEPT !.footage = TRUE]
                                 ELSE temp[n]]
    BY <1>2 DEF Writes
  <2> QED
    BY <2>1, <2>2
<1>4. Typed' /\ Roles'
  BY <1>1, <1>3 DEF Typed, Roles, At
<1>5. ASSUME ~misread'
      PROVE  (Numbered /\ Reserved /\ Claimed /\ StillTrue /\ KeptInv)'
  <2>1. Numbered /\ Reserved /\ Claimed /\ StillTrue /\ KeptInv
    BY <1>1, <1>5 DEF RecoveryInv
  <2>2. /\ \A s \in Recorders : recorder[s].name \in Names /\ recorder[s].dest \in Names
        /\ wrote \in SUBSET Ids /\ 0 \notin Ids /\ id \in Ids /\ id \notin old
        /\ \A n \in Names : temp[n].id = id => n = recorder[r].name
    BY <1>1, <1>2, <2>1, Basics DEF Numbered, Here
  <2>3. Numbered'
    <3>1. \A n \in Names : temp'[n].footage <=> temp'[n].id \in wrote'
      BY <1>2, <1>3, <2>1 DEF Numbered
    <3>2. \A s \in Recorders : Owns(s) /\ At(s) # "recording" => recorder[s].id \notin wrote'
      BY <1>1, <1>2, <2>1 DEF Numbered
    <3>3. \A n \in Names : temp'[n].id \in Ids \cup {0} /\ final[n] \in Ids \cup {0, Foreign}
      BY <1>3, <2>1 DEF Numbered
    <3>4. \A s \in Recorders : Owns(s) =>
              /\ recorder[s].id \in Ids \ old
              /\ \A n \in Names : temp'[n].id = recorder[s].id => Here(s, n)
      BY <1>3, <2>1 DEF Numbered
    <3>5. Owns(Launched) /\ Owns(Replacement) => recorder[Launched].id # recorder[Replacement].id
      BY <2>1 DEF Numbered
    <3>6. old \in SUBSET Ids /\ wrote' \in SUBSET Ids
      BY <1>2, <2>1, <2>2 DEF Numbered
    <3> QED
      BY <1>1, <3>1, <3>2, <3>3, <3>4, <3>5, <3>6 DEF Numbered, Owns, At, Here, Foreign
  <2>4. Reserved'
    BY <1>1, <1>3, <2>1, <2>2
       DEF Reserved, Recovered, Recording, Moved, Finished, RecorderName, Owns, At, Here
  <2>5. Claimed'
    <3>1. ASSUME NEW n \in Names, temp'[n].footage, ~Finished(n) PROVE n \in marked
      <4>1. CASE temp[n].id = id
        BY <4>1, <1>1, <2>1, <2>2 DEF Reserved, Recording, RecorderName
      <4>2. CASE temp[n].id # id
        BY <3>1, <4>2, <1>3, <2>1 DEF Claimed
      <4> QED
        BY <4>1, <4>2
    <3>2. ~(At(Replacement) = "named" /\ At(Launched) \in Recovery)
      BY <1>1 DEF Recovery
    <3> QED
      BY <1>1, <3>1, <3>2 DEF Claimed, Finished, At
  <2>6. FoundTrue'
    BY <1>1, <1>2, <1>3, <2>1, <2>2 DEF StillTrue, FoundTrue, Recording, RecorderName, At
  <2>7. EmptiedTrue'
    BY <1>1, <1>2, <1>3, <2>1, <2>2 DEF StillTrue, EmptiedTrue, RecorderName, At, Here
  <2>8. MovedTrue'
    BY <1>1, <1>2, <1>3, <2>1, <2>2
       DEF StillTrue, MovedTrue, Recording, Finished, RecorderName, Owns, At, Here
  <2>9. KeptInv'
    BY <1>1, <1>2, <1>3, <2>1 DEF KeptInv, HasFile, At
  <2> QED
    BY <2>3, <2>4, <2>5, <2>6, <2>7, <2>8, <2>9 DEF StillTrue
<1> QED
  BY <1>4, <1>5 DEF RecoveryInv

LEMMA FinishesKeeps ==
    ASSUME RecoveryAssumption, RecoveryInv, NEW r \in Recorders, Finishes(r)
    PROVE  RecoveryInv'
<1>1. /\ Typed /\ Roles /\ Launched # Replacement /\ Recorders = {Launched, Replacement}
      /\ At(r) = "recording" /\ Owns(r) /\ marked' = marked /\ old' = old /\ Becomes(r, "over")
      /\ wrote' = wrote /\ misread' = misread /\ used' = used /\ Ids' = Ids
  BY Basics, GoEffect DEF Finishes, Is, At, Owns, SameProcess, States, Ids
<1>2. PICK n \in Names : n = RecorderName(r)
  BY Basics DEF RecorderName
<1>3. CASE ~Recording(n)
  <2>1. SameData
    BY <1>1, <1>2, <1>3 DEF Finishes, SameData
  <2>2. r = Replacement => At(Launched) # "off"
    BY <1>1 DEF Roles
  <2> QED
    BY <1>1, <2>1, <2>2, LeavesKeeps
<1>4. CASE Recording(n)
  <2>1. final' = [final EXCEPT ![n] = temp[n].id] /\ temp' = [temp EXCEPT ![n] = NoFile]
    BY <1>2, <1>4 DEF Finishes
  <2>2. Puts(n, NoFile) /\ temp'[n].id = 0 /\ ~temp'[n].footage
    BY <1>1, <2>1, AttemptsFacts, PutsEffect DEF Puts
  <2>3. /\ final' \in [Names -> Nat] /\ final'[n] = temp[n].id
        /\ \A k \in Names : k # n => final'[k] = final[k] /\ temp'[k] = temp[k]
    BY <1>1, <2>1, <2>2 DEF Typed, Puts
  <2>4. At(r)' = "over" /\ ~Owns(r)'
    BY <1>1 DEF Becomes, At, Owns
  <2>5. \A s \in Recorders : s # r => At(s)' = At(s) /\ recorder'[s] = recorder[s]
    BY <1>1 DEF Becomes, At
  <2>6. Typed' /\ Roles'
    BY <1>1, <2>2, <2>3, <2>4, <2>5 DEF Typed, Roles, Recovery, Becomes, Puts
  <2>7. ASSUME ~misread'
        PROVE  (Numbered /\ Reserved /\ Claimed /\ StillTrue /\ KeptInv)'
    <3>1. Numbered /\ Reserved /\ Claimed /\ StillTrue /\ KeptInv
      BY <1>1, <2>7 DEF RecoveryInv
    <3>2. /\ \A s \in Recorders : recorder[s].name \in Names /\ recorder[s].dest \in Names
          /\ wrote \in SUBSET Ids /\ old \in SUBSET Ids /\ 0 \notin Ids /\ Foreign \notin Ids
      BY <3>1, Basics DEF Numbered
    <3>3. /\ temp[n].id = recorder[r].id /\ temp[n].id \in Ids /\ temp[n].id \notin old
          /\ final[n] \in {0, Foreign}
      BY <1>1, <1>2, <1>4, <2>7, <3>1, OwnFile DEF Recording, RecorderName, Numbered, Reserved
    <3>4. \A s \in Recorders : s # r /\ Owns(s) => recorder[s].name # n
      BY <1>1, <1>2, <1>4, <3>1, <3>3 DEF Numbered, Reserved, Recovered, RecorderName
    <3>5. Numbered'
      BY <1>1, <2>2, <2>3, <2>4, <2>5, <3>1, <3>2, <3>3 DEF Numbered, Owns, At, Here, Foreign
    <3>6. Reserved'
      <4>1. ASSUME NEW s \in Recorders, s # r, Owns(s)
            PROVE  /\ temp'[recorder[s].name] = temp[recorder[s].name]
                   /\ final'[recorder[s].name] = final[recorder[s].name]
        BY <2>3, <3>2, <3>4, <4>1
      <4> QED
        BY <1>1, <2>2, <2>3, <2>4, <2>5, <3>1, <3>2, <4>1
           DEF Reserved, Recovered, Recording, Moved, Finished, RecorderName, Owns, At, Here
    <3>7. Claimed'
      BY <1>1, <2>2, <2>3, <2>4, <2>5, <3>1, <3>2 DEF Claimed, Finished, RecorderName, Recovery
    <3>8. FoundTrue'
      BY <1>1, <2>2, <2>3, <2>4, <2>5, <3>1, <3>2, <3>3
         DEF StillTrue, FoundTrue, Recording, RecorderName, At
    <3>9. EmptiedTrue'
      BY <1>1, <2>2, <2>3, <2>4, <2>5, <3>1, <3>2
         DEF StillTrue, EmptiedTrue, RecorderName, At, Here
    <3>10. MovedTrue'
      BY <1>1, <1>2, <2>2, <2>3, <2>4, <2>5, <3>1, <3>2, <3>3
         DEF StillTrue, MovedTrue, Recording, Finished, RecorderName, Owns, At, Here
    <3>11. \A x \in Ids : HasFile(x) => HasFile(x)'
      BY <2>2, <2>3, <3>2, <3>3 DEF HasFile
    <3>12. KeptInv'
      <4>1. \A x \in wrote : HasFile(x)'
        BY <3>1, <3>2, <3>11 DEF KeptInv
      <4>2. ASSUME NEW s \in Recorders, At(s)' = "recording"
            PROVE  HasFile(recorder[s].id)'
        <5>1. s # r /\ At(s) = "recording" /\ recorder'[s] = recorder[s] /\ recorder[s].id \in Ids
          BY <4>2, <2>4, <2>5, <3>1 DEF Owns, Numbered
        <5>2. PICK x : x = recorder[s].id
          OBVIOUS
        <5>3. HasFile(x)'
          BY <5>1, <5>2, <3>1, <3>11 DEF KeptInv
        <5> QED
          BY <5>1, <5>2, <5>3 DEF HasFile
      <4> QED
        BY <1>1, <4>1, <4>2 DEF KeptInv, At, HasFile
    <3> QED
      BY <3>5, <3>6, <3>7, <3>8, <3>9, <3>10, <3>12 DEF StillTrue
  <2> QED
    BY <2>6, <2>7 DEF RecoveryInv
<1> QED
  BY <1>3, <1>4

LEMMA CrashKeeps ==
    ASSUME RecoveryAssumption, RecoveryInv, Crash
    PROVE  RecoveryInv'
<1>1. /\ Typed /\ Launched # Replacement /\ Recorders = {Launched, Replacement}
      /\ temp' = temp /\ final' = final /\ marked' = marked /\ wrote' = wrote
      /\ misread' = misread /\ old' = Ids
      /\ recorder' = [s \in Recorders |-> Off] /\ used' = [used EXCEPT !.crashes = @ + 1]
  BY Basics DEF Crash, SameFiles, Ids
<1>2. recorder' \in [Recorders -> RecorderState] /\ \A s \in Recorders : At(s)' = "off"
  BY <1>1, AttemptsFacts DEF At, Off
<1>3. /\ used' \in [sessions : 0 .. MaxSessions, crashes : Nat, foreign : Nat]
      /\ used'.sessions = used.sessions /\ Ids' = Ids
  BY <1>1 DEF Typed, Ids
<1>4. Typed' /\ Roles'
  BY <1>1, <1>2, <1>3 DEF Typed, Roles, Recovery
<1>5. ASSUME ~misread'
      PROVE  (Numbered /\ Reserved /\ Claimed /\ StillTrue /\ KeptInv)'
  <2>1. Numbered /\ Reserved /\ Claimed /\ StillTrue /\ KeptInv
    BY <1>1, <1>5 DEF RecoveryInv
  <2>2. Numbered'
    BY <1>1, <1>2, <1>3, <2>1 DEF Numbered, Owns, Foreign
  <2>3. Reserved' /\ StillTrue'
    BY <1>1, <1>2 DEF Reserved, StillTrue, FoundTrue, EmptiedTrue, MovedTrue, Owns
  <2>4. Claimed'
    BY <1>1, <1>2, <2>1 DEF Claimed, Finished
  <2>5. KeptInv'
    BY <1>1, <1>2, <2>1 DEF KeptInv, HasFile
  <2> QED
    BY <2>2, <2>3, <2>4, <2>5
<1> QED
  BY <1>4, <1>5 DEF RecoveryInv

LEMMA AppearsKeeps ==
    ASSUME RecoveryAssumption, RecoveryInv, Appears
    PROVE  RecoveryInv'
<1>1. /\ Typed /\ Roles /\ Launched # Replacement /\ Recorders = {Launched, Replacement}
      /\ temp' = temp /\ marked' = marked /\ wrote' = wrote /\ recorder' = recorder
      /\ misread' = misread /\ old' = old /\ used' = [used EXCEPT !.foreign = @ + 1]
  BY Basics DEF Appears
<1>2. PICK n \in Names : ~Finished(n) /\ final' = [final EXCEPT ![n] = Foreign]
  BY DEF Appears, Foreign, Names
<1>3. /\ final' \in [Names -> Nat] /\ final'[n] = Foreign /\ final[n] = 0
      /\ \A k \in Names : k # n => final'[k] = final[k]
      /\ \A k \in Names : final[k] # 0 => final'[k] = final[k]
  BY <1>1, <1>2, Basics DEF Typed, Finished
<1>4. /\ used' \in [sessions : 0 .. MaxSessions, crashes : Nat, foreign : Nat]
      /\ used'.sessions = used.sessions /\ Ids' = Ids /\ Foreign # 0
  BY <1>1, Basics DEF Typed, Ids
<1>5. Typed' /\ Roles'
  BY <1>1, <1>3, <1>4 DEF Typed, Roles, At
<1>6. ASSUME ~misread'
      PROVE  (Numbered /\ Reserved /\ Claimed /\ StillTrue /\ KeptInv)'
  <2>1. Numbered /\ Reserved /\ Claimed /\ StillTrue /\ KeptInv
    BY <1>1, <1>6 DEF RecoveryInv
  <2>2. /\ \A s \in Recorders : recorder[s].name \in Names /\ recorder[s].dest \in Names
        /\ wrote \in SUBSET Ids /\ 0 \notin wrote
    BY <2>1, Basics DEF Numbered
  <2>3. \A k \in Names : Finished(k) => final'[k] # 0
    BY <1>3 DEF Finished
  <2>4. Numbered'
    BY <1>1, <1>3, <1>4, <2>1 DEF Numbered, Owns, At, Here, Foreign
  <2>5. Reserved'
    BY <1>1, <1>3, <1>4, <2>1, <2>2, <2>3
       DEF Reserved, Recovered, Recording, Moved, Finished, RecorderName, Owns, At, Here, Foreign
  <2>6. Claimed'
    BY <1>1, <1>3, <2>1 DEF Claimed, Finished, RecorderName, At
  <2>7. FoundTrue' /\ EmptiedTrue'
    BY <1>1, <2>1 DEF StillTrue, FoundTrue, EmptiedTrue, Recording, RecorderName, At, Here
  <2>8. MovedTrue'
    BY <1>1, <1>3, <2>1, <2>2, <2>3
       DEF StillTrue, MovedTrue, Recording, Finished, RecorderName, Owns, At, Here
  <2>9. \A x : x # 0 /\ HasFile(x) => HasFile(x)'
    BY <1>1, <1>3 DEF HasFile
  <2>10. KeptInv'
    <3>1. \A x \in wrote : HasFile(x)'
      BY <2>1, <2>2, <2>9 DEF KeptInv
    <3>2. ASSUME NEW s \in Recorders, At(s)' = "recording"
          PROVE  HasFile(recorder[s].id)'
      <4>1. PICK x : x = recorder[s].id /\ x \in Ids
        BY <1>1, <3>2, <2>1 DEF Owns, Numbered, At
      <4>2. HasFile(x)'
        BY <1>1, <3>2, <4>1, <2>1, <2>9, Basics DEF KeptInv, At
      <4> QED
        BY <1>1, <4>1, <4>2 DEF HasFile
    <3> QED
      BY <1>1, <3>1, <3>2 DEF KeptInv, At, HasFile
  <2> QED
    BY <2>4, <2>5, <2>6, <2>7, <2>8, <2>10 DEF StillTrue
<1> QED
  BY <1>5, <1>6 DEF RecoveryInv

LEMMA RecoversKeepRoles ==
    ASSUME RecoveryAssumption, RecoveryInv, NEW at \in Recovery \cup {"ready"},
           At(Launched) \in Recovery, Becomes(Launched, at)
    PROVE  /\ At(Launched)' = at /\ At(Replacement)' = At(Replacement)
           /\ recorder'[Replacement] = recorder[Replacement]
           /\ ~Owns(Launched)' /\ Owns(Replacement)' = Owns(Replacement) /\ Roles'
<1>1. Roles /\ Launched # Replacement /\ Recorders = {Launched, Replacement}
  BY Basics
<1>2. /\ At(Launched)' = at /\ At(Replacement)' = At(Replacement)
      /\ recorder'[Replacement] = recorder[Replacement]
  BY <1>1 DEF Becomes, At
<1>3. ~Owns(Launched)' /\ at # "off" /\ At(Launched) # "off"
  BY <1>2 DEF Owns, Recovery
<1>4. Owns(Replacement)' = Owns(Replacement)
  BY <1>2 DEF Owns
<1> QED
  BY <1>1, <1>2, <1>3, <1>4 DEF Roles, Recovery

LEMMA RecoveryFindsKeeps ==
    ASSUME RecoveryAssumption, RecoveryInv, RecoveryFinds(Launched)
    PROVE  RecoveryInv'
<1>1. /\ Typed /\ Roles /\ Launched # Replacement /\ Recorders = {Launched, Replacement}
      /\ temp' = temp /\ final' = final /\ old' = old /\ wrote' = wrote /\ used' = used
      /\ Ids' = Ids /\ At(Launched) = "recovering"
  BY Basics DEF RecoveryFinds, Is, At, Ids
<1>2. PICK n \in Names :
        /\ Recording(n) /\ marked' = marked \cup {n}
        /\ recorder' = [recorder EXCEPT ![Launched].at = "found", ![Launched].name = n,
                   ![Launched].seen = @ \cup {n}, ![Launched].empty = ~temp[n].footage]
        /\ misread' = (misread \/ (~temp[n].footage /\ temp[n].id \notin old))
  BY DEF RecoveryFinds
<1>3. /\ Becomes(Launched, "found") /\ recorder'[Launched].name = n
      /\ recorder'[Launched].empty = ~temp[n].footage
  <2>1. PICK q \in RecorderState : q = recorder[Launched]
    BY <1>1 DEF Typed
  <2>2. PICK e \in BOOLEAN : e = ~temp[n].footage
    OBVIOUS
  <2>3. PICK seen \in SUBSET Names : seen = recorder[Launched].seen \cup {n}
    BY <2>1 DEF RecorderState
  <2>4. [q EXCEPT !.at = "found", !.name = n, !.seen = seen, !.empty = e] \in RecorderState
    BY DEF RecorderState, States
  <2>5. PICK p \in RecorderState : /\ p.at = "found" /\ p.name = n /\ p.empty = e
                                  /\ recorder' = [recorder EXCEPT ![Launched] = p]
    BY <1>1, <1>2, <2>1, <2>2, <2>3, <2>4, Zenon DEF Typed, RecorderState
  <2>6. Becomes(Launched, p.at) /\ recorder'[Launched] = p
    BY <1>1, <2>5, RecorderSet
  <2>7. recorder'[Launched].empty = e /\ p.at = "found" /\ p.name = n
    BY <2>5, <2>6
  <2> QED
    BY <2>2, <2>6, <2>7
<1>4. /\ At(Launched)' = "found" /\ At(Replacement)' = At(Replacement)
      /\ recorder'[Replacement] = recorder[Replacement]
      /\ ~Owns(Launched)' /\ Owns(Replacement)' = Owns(Replacement) /\ Roles'
  BY <1>1, <1>3, RecoversKeepRoles DEF Recovery
<1>5. Typed'
  BY <1>1, <1>2, <1>3 DEF Typed, Becomes
<1>6. ASSUME ~misread'
      PROVE  (Numbered /\ Reserved /\ Claimed /\ StillTrue /\ KeptInv)'
  <2>1. ~misread /\ (temp[n].footage \/ temp[n].id \in old)
    BY <1>2, <1>6
  <2>2. Numbered /\ Reserved /\ Claimed /\ StillTrue /\ KeptInv
    BY <2>1 DEF RecoveryInv
  <2>3. Numbered'
    BY <1>1, <1>4, <2>2 DEF Numbered, At, Here, Foreign
  <2>4. Reserved'
    <3>1. PICK k \in Names : k = recorder[Replacement].name
      BY <1>1, Basics
    <3>2. ASSUME Owns(Replacement)
          PROVE  temp'[k].id = recorder[Replacement].id \/ Recovered(Replacement)'
      BY <1>1, <1>4, <2>2, <3>1, <3>2
         DEF Reserved, Recovered, Recording, Finished, RecorderName, At
    <3>3. ASSUME At(Replacement) \in {"marked", "recording"}, Recording(k)' \/ Moved(k)'
          PROVE  k \in marked' /\ final[k] \in {0, Foreign}
      BY <1>1, <1>2, <1>4, <2>2, <3>1, <3>3 DEF Reserved, Recording, Moved, RecorderName
    <3> QED
      BY <1>1, <1>4, <3>1, <3>2, <3>3 DEF Reserved, RecorderName, Owns, At, Foreign
  <2>5. Claimed'
    BY <1>1, <1>2, <1>4, <2>2 DEF Claimed, Finished, RecorderName, Recovery
  <2>6. StillTrue'
    <3>1. recorder'[Launched].empty => ~temp[n].footage /\ temp[n].id \in old
      BY <1>3, <2>1
    <3>2. ~recorder'[Launched].empty => temp[n].footage
      BY <1>3
    <3>3. recorder'[Launched].name = n /\ n \in marked' /\ temp[n].id # 0
      BY <1>2, <1>3 DEF Recording
    <3> QED
      BY <1>1, <1>4, <3>1, <3>2, <3>3
         DEF StillTrue, FoundTrue, EmptiedTrue, MovedTrue, Recording, RecorderName
  <2>7. KeptInv'
    BY <1>1, <1>4, <2>2 DEF KeptInv, HasFile, At
  <2> QED
    BY <2>3, <2>4, <2>5, <2>6, <2>7
<1> QED
  BY <1>4, <1>5, <1>6 DEF RecoveryInv

LEMMA RecoveryRemovesKeeps ==
    ASSUME RecoveryAssumption, RecoveryInv, RecoveryRemoves(Launched)
    PROVE  RecoveryInv'
<1>1. /\ Typed /\ Roles /\ Launched # Replacement /\ Recorders = {Launched, Replacement}
      /\ final' = final /\ old' = old /\ wrote' = wrote /\ used' = used
      /\ misread' = misread /\ Ids' = Ids /\ At(Launched) \in {"found", "emptied"}
  BY Basics DEF RecoveryRemoves, Is, At, Ids, SameProcess
<1>2. PICK n \in Names : n = RecorderName(Launched)
  BY Basics DEF RecorderName
<1>3. CASE At(Launched) = "found"
  <2>1. recorder[Launched].empty /\ temp' = [temp EXCEPT ![n] = NoFile] /\ marked' = marked
        /\ Becomes(Launched, "emptied") /\ SameName(Launched)
    BY <1>1, <1>2, <1>3, GoEffect DEF RecoveryRemoves, Is, At, States
  <2>2. Puts(n, NoFile) /\ temp'[n].id = 0 /\ ~temp'[n].footage
    BY <1>1, <2>1, AttemptsFacts, PutsEffect, Zenon DEF Puts
  <2>3. /\ At(Launched)' = "emptied" /\ At(Replacement)' = At(Replacement)
        /\ recorder'[Replacement] = recorder[Replacement]
        /\ ~Owns(Launched)' /\ Owns(Replacement)' = Owns(Replacement) /\ Roles'
    BY <1>3, <2>1, RecoversKeepRoles DEF Recovery
  <2>4. Typed'
    BY <1>1, <2>1, <2>2 DEF Typed, Becomes, Puts
  <2>5. ASSUME ~misread'
        PROVE  (Numbered /\ Reserved /\ Claimed /\ StillTrue /\ KeptInv)'
    <3>1. Numbered /\ Reserved /\ Claimed /\ StillTrue /\ KeptInv
      BY <1>1, <2>5 DEF RecoveryInv
    <3>2. /\ \A s \in Recorders : recorder[s].name \in Names /\ recorder[s].dest \in Names
          /\ recorder'[Launched].name = n /\ wrote \in SUBSET Ids /\ old \in SUBSET Ids
          /\ 0 \notin Ids /\ \A k \in Names : k # n => temp'[k] = temp[k]
      BY <1>2, <2>1, <2>2, <3>1, Basics DEF Numbered, SameName, RecorderName, Puts
    <3>3. /\ temp[n].id \in old /\ temp[n].id \notin wrote /\ n \in marked /\ Recording(n)
      BY <1>2, <1>3, <2>1, <3>1, <3>2 DEF StillTrue, FoundTrue, Numbered, Recording
    <3>4. \A s \in Recorders : Owns(s) => recorder[s].id # temp[n].id /\ recorder[s].name # n
      BY <1>2, <3>1, <3>3 DEF Numbered, Reserved, Recovered, RecorderName
    <3>5. Numbered'
      BY <1>1, <2>2, <2>3, <3>1, <3>2 DEF Numbered, At, Here, Foreign
    <3>6. Reserved'
      <4>1. PICK k \in Names : k = recorder[Replacement].name
        BY <1>1, <3>2
      <4>2. ASSUME Owns(Replacement)
            PROVE  temp'[k].id = recorder[Replacement].id \/ Recovered(Replacement)'
        BY <1>1, <2>3, <3>1, <3>2, <3>4, <4>1, <4>2
           DEF Reserved, Recovered, Recording, Finished, RecorderName, At
      <4>3. ASSUME At(Replacement) \in {"marked", "recording"}, Recording(k)' \/ Moved(k)'
            PROVE  k \in marked /\ final[k] \in {0, Foreign}
        BY <1>1, <2>3, <3>1, <3>2, <3>4, <4>1, <4>3
           DEF Reserved, Recording, Moved, RecorderName, Owns
      <4> QED
        BY <1>1, <2>1, <2>3, <4>1, <4>2, <4>3 DEF Reserved, RecorderName, Owns, At, Foreign
    <3>7. Claimed'
      BY <1>1, <1>3, <2>1, <2>2, <2>3, <3>1, <3>2 DEF Claimed, Finished, RecorderName, Recovery
    <3>8. StillTrue'
      BY <1>1, <2>1, <2>2, <2>3, <3>2, <3>3, <3>4
         DEF StillTrue, FoundTrue, EmptiedTrue, MovedTrue, RecorderName, Here, Owns
    <3>9. KeptInv'
      <4>1. \A x : x # temp[n].id /\ HasFile(x) => HasFile(x)'
        BY <1>1, <3>2 DEF HasFile
      <4>2. ASSUME At(Replacement) = "recording" PROVE HasFile(recorder[Replacement].id)'
        <5>1. PICK x : x = recorder[Replacement].id
          OBVIOUS
        <5>2. HasFile(x)'
          BY <1>1, <4>1, <4>2, <5>1, <3>1, <3>4 DEF KeptInv, Owns
        <5> QED
          BY <2>3, <5>1, <5>2 DEF HasFile
      <4> QED
        BY <1>1, <2>3, <3>1, <3>3, <4>1, <4>2 DEF KeptInv, HasFile, At
    <3> QED
      BY <3>5, <3>6, <3>7, <3>8, <3>9
  <2> QED
    BY <2>3, <2>4, <2>5 DEF RecoveryInv
<1>4. CASE At(Launched) = "emptied"
  <2>1. temp' = temp /\ marked' = marked \ {n} /\ Becomes(Launched, "recovering")
    BY <1>1, <1>2, <1>4, GoEffect DEF RecoveryRemoves, Is, At, States
  <2>2. /\ At(Launched)' = "recovering" /\ At(Replacement)' = At(Replacement)
        /\ recorder'[Replacement] = recorder[Replacement]
        /\ ~Owns(Launched)' /\ Owns(Replacement)' = Owns(Replacement) /\ Roles'
    BY <1>4, <2>1, RecoversKeepRoles DEF Recovery
  <2>3. Typed'
    BY <1>1, <2>1 DEF Typed, Becomes
  <2>4. ASSUME ~misread'
        PROVE  (Numbered /\ Reserved /\ Claimed /\ StillTrue /\ KeptInv)'
    <3>1. Numbered /\ Reserved /\ Claimed /\ StillTrue /\ KeptInv
      BY <1>1, <2>4 DEF RecoveryInv
    <3>2. /\ ~temp[n].footage
          /\ At(Replacement) \in {"marked", "recording"} => recorder[Replacement].name # n
      BY <1>2, <1>4, <3>1 DEF StillTrue, EmptiedTrue, Here
    <3>3. Numbered'
      BY <1>1, <2>1, <2>2, <3>1 DEF Numbered, At, Here, Foreign
    <3>4. Reserved'
      BY <1>1, <2>1, <2>2, <3>1, <3>2
         DEF Reserved, Recovered, Recording, Moved, Finished, RecorderName, Owns, At, Here, Foreign
    <3>5. Claimed'
      BY <1>1, <1>4, <2>1, <2>2, <3>1, <3>2 DEF Claimed, Finished, RecorderName, Recovery
    <3>6. StillTrue'
      BY <2>2 DEF StillTrue, FoundTrue, EmptiedTrue, MovedTrue
    <3>7. KeptInv'
      BY <1>1, <2>1, <2>2, <3>1 DEF KeptInv, HasFile, At
    <3> QED
      BY <3>3, <3>4, <3>5, <3>6, <3>7
  <2> QED
    BY <2>2, <2>3, <2>4 DEF RecoveryInv
<1> QED
  BY <1>1, <1>3, <1>4

LEMMA DestinationFacts ==
    ASSUME RecoveryAssumption, NEW n \in Names, NEW m \in Names, Destination(n, m)
    PROVE  /\ final[m] = 0
           /\ m # n => m \notin marked /\ Finished(n)
<1>1. PICK i \in DOMAIN RecoveredAs[n] : /\ m = RecoveredAs[n][i] /\ Available(n, m)
                                        /\ \A j \in 1 .. i - 1 : ~Available(n, RecoveredAs[n][j])
  BY DEF Destination
<1>2. /\ RecoveredAs[n] \in Seq(Names) /\ 1 \in DOMAIN RecoveredAs[n] /\ RecoveredAs[n][1] = n
  BY DEF RecoveryAssumption
<1>3. final[m] = 0 /\ (m # n => m \notin marked)
  BY <1>1 DEF Available, Finished
<1>4. ASSUME m # n PROVE Finished(n)
  <2>1. i # 1 /\ i \in 1 .. Len(RecoveredAs[n])
    BY <1>1, <1>2, <1>4, LenProperties
  <2>2. 1 \in 1 .. i - 1
    BY <1>2, <2>1, LenProperties
  <2>3. ~Available(n, n)
    BY <1>1, <1>2, <2>2
  <2> QED
    BY <2>3 DEF Available
<1> QED
  BY <1>3, <1>4

LEMMA RecoveryRenamesKeeps ==
    ASSUME RecoveryAssumption, RecoveryInv, RecoveryRenames(Launched)
    PROVE  RecoveryInv'
<1>1. /\ Typed /\ Roles /\ Launched # Replacement /\ Recorders = {Launched, Replacement}
      /\ marked' = marked /\ old' = old /\ wrote' = wrote /\ used' = used
      /\ misread' = misread /\ Ids' = Ids /\ At(Launched) = "found" /\ ~recorder[Launched].empty
  BY Basics DEF RecoveryRenames, Is, At, Ids, SameProcess
<1>2. PICK n \in Names : n = RecorderName(Launched)
  BY Basics DEF RecorderName
<1>3. PICK m \in Names :
        /\ Destination(n, m)
        /\ \/ /\ Recording(n)
              /\ final' = [final EXCEPT ![m] = temp[n].id]
              /\ temp' = [temp EXCEPT ![n] = NoFile]
              /\ recorder' = [recorder EXCEPT
                                 ![Launched].at = IF m = n THEN "recovering" ELSE "moved",
                                 ![Launched].dest = m]
           \/ /\ ~Recording(n)
              /\ Go(Launched, "ready") /\ UNCHANGED <<temp, final>>
  BY <1>2 DEF RecoveryRenames
<1>4. final[m] = 0 /\ (m # n => m \notin marked /\ Finished(n))
  BY <1>3, DestinationFacts
<1>5. CASE ~Recording(n)
  <2>1. SameData /\ Becomes(Launched, "ready")
    BY <1>1, <1>3, <1>5, GoEffect DEF SameData, States
  <2> QED
    BY <1>1, <2>1, LeavesKeeps
<1>6. CASE Recording(n)
  <2>1. PICK at \in {"recovering", "moved"} : at = IF m = n THEN "recovering" ELSE "moved"
    OBVIOUS
  <2>2. /\ Becomes(Launched, at) /\ recorder'[Launched].name = n
        /\ recorder'[Launched].dest = m
    <3>1. PICK q \in RecorderState : q = recorder[Launched]
      BY <1>1 DEF Typed
    <3>2. [q EXCEPT !.at = at, !.dest = m] \in RecorderState
      BY DEF RecorderState, States
    <3>3. PICK p \in RecorderState : /\ p.at = at /\ p.name = n /\ p.dest = m
                                    /\ recorder' = [recorder EXCEPT ![Launched] = p]
      BY <1>1, <1>2, <1>3, <1>6, <2>1, <3>1, <3>2 DEF RecorderName, Typed, RecorderState
    <3> QED
      BY <1>1, <3>3, RecorderSet
  <2>3. Puts(n, NoFile) /\ temp'[n].id = 0 /\ ~temp'[n].footage
    BY <1>1, <1>3, <1>6, AttemptsFacts, PutsEffect DEF Puts
  <2>4. /\ final' \in [Names -> Nat] /\ final'[m] = temp[n].id
        /\ \A k \in Names : k # m => final'[k] = final[k]
        /\ \A k \in Names : k # n => temp'[k] = temp[k]
    BY <1>1, <1>3, <1>6, <2>3 DEF Typed, Puts
  <2>5. /\ At(Launched)' = at /\ At(Replacement)' = At(Replacement)
        /\ recorder'[Replacement] = recorder[Replacement]
        /\ ~Owns(Launched)' /\ Owns(Replacement)' = Owns(Replacement) /\ Roles'
    BY <1>1, <2>1, <2>2, RecoversKeepRoles DEF Recovery
  <2>6. Typed'
    BY <1>1, <2>2, <2>3, <2>4 DEF Typed, Becomes, Puts
  <2>7. ASSUME ~misread'
        PROVE  (Numbered /\ Reserved /\ Claimed /\ StillTrue /\ KeptInv)'
    <3>1. Numbered /\ Reserved /\ Claimed /\ StillTrue /\ KeptInv
      BY <1>1, <2>7 DEF RecoveryInv
    <3>2. /\ \A s \in Recorders : recorder[s].name \in Names /\ recorder[s].dest \in Names
          /\ wrote \in SUBSET Ids /\ 0 \notin Ids /\ Foreign \notin Ids
      BY <3>1, Basics DEF Numbered
    <3>3. temp[n].footage /\ temp[n].id \in wrote /\ temp[n].id \in Ids
      BY <1>1, <1>2, <1>6, <3>1, <3>2 DEF StillTrue, FoundTrue, Numbered
    <3>4. PICK k \in Names : k = recorder[Replacement].name
      BY <1>1, <3>2
    <3>5. Owns(Replacement) => recorder[Replacement].id \in Ids
      BY <1>1, <3>1 DEF Numbered
    <3>6. Owns(Replacement) /\ k = n => At(Replacement) = "recording"
                                       /\ temp[n].id = recorder[Replacement].id
      BY <1>1, <1>6, <3>1, <3>3, <3>4 DEF Numbered, Reserved, Recovered, RecorderName, Owns
    <3>7. At(Replacement) \in {"marked", "recording"} /\ m # n => k # m
      BY <1>1, <1>4, <3>1, <3>2, <3>4, <3>5
         DEF Reserved, Recovered, Recording, Finished, RecorderName, Owns
    <3>8. Numbered'
      <4>1. \A x \in Names : /\ temp'[x].id \in Ids \cup {0}
                             /\ temp'[x].footage <=> temp'[x].id \in wrote
                             /\ final'[x] \in Ids \cup {0, Foreign}
        BY <2>3, <2>4, <3>1, <3>2, <3>3 DEF Numbered
      <4>2. Owns(Replacement) =>
              /\ recorder[Replacement].id \in Ids \ old
              /\ At(Replacement) # "recording" => recorder[Replacement].id \notin wrote
              /\ \A x \in Names : temp'[x].id = recorder[Replacement].id => x = k
        BY <1>1, <2>3, <2>4, <3>1, <3>2, <3>4 DEF Numbered, Here
      <4>3. old \in SUBSET Ids /\ wrote \in SUBSET Ids
        BY <3>1 DEF Numbered
      <4> QED
        BY <1>1, <2>5, <3>4, <4>1, <4>2, <4>3 DEF Numbered, At, Here, Foreign
    <3>9. Reserved'
      <4>1. ASSUME Owns(Replacement)
            PROVE  temp'[k].id = recorder[Replacement].id \/ Recovered(Replacement)'
        <5>1. CASE k = n
          <6>1. final'[n] # 0
            BY <1>4, <2>4, <3>2, <3>3 DEF Finished
          <6> QED
            BY <1>1, <2>1, <2>3, <2>5, <3>4, <3>6, <4>1, <5>1, <6>1
               DEF Recovered, Recording, Finished, RecorderName, At
        <5>2. CASE k # n
          <6>1. temp'[k] = temp[k] /\ (final[k] # 0 => final'[k] # 0)
            BY <2>4, <3>2, <3>3, <5>2
          <6> QED
            BY <1>1, <2>1, <2>5, <3>1, <3>4, <4>1, <5>2, <6>1
               DEF Reserved, Recovered, Recording, Finished, RecorderName, At
        <5> QED
          BY <5>1, <5>2
      <4>2. ASSUME At(Replacement) \in {"marked", "recording"}, Recording(k)' \/ Moved(k)'
            PROVE  k \in marked /\ final'[k] \in {0, Foreign}
        <5>1. CASE k = n
          <6>1. k # m
            BY <2>1, <2>3, <2>5, <4>2, <5>1 DEF Recording, Moved
          <6> QED
            BY <1>1, <1>6, <2>4, <3>1, <3>4, <4>2, <5>1, <6>1 DEF Reserved, RecorderName
        <5>2. CASE k # n
          <6>1. Recording(k)
            BY <2>2, <2>4, <4>2, <5>2 DEF Recording, Moved, Here
          <6>2. k \in marked /\ final[k] \in {0, Foreign}
            BY <1>1, <3>1, <3>4, <4>2, <6>1 DEF Reserved, RecorderName
          <6>3. k # m
            BY <3>7, <4>2, <5>2
          <6> QED
            BY <2>4, <6>2, <6>3
        <5> QED
          BY <5>1, <5>2
      <4> QED
        BY <1>1, <2>5, <3>4, <4>1, <4>2 DEF Reserved, RecorderName, Owns, At, Foreign
    <3>10. Claimed'
      BY <1>1, <2>1, <2>3, <2>4, <2>5, <3>1, <3>2, <3>3, <3>4
         DEF Claimed, Finished, RecorderName, Recovery
    <3>11. StillTrue'
      <4>1. CASE m = n
        BY <4>1, <2>1, <2>5 DEF StillTrue, FoundTrue, EmptiedTrue, MovedTrue
      <4>2. CASE m # n
        <5>1. final'[n] # 0 /\ temp'[n].id = 0 /\ final'[m] \in wrote /\ ~temp'[m].footage
          BY <1>4, <2>3, <2>4, <3>1, <3>3, <4>2 DEF Claimed, Finished
        <5>2. At(Replacement) \in {"named", "created", "marked"} => k # n
          BY <1>1, <3>1, <3>3, <3>4, <3>6 DEF Claimed, RecorderName, Recovery, Owns
        <5>3. Owns(Replacement) => (final'[m] = recorder[Replacement].id <=> k = n)
          BY <1>1, <2>4, <3>1, <3>4, <3>6 DEF Numbered, Here
        <5> QED
          BY <2>1, <2>2, <2>5, <3>4, <3>7, <4>2, <5>1, <5>2, <5>3, <1>1
             DEF StillTrue, FoundTrue, EmptiedTrue, MovedTrue, RecorderName, Here, Finished,
                 Recording
      <4> QED
        BY <4>1, <4>2
    <3>12. \A x \in Ids : HasFile(x) => HasFile(x)'
      BY <1>4, <2>4, <3>2, <3>3 DEF HasFile
    <3>13. KeptInv'
      <4>1. \A x \in wrote : HasFile(x)'
        BY <3>1, <3>2, <3>12 DEF KeptInv
      <4>2. ASSUME At(Replacement) = "recording" PROVE HasFile(recorder[Replacement].id)'
        <5>1. PICK x \in Ids : x = recorder[Replacement].id
          BY <3>5, <4>2 DEF Owns
        <5>2. HasFile(x)'
          BY <1>1, <3>1, <3>12, <4>2, <5>1 DEF KeptInv
        <5> QED
          BY <2>5, <5>1, <5>2 DEF HasFile
      <4> QED
        BY <1>1, <2>1, <2>5, <4>1, <4>2 DEF KeptInv, HasFile, At
    <3> QED
      BY <3>8, <3>9, <3>10, <3>11, <3>13
  <2> QED
    BY <2>5, <2>6, <2>7 DEF RecoveryInv
<1> QED
  BY <1>5, <1>6

LEMMA RecoveryMovesMarkerKeeps ==
    ASSUME RecoveryAssumption, RecoveryInv, RecoveryMovesMarker(Launched)
    PROVE  RecoveryInv'
<1>1. /\ Typed /\ Roles /\ Launched # Replacement /\ Recorders = {Launched, Replacement}
      /\ old' = old /\ wrote' = wrote /\ used' = used
      /\ misread' = misread /\ Ids' = Ids /\ At(Launched) = "moved"
  BY Basics DEF RecoveryMovesMarker, Is, At, Ids, SameProcess
<1>2. PICK n \in Names, m \in Names : n = RecorderName(Launched) /\ m = recorder[Launched].dest
  BY Basics DEF RecorderName
<1>3. PICK at \in {"recovering", "ready"} :
        /\ Go(Launched, at)
        /\ \/ /\ at = "recovering" /\ marked' = (marked \ {n}) \cup {m}
              /\ temp' = temp /\ final' = final
           \/ /\ at = "ready" /\ marked' = marked
              /\ temp' = [temp EXCEPT ![n] = [id |-> final[m], footage |-> TRUE]]
              /\ final' = [final EXCEPT ![m] = 0]
  BY <1>2 DEF RecoveryMovesMarker
<1>4. Becomes(Launched, at)
  BY <1>1, <1>3, GoEffect DEF States
<1>5. /\ At(Launched)' = at /\ At(Replacement)' = At(Replacement)
      /\ recorder'[Replacement] = recorder[Replacement]
      /\ ~Owns(Launched)' /\ Owns(Replacement)' = Owns(Replacement) /\ Roles'
  BY <1>1, <1>4, RecoversKeepRoles DEF Recovery
<1>6. at = "ready" =>
        /\ temp' \in [Names -> [id : Nat, footage : BOOLEAN]] /\ final' \in [Names -> Nat]
        /\ temp'[n].id = final[m] /\ temp'[n].footage /\ final'[m] = 0
        /\ \A k \in Names : k # m => final'[k] = final[k]
        /\ \A k \in Names : k # n => temp'[k] = temp[k]
  <2>1. final \in [Names -> Nat]
    BY <1>1 DEF Typed
  <2>2. PICK f \in [id : Nat, footage : BOOLEAN] : f = [id |-> final[m], footage |-> TRUE]
    BY <2>1
  <2>3. f.id = final[m] /\ f.footage
    BY <2>2
  <2>4. at = "ready" => Puts(n, f) /\ final' = [final EXCEPT ![m] = 0]
    BY <1>1, <1>3, <2>2, PutsEffect
  <2> QED
    BY <2>1, <2>3, <2>4 DEF Puts
<1>7. Typed'
  BY <1>1, <1>3, <1>4, <1>6 DEF Typed, Becomes
<1>8. ASSUME ~misread'
      PROVE  (Numbered /\ Reserved /\ Claimed /\ StillTrue /\ KeptInv)'
  <2>1. Numbered /\ Reserved /\ Claimed /\ StillTrue /\ KeptInv
    BY <1>1, <1>8 DEF RecoveryInv
  <2>2. PICK k \in Names : k = recorder[Replacement].name
    BY <1>1, Basics
  <2>3. /\ m # n /\ final[n] # 0 /\ temp[n].id = 0 /\ final[m] \in wrote /\ ~temp[m].footage
        /\ At(Replacement) \in {"named", "created", "marked"} => k # n
        /\ At(Replacement) \in {"marked", "recording"} => k # m
        /\ Owns(Replacement) => (final[m] = recorder[Replacement].id <=> k = n)
    BY <1>1, <1>2, <2>1, <2>2 DEF StillTrue, MovedTrue, RecorderName, Here, Finished, Recording
  <2>4. wrote \in SUBSET Ids /\ 0 \notin Ids /\ Foreign \notin Ids /\ ~temp[n].footage
    BY <2>1, <2>3, Basics DEF Numbered
  <2>5. StillTrue'
    BY <1>5 DEF StillTrue, FoundTrue, EmptiedTrue, MovedTrue
  <2>6. CASE at = "recovering"
    <3>1. temp' = temp /\ final' = final /\ marked' = (marked \ {n}) \cup {m}
      BY <1>3, <2>6
    <3>2. Numbered'
      BY <1>1, <1>5, <2>1, <3>1 DEF Numbered, At, Here, Foreign
    <3>3. Reserved'
      <4>1. ASSUME Owns(Replacement)
            PROVE  temp[k].id = recorder[Replacement].id \/ Recovered(Replacement)'
        BY <1>1, <1>5, <2>1, <2>2, <2>6, <3>1, <4>1
           DEF Reserved, Recovered, Recording, Finished, RecorderName, At
      <4>2. ASSUME At(Replacement) \in {"marked", "recording"}, Recording(k)' \/ Moved(k)'
            PROVE  k \in marked' /\ final[k] \in {0, Foreign}
        BY <1>1, <1>5, <2>1, <2>2, <2>3, <2>6, <3>1, <4>2
           DEF Reserved, Recording, Moved, RecorderName
      <4> QED
        BY <1>1, <1>5, <2>2, <3>1, <4>1, <4>2 DEF Reserved, RecorderName, Owns, At, Foreign
    <3>4. Claimed'
      BY <1>1, <1>5, <2>1, <2>4, <3>1 DEF Claimed, Finished, RecorderName, Recovery
    <3>5. KeptInv'
      BY <1>1, <1>5, <2>1, <3>1 DEF KeptInv, HasFile, At
    <3> QED
      BY <2>5, <3>2, <3>3, <3>4, <3>5
  <2>7. CASE at = "ready"
    <3>1. marked' = marked
      BY <1>3, <2>7
    <3>2. Numbered'
      <4>1. \A x \in Names : /\ temp'[x].id \in Ids \cup {0}
                             /\ temp'[x].footage <=> temp'[x].id \in wrote
                             /\ final'[x] \in Ids \cup {0, Foreign}
        BY <1>6, <2>1, <2>3, <2>4, <2>7 DEF Numbered
      <4>2. Owns(Replacement) =>
              /\ recorder[Replacement].id \in Ids \ old
              /\ At(Replacement) # "recording" => recorder[Replacement].id \notin wrote
              /\ \A x \in Names : temp'[x].id = recorder[Replacement].id => x = k
        BY <1>1, <1>6, <2>1, <2>2, <2>3, <2>7 DEF Numbered, Here
      <4>3. old \in SUBSET Ids /\ wrote \in SUBSET Ids
        BY <2>1 DEF Numbered
      <4> QED
        BY <1>1, <1>5, <2>2, <4>1, <4>2, <4>3 DEF Numbered, At, Here, Foreign
    <3>3. Reserved'
      <4>1. ASSUME Owns(Replacement)
            PROVE  temp'[k].id = recorder[Replacement].id \/ Recovered(Replacement)'
        <5>1. CASE k = n
          BY <1>6, <2>3, <2>7, <4>1, <5>1
        <5>2. CASE k # n
          <6>1. temp'[k] = temp[k] /\ (At(Replacement) = "recording" => final'[k] = final[k])
            BY <1>6, <2>3, <2>7, <5>2
          <6> QED
            BY <1>1, <1>5, <2>1, <2>2, <2>7, <4>1, <6>1
               DEF Reserved, Recovered, Recording, Finished, RecorderName, At
        <5> QED
          BY <5>1, <5>2
      <4>2. ASSUME At(Replacement) \in {"marked", "recording"}, Recording(k)' \/ Moved(k)'
            PROVE  k \in marked /\ final'[k] \in {0, Foreign}
        <5>1. k # m /\ final'[k] = final[k] /\ (Recording(k) \/ Moved(k))
          BY <1>1, <1>2, <1>5, <1>6, <2>3, <2>7, <4>2 DEF Recording, Moved, Here, RecorderName
        <5> QED
          BY <1>1, <2>1, <2>2, <4>2, <5>1 DEF Reserved, RecorderName
      <4> QED
        BY <1>1, <1>5, <2>2, <3>1, <4>1, <4>2 DEF Reserved, RecorderName, Owns, At, Foreign
    <3>4. Claimed'
      BY <1>1, <1>5, <1>6, <2>1, <2>3, <2>7, <3>1 DEF Claimed, Finished, RecorderName, Recovery
    <3>5. \A x \in Ids : HasFile(x) => HasFile(x)'
      BY <1>6, <2>3, <2>4, <2>7 DEF HasFile
    <3>6. KeptInv'
      <4>1. \A x \in wrote : HasFile(x)'
        BY <2>1, <2>4, <3>5 DEF KeptInv
      <4>2. ASSUME At(Replacement) = "recording" PROVE HasFile(recorder[Replacement].id)'
        <5>1. PICK x \in Ids : x = recorder[Replacement].id
          BY <1>1, <2>1, <4>2 DEF Owns, Numbered
        <5>2. HasFile(x)'
          BY <1>1, <2>1, <3>5, <4>2, <5>1 DEF KeptInv
        <5> QED
          BY <1>5, <5>1, <5>2 DEF HasFile
      <4> QED
        BY <1>1, <1>5, <2>7, <4>1, <4>2 DEF KeptInv, HasFile, At
    <3> QED
      BY <2>5, <3>2, <3>3, <3>4, <3>6
  <2> QED
    BY <2>6, <2>7
<1> QED
  BY <1>5, <1>7, <1>8 DEF RecoveryInv

-----------------------------------------------------------------------------
LEMMA RecoveryInvInit ==
    ASSUME RecoveryAssumption, RecoveryInit
    PROVE  RecoveryInv
<1>1. /\ temp \in [Names -> [id : Nat, footage : BOOLEAN]]
      /\ final \in [Names -> Nat] /\ recorder \in [Recorders -> RecorderState]
      /\ \A n \in Names : temp[n].id = 0 /\ ~temp[n].footage /\ final[n] = 0
      /\ \A r \in Recorders : At(r) = "off"
  BY AttemptsFacts DEF RecoveryInit, At, Off
<1>2. /\ used \in [sessions : 0 .. MaxSessions, crashes : Nat, foreign : Nat]
      /\ marked = {} /\ old = {} /\ wrote = {} /\ misread = FALSE
      /\ Launched \in Recorders /\ Replacement \in Recorders
  BY AttemptsFacts DEF RecoveryInit, Recorders
<1>3. Typed /\ Roles
  BY <1>1, <1>2 DEF Typed, Roles, Recovery
<1>4. Numbered /\ Reserved /\ Claimed /\ StillTrue /\ KeptInv
  BY <1>1, <1>2 DEF Numbered, Owns, Reserved, Claimed, StillTrue, FoundTrue, EmptiedTrue,
                    MovedTrue, KeptInv
<1> QED
  BY <1>3, <1>4 DEF RecoveryInv

LEMMA RecoveryInvStutters ==
    ASSUME RecoveryInv, UNCHANGED sessionVars
    PROVE  RecoveryInv'
BY DEF RecoveryInv, Typed, Roles, Numbered, Reserved, Recovered, Moved, Claimed, StillTrue,
       FoundTrue, EmptiedTrue, MovedTrue, KeptInv, HasFile, At, Owns, Ids, Here, RecorderName,
       Recording, Finished, sessionVars

LEMMA RecoveryInvStep ==
    ASSUME RecoveryAssumption, RecoveryInv, RecoveryNext
    PROVE  RecoveryInv'
<1>1. CASE Crash \/ Appears
  BY <1>1, CrashKeeps, AppearsKeeps
<1>2. ASSUME NEW r \in Recorders, Recovers(r)
      PROVE  RecoveryInv'
  <2>1. At(r) \in Recovery
    BY <1>2 DEF Recovers, RecoveryFinds, RecoveryRemoves, RecoveryRenames, RecoveryMovesMarker,
                RecoveryEnds, Is, At, Recovery
  <2>2. r = Launched
    BY <2>1, Basics DEF Roles
  <2> QED
    BY <1>2, <2>2, RecoveryFindsKeeps, RecoveryRemovesKeeps, RecoveryRenamesKeeps,
       RecoveryMovesMarkerKeeps, RecoveryEndsKeeps DEF Recovers
<1>3. ASSUME NEW r \in Recorders, Start(r) \/ Prepares(r) \/ Records(r)
      PROVE  RecoveryInv'
  BY <1>3, StartKeeps, LooksKeeps, CreatesKeeps, MarksKeeps, ReservesKeeps, WritesKeeps,
     FinishesKeeps, FinishFailsKeeps DEF Prepares, Records
<1> QED
  BY <1>1, <1>2, <1>3 DEF RecoveryNext

\* What was recorded is there to be found, as a recording or as a clip, whatever crashed and
\* whoever reserved, recovered or finished what beside it, unless recovery came to a session
\* in its first second: reserve_full_session_path_at, the finish of service.rs and
\* recover_recording_files, for any names, sessions, crashes and foreign files.
THEOREM RecordedFootageSurvives ==
    ASSUME RecoveryAssumption
    PROVE  RecoverySpec => []FootageSurvives
<1>1. RecoveryInit => RecoveryInv
  BY RecoveryInvInit
<1>2. RecoveryInv /\ [RecoveryNext]_sessionVars => RecoveryInv'
  BY RecoveryInvStep, RecoveryInvStutters
<1>3. RecoveryInv => FootageSurvives
  BY DEF RecoveryInv, KeptInv, HasFile, FootageSurvives, Kept
<1> QED
  BY <1>1, <1>2, <1>3, PTL DEF RecoverySpec

(***************************************************************************)
(* Settings.  A save takes effect everywhere or nowhere, and no secret is  *)
(* left that the settings do not name.                                     *)
(***************************************************************************)

Effects  == {"globals", "hook", "label", "startup"}
Accounts == [target : Targets \cup {NoTarget}, user : BOOLEAN, cleanup : SUBSET Targets]
SettingsSet == [app : Apps \cup {FirstApp}, account : Accounts]
Saves    == [at : Effects \cup {"prepare", "persist", "finish", "undo"}, old : SettingsSet,
             applied : SUBSET Effects, new : SettingsSet]
Looking  == [at |-> "look"]
Connects == [at : {"write", "persist", "compensate"}, target : Targets,
             old : Targets \cup {NoTarget}, had : BOOLEAN]
Cleanups == [at : {"delete"}, todo : SUBSET Targets, deleted : SUBSET Targets]

Connecting == call["async"].at \in {"write", "persist", "compensate"}

SettingsTypes ==
    /\ live \in SettingsSet
    /\ file \in SettingsSet
    /\ effects = [e \in Effects |-> effects[e]]
    /\ paused \in BOOLEAN
    /\ store \subseteq Targets
    /\ save \in Saves \cup {NoSave}
    /\ call = [p \in Threads |-> call[p]]
    /\ \A p \in Threads : call[p] \in {NoCall, Looking} \cup Connects \cup Cleanups
    /\ call["main"].at \notin {"write", "persist", "compensate"}

\* A save has the lock and the main thread, and the settings do not change under it.
Locked ==
    /\ lock = IF save = NoSave THEN NoOne ELSE "main"
    /\ save # NoSave => /\ save.old = live /\ save.new.account = live.account
                        /\ call["main"].at = "off"

\* The file has the account in use, and all of the settings in use but at the end of a save.
Filed ==
    /\ file.account = live.account
    /\ "not restored" \notin excused => file = IF save.at = "finish" THEN save.new ELSE live

\* The effects a save has come past are applied.
PastOf == [globals |-> {}, hook |-> {"globals"}, label |-> {"globals", "hook"},
           startup |-> {"globals", "hook", "label"}]

Passed ==
    /\ save.at \in Effects => PastOf[save.at] \subseteq save.applied
    /\ save.at \in {"prepare", "persist", "finish"} =>
          /\ {"globals", "hook", "label"} \subseteq save.applied
          /\ "startup" \in save.applied \/ Same

\* An applied effect is of the new settings, every other of those in use.
Applying ==
    excused \cap {"not restored", "half applied"} = {} =>
       \A e \in Effects :
          effects[e] = IF save # NoSave /\ e \in save.applied THEN Wanted(save.new, paused)[e]
                       ELSE Wanted(live, paused)[e]

\* While a connect runs the account is the one it began with, unless that was cleaned up.
Old == Connecting => live.account.target \in {call["async"].old, NoTarget}

Reaches(t) == t \in live.account.cleanup \cup {live.account.target}
Written(t) == call["async"].at \in {"persist", "compensate"} /\ call["async"].target = t
Unexcused  == excused \cap {"not compensated", "interrupted", "raced"} = {}

\* A secret is named, or its connect has written it; one that was there before a connect is
\* named; and one that a cleanup has deleted is not put back.
Secrets ==
    Unexcused =>
       /\ \A t \in store : Reaches(t) \/ Written(t)
       /\ Connecting /\ call["async"].had => Reaches(call["async"].target)
       /\ \A p \in Threads : call[p].at = "delete" => \A t \in call[p].deleted :
             t \notin store /\ ~Written(t) /\ ~(InUse(t) /\ call["async"].had)

SettingsInv ==
    SettingsTypes /\ Locked /\ Filed /\ Passed /\ Applying /\ Old /\ Secrets

-----------------------------------------------------------------------------
(* What the operators give. *)

LEMMA SaveIsOne == \A s \in Saves : s # NoSave /\ s.at # "off"
BY DEF Saves, Effects, NoSave

LEMMA NoSaveIsNone == NoSave.at = "off"
BY DEF NoSave

LEMMA WantedOfApp ==
    ASSUME NEW s, NEW t, s.app = t.app, NEW p \in BOOLEAN
    PROVE  Wanted(s, p) = Wanted(t, p)
BY DEF Wanted

LEMMA WantedEffects ==
    ASSUME NEW s, NEW p \in BOOLEAN
    PROVE  /\ Wanted(s, p) = [e \in Effects |-> Wanted(s, p)[e]]
           /\ \A e \in Effects \ {"globals"} : \A q \in BOOLEAN : Wanted(s, p)[e] = Wanted(s, q)[e]
           /\ Wanted(s, p)["startup"] = s.app.startup
BY DEF Wanted, Effects

LEMMA OrderOfEffects ==
    /\ DOMAIN Order = Effects
    /\ \A e \in Effects :
          /\ Order[e] \in Effects \cup {"prepare"} /\ Order[e] # "globals"
          /\ Order[e] \in Effects => PastOf[Order[e]] \subseteq PastOf[e] \cup {e}
          /\ Order[e] = "prepare" => e = "startup"
BY DEF Order, Effects, PastOf

\* A step that leaves the account, the calls and the store alone keeps what is said of them.
LEMMA AccountStands ==
    ASSUME SettingsInv, call' = call, store' = store, live'.account = live.account,
           excused \subseteq excused'
    PROVE  Old' /\ Secrets'
<1>1. Old'
  BY DEF SettingsInv, Old, Connecting
<1>2. Unexcused' => Unexcused
  BY DEF Unexcused
<1>3. Secrets'
  BY <1>2 DEF SettingsInv, Secrets, Connecting, Reaches, Written, InUse
<1> QED
  BY <1>1, <1>3

-----------------------------------------------------------------------------
(* The steps of a save. *)

LEMMA SaveSettingsKeeps ==
    ASSUME NEW app \in Apps, SettingsInv, SaveSettings(app)
    PROVE  SettingsInv'
<1>0. /\ save.at = "off" /\ call["main"].at = "off" /\ lock = NoOne /\ lock' = "main"
      /\ save' = [at |-> "globals", old |-> live, applied |-> {},
                  new |-> Preserved([app |-> app, account |-> Disconnected], live)]
      /\ UNCHANGED <<live, file, effects, paused, store, call, excused>>
  BY DEF SaveSettings, MainIdle
<1>1. save = NoSave /\ live \in SettingsSet
  BY <1>0, SaveIsOne DEF SettingsInv, SettingsTypes
<1>2. PICK new : new = Preserved([app |-> app, account |-> Disconnected], live)
  OBVIOUS
<1>3. new = [app |-> app, account |-> live.account]
  BY <1>2 DEF Preserved
<1>4. new \in SettingsSet /\ new.account = live.account
  BY <1>1, <1>3 DEF SettingsSet
<1>5. /\ save' = [at |-> "globals", old |-> live, applied |-> {}, new |-> new]
      /\ save' \in Saves
  BY <1>0, <1>1, <1>2, <1>4 DEF Saves, Effects
<1>6. SettingsTypes'
  BY <1>0, <1>5 DEF SettingsInv, SettingsTypes
<1>7. Locked'
  BY <1>0, <1>4, <1>5, SaveIsOne DEF Locked
<1>8. Filed'
  <2>1. save'.at = "globals"
    BY <1>5
  <2> QED
    BY <1>0, <2>1 DEF SettingsInv, Filed
<1>9. Passed'
  BY <1>5 DEF Passed, PastOf, Effects
<1>10. Applying'
  <2>1. save'.applied = {}
    BY <1>5
  <2> QED
    BY <1>0, <1>1, <2>1 DEF SettingsInv, Applying
<1> QED
  BY <1>0, <1>6, <1>7, <1>8, <1>9, <1>10, AccountStands DEF SettingsInv

\* What every step of a save that has begun finds.
LEMMA SaveUnderWay ==
    ASSUME SettingsInv, save.at # "off"
    PROVE  /\ save \in Saves /\ save # NoSave /\ lock = "main" /\ save.old = live
           /\ save.new.account = live.account /\ call["main"].at = "off"
           /\ save.new \in SettingsSet /\ save.applied \subseteq Effects
           /\ live \in SettingsSet /\ paused \in BOOLEAN
<1>1. save \in Saves /\ save # NoSave
  BY NoSaveIsNone DEF SettingsInv, SettingsTypes
<1>2. save.new \in SettingsSet /\ save.applied \subseteq Effects
  BY <1>1 DEF Saves
<1> QED
  BY <1>1, <1>2 DEF SettingsInv, SettingsTypes, Locked

LEMMA EffectAppliedKeeps ==
    ASSUME SettingsInv, EffectApplied, UNCHANGED <<live, file, paused, lock, store, call>>
    PROVE  SettingsInv'
<1>0. /\ save.at \in Effects
      /\ ~(save.at = "startup" /\ Same)
      /\ effects' = [effects EXCEPT ![save.at] = Wanted(save.new, paused)[save.at]]
      /\ save' = [save EXCEPT !.at = Order[save.at], !.applied = save.applied \cup {save.at}]
      /\ excused' = excused
  BY OrderOfEffects DEF EffectApplied
<1>1. /\ save \in Saves /\ save # NoSave /\ lock = "main" /\ save.old = live
      /\ save.new.account = live.account /\ call["main"].at = "off"
      /\ save.new \in SettingsSet /\ save.applied \subseteq Effects /\ paused \in BOOLEAN
  BY <1>0, SaveUnderWay DEF Effects
<1>2. PICK here \in Effects : here = save.at
  BY <1>0
<1>3. PICK next \in Effects \cup {"prepare"} : next = Order[here]
  BY OrderOfEffects
<1>4. /\ save' \in Saves /\ save'.at = next /\ save'.applied = save.applied \cup {here}
      /\ save'.old = save.old /\ save'.new = save.new
  BY <1>0, <1>1, <1>2, <1>3 DEF Saves
<1>5. /\ effects' = [e \in Effects |-> effects'[e]]
      /\ effects'[here] = Wanted(save.new, paused)[here]
      /\ \A e \in Effects \ {here} : effects'[e] = effects[e]
  BY <1>0, <1>2 DEF SettingsInv, SettingsTypes
<1>6. SettingsTypes'
  BY <1>4, <1>5 DEF SettingsInv, SettingsTypes
<1>7. Locked'
  BY <1>1, <1>4, SaveIsOne DEF Locked
<1>8. Filed'
  BY <1>0, <1>2, <1>3, <1>4 DEF SettingsInv, Filed, Effects
<1>9. Passed'
  <2>1. PastOf[here] \subseteq save.applied
    BY <1>2 DEF SettingsInv, Passed
  <2>2. next \in Effects => PastOf[next] \subseteq save'.applied
    BY <1>3, <1>4, <2>1, OrderOfEffects
  <2>3. ASSUME next = "prepare"
        PROVE  {"globals", "hook", "label", "startup"} \subseteq save'.applied
    <3>1. here = "startup"
      BY <1>3, <2>3, OrderOfEffects
    <3>2. PastOf["startup"] = {"globals", "hook", "label"}
      BY DEF PastOf
    <3> QED
      BY <1>4, <2>1, <3>1, <3>2
  <2>4. "prepare" \notin Effects /\ next \notin {"persist", "finish"}
    BY <1>3 DEF Effects
  <2> QED
    BY <1>4, <2>2, <2>3, <2>4 DEF Passed
<1>10. Applying'
  <2>1. save' # NoSave
    BY <1>4, SaveIsOne
  <2> QED
    BY <1>0, <1>1, <1>4, <1>5, <2>1 DEF SettingsInv, Applying
<1> QED
  BY <1>0, <1>6, <1>7, <1>8, <1>9, <1>10, AccountStands DEF SettingsInv

\* A step of a save that only moves it on.
LEMMA SaveMovesKeeps ==
    ASSUME SettingsInv, save.at # "off", save.at # "finish",
           NEW stage \in {"prepare", "persist", "undo"},
           stage # "undo" => {"globals", "hook", "label"} \subseteq save.applied
                             /\ ("startup" \in save.applied \/ Same),
           save' = [save EXCEPT !.at = stage],
           UNCHANGED <<live, file, effects, paused, lock, store, call, excused>>
    PROVE  SettingsInv'
<1>1. /\ save \in Saves /\ save # NoSave /\ lock = "main" /\ save.old = live
      /\ save.new.account = live.account /\ call["main"].at = "off"
  BY SaveUnderWay
<1>2. /\ save' \in Saves /\ save'.at = stage /\ save'.applied = save.applied
      /\ save'.old = save.old /\ save'.new = save.new
  BY <1>1 DEF Saves
<1>3. SettingsTypes'
  BY <1>2 DEF SettingsInv, SettingsTypes
<1>4. save' # NoSave
  BY <1>2, SaveIsOne
<1>5. Locked' /\ Filed'
  BY <1>1, <1>2, <1>4 DEF SettingsInv, Locked, Filed
<1>6. Passed'
  BY <1>2 DEF Passed, Same, Effects
<1>7. Applying'
  BY <1>1, <1>2, <1>4 DEF SettingsInv, Applying
<1> QED
  BY <1>3, <1>5, <1>6, <1>7, AccountStands DEF SettingsInv

LEMMA StartupHalfAppliedKeeps ==
    ASSUME SettingsInv, StartupHalfApplied, UNCHANGED <<live, file, paused, lock, store, call>>
    PROVE  SettingsInv'
<1>0. /\ save.at = "startup"
      /\ effects' = [effects EXCEPT !.startup = save.new.app.startup]
      /\ save' = [save EXCEPT !.at = "undo"]
      /\ excused' = excused \cup {"half applied"}
  BY DEF StartupHalfApplied
<1>1. /\ save \in Saves /\ save # NoSave /\ lock = "main" /\ save.old = live
      /\ save.new.account = live.account /\ call["main"].at = "off"
  BY <1>0, SaveUnderWay
<1>2. /\ save' \in Saves /\ save'.at = "undo" /\ save'.applied = save.applied
      /\ save'.old = save.old /\ save'.new = save.new
  BY <1>0, <1>1 DEF Saves
<1>3. effects' = [e \in Effects |-> effects'[e]]
  BY <1>0 DEF SettingsInv, SettingsTypes, Effects
<1>4. SettingsTypes'
  BY <1>2, <1>3 DEF SettingsInv, SettingsTypes
<1>5. Locked'
  BY <1>1, <1>2, SaveIsOne DEF Locked
<1>6. Filed'
  BY <1>0, <1>2 DEF SettingsInv, Filed
<1>7. Passed'
  BY <1>2 DEF Passed, Effects
<1>8. Applying'
  BY <1>0 DEF Applying
<1> QED
  BY <1>0, <1>4, <1>5, <1>6, <1>7, <1>8, AccountStands DEF SettingsInv

LEMMA SaveAppliesKeeps == SettingsInv /\ SaveApplies => SettingsInv'
<1> SUFFICES ASSUME SettingsInv, SaveApplies PROVE SettingsInv'
  OBVIOUS
<1>0. UNCHANGED <<live, file, paused, lock, store, call>>
  BY DEF SaveApplies
<1>1. CASE EffectApplied
  BY <1>0, <1>1, EffectAppliedKeeps
<1>2. CASE StartupHalfApplied
  BY <1>0, <1>2, StartupHalfAppliedKeeps
<1>3. CASE StartupUnchanged
  <2>1. /\ save.at = "startup" /\ Same /\ save' = [save EXCEPT !.at = "prepare"]
        /\ effects' = effects /\ excused' = excused
    BY <1>3 DEF StartupUnchanged
  <2>2. {"globals", "hook", "label"} \subseteq save.applied
    <3>1. PastOf["startup"] = {"globals", "hook", "label"} /\ "startup" \in Effects
      BY DEF PastOf, Effects
    <3> QED
      BY <2>1, <3>1 DEF SettingsInv, Passed
  <2> QED
    BY <1>0, <2>1, <2>2, SaveMovesKeeps
<1>4. CASE EffectRefused
  <2>1. /\ save.at \in Effects /\ save' = [save EXCEPT !.at = "undo"]
        /\ effects' = effects /\ excused' = excused
    BY <1>4, OrderOfEffects DEF EffectRefused
  <2>2. save.at # "off" /\ save.at # "finish"
    BY <2>1 DEF Effects
  <2> QED
    BY <1>0, <2>1, <2>2, SaveMovesKeeps
<1> QED
  BY <1>1, <1>2, <1>3, <1>4 DEF SaveApplies

LEMMA SavePreparesKeeps == SettingsInv /\ SavePrepares => SettingsInv'
<1> SUFFICES ASSUME SettingsInv, SavePrepares PROVE SettingsInv'
  OBVIOUS
<1>1. /\ save.at = "prepare"
      /\ UNCHANGED <<live, file, effects, paused, lock, store, call, excused>>
      /\ save' = [save EXCEPT !.at = "persist"] \/ save' = [save EXCEPT !.at = "undo"]
  BY DEF SavePrepares
<1>2. /\ {"globals", "hook", "label"} \subseteq save.applied
      /\ "startup" \in save.applied \/ Same
  BY <1>1 DEF SettingsInv, Passed
<1> QED
  BY <1>1, <1>2, SaveMovesKeeps

LEMMA SavePersistsKeeps == SettingsInv /\ SavePersists => SettingsInv'
<1> SUFFICES ASSUME SettingsInv, SavePersists PROVE SettingsInv'
  OBVIOUS
<1>0. /\ save.at = "persist"
      /\ UNCHANGED <<live, effects, paused, lock, store, call, excused>>
      /\ \/ file' = save.new /\ save' = [save EXCEPT !.at = "finish"]
         \/ file' = file /\ save' = [save EXCEPT !.at = "undo"]
  BY DEF SavePersists
<1>1. /\ {"globals", "hook", "label"} \subseteq save.applied
      /\ "startup" \in save.applied \/ Same
  BY <1>0 DEF SettingsInv, Passed
<1>2. CASE file' = file /\ save' = [save EXCEPT !.at = "undo"]
  BY <1>0, <1>1, <1>2, SaveMovesKeeps
<1>3. CASE file' = save.new /\ save' = [save EXCEPT !.at = "finish"]
  <2>1. /\ save \in Saves /\ save # NoSave /\ lock = "main" /\ save.old = live
        /\ save.new.account = live.account /\ call["main"].at = "off"
        /\ save.new \in SettingsSet
    BY <1>0, SaveUnderWay
  <2>2. /\ save' \in Saves /\ save'.at = "finish" /\ save'.applied = save.applied
        /\ save'.old = save.old /\ save'.new = save.new
    BY <1>3, <2>1 DEF Saves
  <2>3. SettingsTypes'
    BY <1>0, <1>3, <2>1, <2>2 DEF SettingsInv, SettingsTypes
  <2>4. save' # NoSave
    BY <2>2, SaveIsOne
  <2>5. Locked'
    BY <1>0, <2>1, <2>2, <2>4 DEF Locked
  <2>6. Filed'
    BY <1>0, <1>3, <2>1, <2>2 DEF Filed
  <2>7. Passed'
    BY <1>1, <2>2 DEF Passed, Same, Effects
  <2>8. Applying'
    BY <1>0, <2>1, <2>2, <2>4 DEF SettingsInv, Applying
  <2> QED
    BY <1>0, <2>3, <2>5, <2>6, <2>7, <2>8, AccountStands DEF SettingsInv
<1> QED
  BY <1>0, <1>2, <1>3

\* The settings are published as they are in the file, with every effect theirs.
LEMMA SaveFinishesKeeps == SettingsInv /\ SaveFinishes => SettingsInv'
<1> SUFFICES ASSUME SettingsInv, SaveFinishes PROVE SettingsInv'
  OBVIOUS
<1>0. /\ save.at = "finish" /\ live' = save.new /\ save' = NoSave /\ lock' = NoOne
      /\ UNCHANGED <<file, effects, paused, store, call, excused>>
  BY DEF SaveFinishes
<1>1. /\ save \in Saves /\ save # NoSave /\ save.old = live
      /\ save.new.account = live.account
      /\ save.new \in SettingsSet /\ live \in SettingsSet /\ paused \in BOOLEAN
  BY <1>0, SaveUnderWay
<1>2. SettingsTypes'
  BY <1>0, <1>1 DEF SettingsInv, SettingsTypes
<1>3. Locked'
  BY <1>0 DEF Locked
<1>4. Filed'
  BY <1>0, <1>1, NoSaveIsNone DEF SettingsInv, Filed
<1>5. Passed'
  BY <1>0, NoSaveIsNone DEF Passed, Effects
<1>6. Applying'
  <2> SUFFICES ASSUME excused \cap {"not restored", "half applied"} = {}, NEW e \in Effects
               PROVE  effects[e] = Wanted(save.new, paused)[e]
    BY <1>0 DEF Applying
  <2>1. effects[e] = IF e \in save.applied THEN Wanted(save.new, paused)[e]
                     ELSE Wanted(live, paused)[e]
    BY <1>1 DEF SettingsInv, Applying
  <2>2. CASE e \in save.applied
    BY <2>1, <2>2
  <2>3. CASE e \notin save.applied
    <3>1. e = "startup" /\ Same
      BY <1>0, <2>3 DEF SettingsInv, Passed, Effects
    <3>2. save.new.app.startup = live.app.startup
      BY <1>1, <3>1 DEF Same
    <3> QED
      BY <1>1, <2>1, <2>3, <3>1, <3>2, WantedEffects
  <2> QED
    BY <2>2, <2>3
<1> QED
  BY <1>0, <1>1, <1>2, <1>3, <1>4, <1>5, <1>6, AccountStands DEF SettingsInv

LEMMA SaveRestoresKeeps == SettingsInv /\ SaveRestores => SettingsInv'
<1> SUFFICES ASSUME SettingsInv, SaveRestores PROVE SettingsInv'
  OBVIOUS
<1>0. /\ save.at = "finish" /\ save' = [save EXCEPT !.at = "undo"]
      /\ UNCHANGED <<live, effects, paused, lock, store, call>>
      /\ \/ file' = save.old /\ excused' = excused
         \/ file' = file /\ excused' = excused \cup {"not restored"}
  BY DEF SaveRestores
<1>1. /\ save \in Saves /\ save # NoSave /\ lock = "main" /\ save.old = live
      /\ save.new.account = live.account /\ call["main"].at = "off"
      /\ live \in SettingsSet
  BY <1>0, SaveUnderWay
<1>2. /\ save' \in Saves /\ save'.at = "undo" /\ save'.applied = save.applied
      /\ save'.old = save.old /\ save'.new = save.new
  BY <1>0, <1>1 DEF Saves
<1>3. SettingsTypes'
  BY <1>0, <1>1, <1>2 DEF SettingsInv, SettingsTypes
<1>4. save' # NoSave
  BY <1>2, SaveIsOne
<1>5. Locked'
  BY <1>0, <1>1, <1>2, <1>4 DEF Locked
<1>6. Filed'
  BY <1>0, <1>1, <1>2 DEF SettingsInv, Filed
<1>7. Passed'
  BY <1>2 DEF Passed, Effects
<1>8. Applying'
  BY <1>0, <1>1, <1>2, <1>4 DEF SettingsInv, Applying
<1> QED
  BY <1>0, <1>3, <1>5, <1>6, <1>7, <1>8, AccountStands DEF SettingsInv

LEMMA SaveUndoesKeeps == SettingsInv /\ SaveUndoes => SettingsInv'
<1> SUFFICES ASSUME SettingsInv, SaveUndoes PROVE SettingsInv'
  OBVIOUS
<1>0. /\ save.at = "undo" /\ save' = NoSave /\ lock' = NoOne
      /\ UNCHANGED <<live, file, paused, store, call>>
      /\ \/ effects' = RolledBack({}) /\ excused' = excused
         \/ /\ \E e \in save.applied : effects' = RolledBack({e})
            /\ excused' = excused \cup {"not restored"}
  BY DEF SaveUndoes
<1>1. save # NoSave /\ save.old = live
  BY <1>0, SaveUnderWay
<1>2. PICK broken : /\ effects' = RolledBack(broken)
                    /\ \/ broken = {} /\ excused' = excused
                       \/ "not restored" \in excused'
  BY <1>0
<1>3. DOMAIN effects = Effects
  BY DEF SettingsInv, SettingsTypes
<1>4. /\ effects' = [e \in Effects |-> effects'[e]]
      /\ \A e \in Effects : effects'[e] = IF e \in save.applied \ broken
                                         THEN Wanted(live, paused)[e] ELSE effects[e]
  BY <1>1, <1>2, <1>3 DEF RolledBack
<1>5. SettingsTypes'
  BY <1>0, <1>4 DEF SettingsInv, SettingsTypes
<1>6. Locked'
  BY <1>0 DEF Locked
<1>7. Filed'
  BY <1>0, NoSaveIsNone DEF SettingsInv, Filed
<1>8. Passed'
  BY <1>0, NoSaveIsNone DEF Passed, Effects
<1>9. Applying'
  <2> SUFFICES ASSUME excused' \cap {"not restored", "half applied"} = {}, NEW e \in Effects
               PROVE  effects'[e] = Wanted(live, paused)[e]
    BY <1>0 DEF Applying
  <2>1. broken = {} /\ excused' = excused
    BY <1>2
  <2>2. effects[e] = IF e \in save.applied THEN Wanted(save.new, paused)[e]
                     ELSE Wanted(live, paused)[e]
    BY <1>1, <2>1 DEF SettingsInv, Applying
  <2> QED
    BY <1>4, <2>1, <2>2
<1> QED
  BY <1>0, <1>5, <1>6, <1>7, <1>8, <1>9, AccountStands DEF SettingsInv

LEMMA CaptureKeysKeeps == SettingsInv /\ CaptureKeys => SettingsInv'
<1> SUFFICES ASSUME SettingsInv, CaptureKeys PROVE SettingsInv'
  OBVIOUS
<1>0. /\ save.at = "off" /\ paused' = ~paused
      /\ effects' = [effects EXCEPT !.globals = Wanted(live, ~paused).globals]
      /\ UNCHANGED <<live, file, lock, save, store, call, excused>>
  BY DEF CaptureKeys, MainIdle
<1>1. save = NoSave /\ paused \in BOOLEAN /\ paused' \in BOOLEAN
  BY <1>0, SaveIsOne DEF SettingsInv, SettingsTypes
<1>2. PICK keys : keys = Wanted(live, paused')["globals"]
  OBVIOUS
<1>3. /\ effects' = [e \in Effects |-> effects'[e]]
      /\ effects'["globals"] = Wanted(live, paused')["globals"]
      /\ \A e \in Effects \ {"globals"} : effects'[e] = effects[e]
  BY <1>0, <1>2 DEF SettingsInv, SettingsTypes, Effects
<1>4. SettingsTypes'
  BY <1>0, <1>1, <1>3 DEF SettingsInv, SettingsTypes
<1>5. Locked' /\ Filed' /\ Passed'
  BY <1>0 DEF SettingsInv, Locked, Filed, Passed, Same
<1>6. Applying'
  <2>1. \A e \in Effects \ {"globals"} : Wanted(live, paused')[e] = Wanted(live, paused)[e]
    BY <1>1, WantedEffects
  <2> QED
    BY <1>0, <1>1, <1>3, <2>1 DEF SettingsInv, Applying
<1> QED
  BY <1>0, <1>4, <1>5, <1>6, AccountStands DEF SettingsInv

-----------------------------------------------------------------------------
(* The steps of the account. *)

\* They leave the save alone, and change the account in the settings and in the file at once.
AccountSaved(account) ==
    /\ lock = NoOne /\ file' = [live EXCEPT !.account = account]
    /\ live' = [live EXCEPT !.account = account]

LEMMA SaveStands ==
    ASSUME SettingsInv, UNCHANGED <<effects, paused, lock, save>>,
           excused \subseteq excused',
           save # NoSave => call'["main"].at = "off",
           \/ UNCHANGED <<live, file>>
           \/ \E account \in Accounts : AccountSaved(account)
    PROVE  /\ Locked' /\ Filed' /\ Passed' /\ Applying'
           /\ live' \in SettingsSet /\ file' \in SettingsSet
<1>1. Passed'
  BY DEF SettingsInv, Passed, Same
<1>2. CASE UNCHANGED <<live, file>>
  BY <1>1, <1>2 DEF SettingsInv, SettingsTypes, Locked, Filed, Applying
<1>3. ASSUME NEW account \in Accounts, AccountSaved(account)
      PROVE  /\ Locked' /\ Filed' /\ Applying' /\ live' \in SettingsSet /\ file' \in SettingsSet
  <2>1. save = NoSave /\ live \in SettingsSet /\ paused \in BOOLEAN
    BY <1>3 DEF SettingsInv, SettingsTypes, Locked, AccountSaved, NoOne
  <2>2. live' = file' /\ live' \in SettingsSet /\ live'.app = live.app
    BY <1>3, <2>1 DEF AccountSaved, SettingsSet
  <2>3. Locked'
    BY <2>1 DEF SettingsInv, Locked
  <2>4. Filed'
    BY <2>1, <2>2, NoSaveIsNone DEF Filed
  <2>5. Wanted(live', paused) = Wanted(live, paused)
    BY <2>1, <2>2, WantedOfApp
  <2>6. Applying'
    BY <2>1, <2>5 DEF SettingsInv, Applying
  <2> QED
    BY <2>2, <2>3, <2>4, <2>6
<1> QED
  BY <1>1, <1>2, <1>3

LEMMA CallsAreOne ==
    /\ NoCall.at = "off" /\ Looking.at = "look"
    /\ \A c \in Connects : c.at \in {"write", "persist", "compensate"}
    /\ \A c \in Cleanups : c.at = "delete"
BY DEF NoCall, Looking, Connects, Cleanups

LEMMA ConnectUnderWay ==
    ASSUME SettingsInv
    PROVE  /\ Connecting => call["async"] \in Connects
           /\ \A p \in Threads : call[p].at = "delete" => call[p] \in Cleanups
<1>1. "async" \in Threads
  BY DEF Threads
<1>2. \A p \in Threads : call[p] \in {NoCall, Looking} \cup Connects \cup Cleanups
  BY DEF SettingsInv, SettingsTypes
<1> QED
  BY <1>1, <1>2, CallsAreOne DEF Connecting

\* A call that is replaced leaves those of the other thread.
LEMMA CallTypes ==
    ASSUME SettingsInv, NEW p \in Threads,
           NEW c \in {NoCall, Looking} \cup Connects \cup Cleanups,
           p = "main" => c.at \notin {"write", "persist", "compensate"},
           call' = [call EXCEPT ![p] = c]
    PROVE  /\ call' = [q \in Threads |-> call'[q]]
           /\ \A q \in Threads : call'[q] \in {NoCall, Looking} \cup Connects \cup Cleanups
           /\ call'["main"].at \notin {"write", "persist", "compensate"}
           /\ call'[p] = c /\ \A q \in Threads \ {p} : call'[q] = call[q]
<1>1. call = [q \in Threads |-> call[q]]
  BY DEF SettingsInv, SettingsTypes
<1>2. call'[p] = c /\ \A q \in Threads \ {p} : call'[q] = call[q]
  BY <1>1
<1>3. \A q \in Threads : call[q] \in {NoCall, Looking} \cup Connects \cup Cleanups
  BY DEF SettingsInv, SettingsTypes
<1>4. call["main"].at \notin {"write", "persist", "compensate"} /\ "main" \in Threads
  BY DEF SettingsInv, SettingsTypes, Threads
<1> QED
  BY <1>1, <1>2, <1>3, <1>4

LEMMA ConnectStartsKeeps ==
    ASSUME NEW t \in Targets, SettingsInv, ConnectStarts(t),
           UNCHANGED <<effects, paused, lock, save>>
    PROVE  SettingsInv'
<1>0. /\ call["async"].at = "off"
      /\ call' = [call EXCEPT !["async"] =
                    [at |-> "write", target |-> t,
                     old |-> live.account.target, had |-> t \in store]]
      /\ UNCHANGED <<live, file, store, excused>>
  BY DEF ConnectStarts
<1>1. PICK c : c = [at |-> "write", target |-> t, old |-> live.account.target, had |-> t \in store]
  OBVIOUS
<1>2. live.account.target \in Targets \cup {NoTarget} /\ (t \in store) \in BOOLEAN
  BY DEF SettingsInv, SettingsTypes, SettingsSet, Accounts
<1>3. c \in Connects
  BY <1>1, <1>2 DEF Connects
<1>4. "async" \in Threads /\ "main" \in Threads /\ "main" # "async"
  BY DEF Threads
<1>5. /\ call' = [q \in Threads |-> call'[q]]
      /\ \A q \in Threads : call'[q] \in {NoCall, Looking} \cup Connects \cup Cleanups
      /\ call'["main"].at \notin {"write", "persist", "compensate"}
      /\ call'["async"] = c /\ \A q \in Threads \ {"async"} : call'[q] = call[q]
  BY <1>0, <1>1, <1>3, <1>4, CallTypes
<1>6. SettingsTypes'
  BY <1>0, <1>5 DEF SettingsInv, SettingsTypes
<1>7. save # NoSave => call'["main"].at = "off"
  BY <1>4, <1>5 DEF SettingsInv, Locked
<1>8. Locked' /\ Filed' /\ Passed' /\ Applying'
  BY <1>0, <1>7, SaveStands
<1>9. /\ c.at = "write" /\ c.target = t /\ c.old = live.account.target
      /\ c.had = (t \in store)
  BY <1>1
<1>10. Old'
  BY <1>0, <1>5, <1>9 DEF Old
<1>11. Secrets'
  <2> SUFFICES ASSUME Unexcused PROVE
         /\ \A u \in store : Reaches(u)
         /\ c.had => Reaches(t)
         /\ call["main"].at = "delete" => \A u \in call["main"].deleted :
                u \notin store /\ ~(u = t /\ c.had)
    <3>1. /\ call'["async"] = c /\ call'["main"] = call["main"] /\ store' = store
          /\ live' = live /\ excused' = excused /\ c.at = "write" /\ c.target = t
          /\ Threads = {"main", "async"}
      BY <1>0, <1>4, <1>5, <1>9 DEF Threads
    <3> QED
      BY <3>1 DEF Secrets, Connecting, Reaches, Written, Unexcused, InUse
  <2>1. \A u \in store : Reaches(u)
    BY <1>0 DEF SettingsInv, Secrets, Written
  <2>2. ASSUME call["main"].at = "delete", NEW u \in call["main"].deleted
        PROVE  u \notin store
    BY <1>4, <2>2 DEF SettingsInv, Secrets
  <2> QED
    BY <1>9, <2>1, <2>2
<1> QED
  BY <1>6, <1>8, <1>10, <1>11 DEF SettingsInv

LEMMA ConnectWritesKeeps ==
    ASSUME SettingsInv, ConnectWrites, UNCHANGED <<effects, paused, lock, save>>
    PROVE  SettingsInv'
<1>0. call["async"].at = "write" /\ UNCHANGED <<live, file>>
  BY DEF ConnectWrites
<1>1. "async" \in Threads /\ "main" \in Threads /\ "main" # "async" /\ Threads = {"main", "async"}
  BY DEF Threads
<1>2. PICK c \in Connects : c = call["async"]
  BY <1>0, ConnectUnderWay DEF Connecting
<1>3. CASE /\ store' = store \cup {call["async"].target}
           /\ call' = [call EXCEPT !["async"].at = "persist"]
           /\ excused' = IF BeingCleaned(call["async"].target) THEN excused \cup {"raced"}
                                                             ELSE excused
  <2>1. PICK d \in Connects : d = [c EXCEPT !.at = "persist"]
    BY DEF Connects
  <2>2. /\ d.at = "persist" /\ d.target = c.target /\ d.old = c.old
        /\ d.had = c.had /\ c.target \in Targets
    BY <2>1 DEF Connects
  <2>3. call' = [call EXCEPT !["async"] = d]
    BY <1>2, <1>3, <2>1
  <2>4. /\ call' = [q \in Threads |-> call'[q]]
        /\ \A q \in Threads : call'[q] \in {NoCall, Looking} \cup Connects \cup Cleanups
        /\ call'["main"].at \notin {"write", "persist", "compensate"}
        /\ call'["async"] = d /\ call'["main"] = call["main"]
    BY <1>1, <2>3, CallTypes
  <2>5. SettingsTypes'
    BY <1>0, <1>2, <1>3, <2>2, <2>4 DEF SettingsInv, SettingsTypes
  <2>6. save # NoSave => call'["main"].at = "off"
    BY <2>4 DEF SettingsInv, Locked
  <2>7. Locked' /\ Filed' /\ Passed' /\ Applying'
    BY <1>0, <1>3, <2>6, SaveStands
  <2>8. Old'
    BY <1>0, <1>2, <2>2, <2>4 DEF SettingsInv, Old, Connecting
  <2>9. Secrets'
    <3> SUFFICES ASSUME Unexcused' PROVE
           /\ \A u \in store' : Reaches(u) \/ u = c.target
           /\ c.had => Reaches(c.target)
           /\ call["main"].at = "delete" => \A u \in call["main"].deleted :
                  u \notin store /\ u # c.target
      BY <1>0, <1>1, <1>2, <1>3, <2>2, <2>4 DEF Secrets, Connecting, Reaches, Written, InUse
    <3>1. Unexcused /\ ~BeingCleaned(c.target)
      BY <1>2, <1>3 DEF Unexcused
    <3>2. \A u \in store : Reaches(u)
      BY <1>0, <3>1 DEF SettingsInv, Secrets, Written
    <3>3. c.had => Reaches(c.target)
      BY <1>0, <1>2, <3>1 DEF SettingsInv, Secrets, Connecting
    <3>4. ASSUME call["main"].at = "delete", NEW u \in call["main"].deleted
          PROVE  u \notin store /\ u # c.target
      BY <1>1, <3>1, <3>4 DEF SettingsInv, Secrets, BeingCleaned
    <3> QED
      BY <1>2, <1>3, <3>2, <3>3, <3>4
  <2> QED
    BY <2>5, <2>7, <2>8, <2>9 DEF SettingsInv
<1>4. CASE call' = [call EXCEPT !["async"] = NoCall] /\ UNCHANGED <<store, excused>>
  <2>1. /\ call' = [q \in Threads |-> call'[q]]
        /\ \A q \in Threads : call'[q] \in {NoCall, Looking} \cup Connects \cup Cleanups
        /\ call'["main"].at \notin {"write", "persist", "compensate"}
        /\ call'["async"] = NoCall /\ call'["main"] = call["main"]
    BY <1>1, <1>4, CallTypes
  <2>2. SettingsTypes'
    BY <1>0, <1>4, <2>1 DEF SettingsInv, SettingsTypes
  <2>3. save # NoSave => call'["main"].at = "off"
    BY <2>1 DEF SettingsInv, Locked
  <2>4. Locked' /\ Filed' /\ Passed' /\ Applying'
    BY <1>0, <1>4, <2>3, SaveStands
  <2>5. Old'
    BY <2>1, CallsAreOne DEF Old, Connecting
  <2>6. Secrets'
    <3> SUFFICES ASSUME Unexcused PROVE
           /\ \A u \in store : Reaches(u)
           /\ call["main"].at = "delete" => \A u \in call["main"].deleted : u \notin store
      BY <1>0, <1>1, <1>4, <2>1, CallsAreOne, Zenon
         DEF Secrets, Connecting, Reaches, Written, InUse, Unexcused
    <3> QED
      BY <1>0, <1>1 DEF SettingsInv, Secrets, Written
  <2> QED
    BY <2>2, <2>4, <2>5, <2>6 DEF SettingsInv
<1> QED
  BY <1>3, <1>4 DEF ConnectWrites

\* What the account is to be is an account, and keeps every name it is not rid of.
LEMMA ConnectedAccount ==
    ASSUME SettingsInv, NEW c \in Connects, c = call["async"]
    PROVE  /\ ConnectedAs(c) \in Accounts
           /\ ConnectedAs(c).target = c.target
           /\ ConnectedAs(c).cleanup = live.account.cleanup \cup ({c.old} \ {NoTarget, c.target})
BY DEF SettingsInv, SettingsTypes, SettingsSet, Accounts, Connects, ConnectedAs

LEMMA ConnectPersistsKeeps ==
    ASSUME SettingsInv, ConnectPersists, UNCHANGED <<effects, paused, lock, save>>
    PROVE  SettingsInv'
<1>0. call["async"].at = "persist" /\ UNCHANGED <<store, excused>>
  BY DEF ConnectPersists
<1>1. "async" \in Threads /\ "main" \in Threads /\ "main" # "async" /\ Threads = {"main", "async"}
  BY DEF Threads
<1>2. PICK c \in Connects : c = call["async"]
  BY <1>0, ConnectUnderWay DEF Connecting
<1>3. CASE Account(ConnectedAs(call["async"])) /\ call' = [call EXCEPT !["async"] = Looking]
  <2>1. PICK account \in Accounts :
           /\ account = ConnectedAs(c) /\ account.target = c.target
           /\ account.cleanup = live.account.cleanup \cup ({c.old} \ {NoTarget, c.target})
    BY <1>2, ConnectedAccount
  <2>2. AccountSaved(account) /\ live \in SettingsSet
    BY <1>2, <1>3, <2>1 DEF Account, UpdateFree, AccountSaved, SettingsInv, SettingsTypes
  <2>3. live'.account = account
    BY <2>2 DEF AccountSaved, SettingsSet
  <2>4. /\ call' = [q \in Threads |-> call'[q]]
        /\ \A q \in Threads : call'[q] \in {NoCall, Looking} \cup Connects \cup Cleanups
        /\ call'["main"].at \notin {"write", "persist", "compensate"}
        /\ call'["async"] = Looking /\ call'["main"] = call["main"]
    BY <1>1, <1>3, CallTypes
  <2>5. save # NoSave => call'["main"].at = "off"
    BY <2>4 DEF SettingsInv, Locked
  <2>6. Locked' /\ Filed' /\ Passed' /\ Applying' /\ live' \in SettingsSet /\ file' \in SettingsSet
    BY <1>0, <2>2, <2>5, SaveStands
  <2>7. SettingsTypes'
    BY <1>0, <2>4, <2>6 DEF SettingsInv, SettingsTypes
  <2>8. Old'
    BY <2>4, CallsAreOne DEF Old, Connecting
  <2>9. Secrets'
    <3> SUFFICES ASSUME Unexcused PROVE
           /\ \A u \in store : u \in account.cleanup \cup {account.target}
           /\ call["main"].at = "delete" => \A u \in call["main"].deleted : u \notin store
      BY <1>0, <1>1, <2>3, <2>4, CallsAreOne
         DEF Secrets, Connecting, Reaches, Written, InUse, Unexcused
    <3>1. live.account.target \in {c.old, NoTarget}
      BY <1>0, <1>2 DEF SettingsInv, Old, Connecting
    <3>2. ASSUME NEW u \in store PROVE u \in account.cleanup \cup {account.target}
      <4>1. u # NoTarget
        BY SettingsAssumption DEF SettingsInv, SettingsTypes
      <4>2. u \in live.account.cleanup \cup {live.account.target} \/ u = c.target
        BY <1>2 DEF SettingsInv, Secrets, Reaches, Written
      <4> QED
        BY <2>1, <3>1, <4>1, <4>2
    <3>3. call["main"].at = "delete" => \A u \in call["main"].deleted : u \notin store
      BY <1>1 DEF SettingsInv, Secrets
    <3> QED
      BY <3>2, <3>3
  <2> QED
    BY <2>6, <2>7, <2>8, <2>9 DEF SettingsInv
<1>4. CASE UNCHANGED <<live, file>> /\ call' = [call EXCEPT !["async"].at = "compensate"]
  <2>1. PICK d \in Connects : d = [c EXCEPT !.at = "compensate"]
    BY DEF Connects
  <2>2. d.at = "compensate" /\ d.target = c.target /\ d.old = c.old /\ d.had = c.had
    BY <2>1 DEF Connects
  <2>3. call' = [call EXCEPT !["async"] = d]
    BY <1>2, <1>4, <2>1
  <2>4. /\ call' = [q \in Threads |-> call'[q]]
        /\ \A q \in Threads : call'[q] \in {NoCall, Looking} \cup Connects \cup Cleanups
        /\ call'["main"].at \notin {"write", "persist", "compensate"}
        /\ call'["async"] = d /\ call'["main"] = call["main"]
    BY <1>1, <2>3, CallTypes
  <2>5. SettingsTypes'
    BY <1>0, <1>4, <2>4 DEF SettingsInv, SettingsTypes
  <2>6. save # NoSave => call'["main"].at = "off"
    BY <2>4 DEF SettingsInv, Locked
  <2>7. Locked' /\ Filed' /\ Passed' /\ Applying'
    BY <1>0, <1>4, <2>6, SaveStands
  <2>8. Old'
    BY <1>0, <1>2, <1>4, <2>2, <2>4 DEF SettingsInv, Old, Connecting
  <2>9. Secrets'
    <3> SUFFICES ASSUME Unexcused PROVE
           /\ \A u \in store : Reaches(u) \/ u = c.target
           /\ c.had => Reaches(c.target)
           /\ call["main"].at = "delete" => \A u \in call["main"].deleted :
                  u \notin store /\ u # c.target
      <4>1. /\ call'["async"] = d /\ call'["main"] = call["main"] /\ store' = store
            /\ live' = live /\ excused' = excused /\ d.at = "compensate" /\ d.target = c.target
            /\ d.had = c.had /\ Threads = {"main", "async"}
        BY <1>0, <1>1, <1>4, <2>2, <2>4
      <4> QED
        BY <4>1 DEF Secrets, Connecting, Reaches, Written, InUse, Unexcused
    <3>1. \A u \in store : Reaches(u) \/ u = c.target
      BY <1>2 DEF SettingsInv, Secrets, Written
    <3>2. c.had => Reaches(c.target)
      BY <1>0, <1>2 DEF SettingsInv, Secrets, Connecting
    <3>3. ASSUME call["main"].at = "delete", NEW u \in call["main"].deleted
          PROVE  u \notin store /\ u # c.target
      BY <1>0, <1>1, <1>2, <3>3 DEF SettingsInv, Secrets, Written
    <3> QED
      BY <3>1, <3>2, <3>3
  <2> QED
    BY <2>5, <2>7, <2>8, <2>9 DEF SettingsInv
<1> QED
  BY <1>3, <1>4 DEF ConnectPersists, UpdateFails, Looking

LEMMA ConnectCompensatesKeeps ==
    ASSUME SettingsInv, ConnectCompensates, UNCHANGED <<effects, paused, lock, save>>
    PROVE  SettingsInv'
<1>0. /\ call["async"].at = "compensate" /\ UNCHANGED <<live, file>>
      /\ call' = [call EXCEPT !["async"] = NoCall]
      /\ \/ store' = Compensated /\ excused' = excused
         \/ store' = store /\ excused' = excused \cup {"not compensated"}
  BY DEF ConnectCompensates
<1>1. "async" \in Threads /\ "main" \in Threads /\ "main" # "async" /\ Threads = {"main", "async"}
  BY DEF Threads
<1>2. PICK c \in Connects : c = call["async"]
  BY <1>0, ConnectUnderWay DEF Connecting
<1>3. /\ call' = [q \in Threads |-> call'[q]]
      /\ \A q \in Threads : call'[q] \in {NoCall, Looking} \cup Connects \cup Cleanups
      /\ call'["main"].at \notin {"write", "persist", "compensate"}
      /\ call'["async"] = NoCall /\ call'["main"] = call["main"]
  BY <1>0, <1>1, CallTypes
<1>4. store' \subseteq Targets
  <2>1. c.target \in Targets
    BY DEF Connects
  <2> QED
    BY <1>0, <1>2, <2>1 DEF Compensated, SettingsInv, SettingsTypes
<1>5. SettingsTypes'
  BY <1>0, <1>3, <1>4 DEF SettingsInv, SettingsTypes
<1>6. save # NoSave => call'["main"].at = "off"
  BY <1>3 DEF SettingsInv, Locked
<1>7. Locked' /\ Filed' /\ Passed' /\ Applying'
  BY <1>0, <1>6, SaveStands
<1>8. Old'
  BY <1>3, CallsAreOne DEF Old, Connecting
<1>9. Secrets'
  <2> SUFFICES ASSUME Unexcused' PROVE
         /\ \A u \in store' : Reaches(u)
         /\ call["main"].at = "delete" => \A u \in call["main"].deleted : u \notin store'
    BY <1>0, <1>1, <1>3, CallsAreOne DEF Secrets, Connecting, Reaches, Written, InUse
  <2>1. store' = Compensated /\ excused' = excused /\ Unexcused
    BY <1>0 DEF Unexcused
  <2>2. store' = IF c.had THEN store \cup {c.target} ELSE store \ {c.target}
    BY <1>2, <2>1 DEF Compensated
  <2>3. \A u \in store : Reaches(u) \/ u = c.target
    BY <1>2, <2>1 DEF SettingsInv, Secrets, Written
  <2>4. c.had => Reaches(c.target)
    BY <1>0, <1>2, <2>1 DEF SettingsInv, Secrets, Connecting
  <2>5. ASSUME call["main"].at = "delete", NEW u \in call["main"].deleted
        PROVE  u \notin store /\ u # c.target
    BY <1>0, <1>1, <1>2, <2>1, <2>5 DEF SettingsInv, Secrets, Written
  <2> QED
    BY <2>2, <2>3, <2>4, <2>5
<1> QED
  BY <1>5, <1>7, <1>8, <1>9 DEF SettingsInv

-----------------------------------------------------------------------------
(* Disconnecting and cleaning up. *)

\* A thread that is idle and looks for what there is to clean up has deleted nothing.
LEMMA LookingKeeps ==
    ASSUME SettingsInv, NEW p \in Threads, ~(Connecting /\ p = "async"),
           NEW c \in {NoCall, Looking} \cup Cleanups, c.at = "delete" => c.deleted = {},
           call' = [call EXCEPT ![p] = c],
           UNCHANGED <<effects, paused, lock, save, store, excused>>,
           p = "main" /\ c # NoCall => save = NoSave,
           \/ UNCHANGED <<live, file>>
           \/ /\ AccountSaved(live'.account) /\ live'.account \in Accounts
              /\ live'.account.target = live.account.target
              /\ live.account.cleanup \subseteq live'.account.cleanup
    PROVE  SettingsInv'
<1>1. c.at \notin {"write", "persist", "compensate"}
  BY CallsAreOne
<1>2. /\ call' = [q \in Threads |-> call'[q]]
      /\ \A q \in Threads : call'[q] \in {NoCall, Looking} \cup Connects \cup Cleanups
      /\ call'["main"].at \notin {"write", "persist", "compensate"}
      /\ call'[p] = c /\ \A q \in Threads \ {p} : call'[q] = call[q]
  BY <1>1, CallTypes
<1>3. save # NoSave => call'["main"].at = "off"
  <2>1. "main" \in Threads
    BY DEF Threads
  <2> QED
    BY <1>2, <2>1, CallsAreOne DEF SettingsInv, Locked
<1>4. Locked' /\ Filed' /\ Passed' /\ Applying' /\ live' \in SettingsSet /\ file' \in SettingsSet
  BY <1>3, SaveStands
<1>5. SettingsTypes'
  BY <1>2, <1>4 DEF SettingsInv, SettingsTypes
<1>6. /\ live'.account.target = live.account.target
      /\ live.account.cleanup \subseteq live'.account.cleanup
  OBVIOUS
<1>7. "async" \in Threads /\ (call'["async"] = call["async"] \/ (~Connecting /\ ~Connecting'))
  BY <1>1, <1>2 DEF Threads, Connecting
<1>8. Old'
  BY <1>6, <1>7 DEF SettingsInv, Old, Connecting
<1>9. PICK now : now = call'["async"]
  OBVIOUS
<1>10. Secrets'
  <2> SUFFICES ASSUME Unexcused PROVE
         /\ \A t \in store : Reaches(t)' \/ Written(t)'
         /\ Connecting' /\ now.had => Reaches(now.target)'
         /\ \A q \in Threads : call'[q].at = "delete" => \A t \in call'[q].deleted :
               t \notin store /\ ~Written(t)' /\ ~(InUse(t)' /\ now.had)
    BY <1>9 DEF Secrets, Unexcused, Reaches
  <2>1. \A t : (Reaches(t) => Reaches(t)') /\ (Written(t) <=> Written(t)')
               /\ (InUse(t) <=> InUse(t)')
    BY <1>6, <1>7 DEF Reaches, Written, InUse, Connecting
  <2>2. \A t \in store : Reaches(t)' \/ Written(t)'
    BY <2>1 DEF SettingsInv, Secrets
  <2>3. Connecting' /\ now.had => Reaches(now.target)'
    BY <1>7, <1>9, <2>1 DEF SettingsInv, Secrets, Connecting
  <2>4. ASSUME NEW q \in Threads, call'[q].at = "delete", NEW t \in call'[q].deleted
        PROVE  t \notin store /\ ~Written(t)' /\ ~(InUse(t)' /\ now.had)
    <3>1. q # p /\ call'[q] = call[q]
      BY <1>2, <2>4
    <3>2. t \notin store /\ ~Written(t) /\ ~(InUse(t) /\ call["async"].had)
      BY <2>4, <3>1 DEF SettingsInv, Secrets
    <3>3. InUse(t)' => now.had = call["async"].had
      BY <1>7, <1>9 DEF InUse, Connecting
    <3> QED
      BY <2>1, <3>2, <3>3
  <2> QED
    BY <2>2, <2>3, <2>4
<1> QED
  BY <1>4, <1>5, <1>8, <1>10 DEF SettingsInv

LEMMA SettingsStutters ==
    ASSUME SettingsInv,
           UNCHANGED <<live, file, effects, paused, lock, save, store, call, excused>>
    PROVE  SettingsInv'
<1>1. SettingsTypes'
  BY DEF SettingsInv, SettingsTypes
<1>2. Locked' /\ Filed' /\ Passed' /\ Applying'
  BY DEF SettingsInv, Locked, Filed, Passed, Applying, Same
<1> QED
  BY <1>1, <1>2, AccountStands DEF SettingsInv

LEMMA MainIsIdle == SettingsInv /\ MainIdle => save = NoSave /\ call["main"].at = "off"
BY SaveIsOne DEF MainIdle, SettingsInv, SettingsTypes

LEMMA DisconnectKeeps ==
    ASSUME SettingsInv, Disconnect, UNCHANGED <<effects, paused, lock, save>>
    PROVE  SettingsInv'
<1>0. MainIdle /\ save = NoSave /\ UNCHANGED <<store, excused>>
  BY MainIsIdle DEF Disconnect
<1>1. CASE Account(DisconnectedAs) /\ call' = [call EXCEPT !["main"] = Looking]
  <2>1. live \in SettingsSet /\ live.account \in Accounts
    BY DEF SettingsInv, SettingsTypes, SettingsSet
  <2>2. PICK account : account = DisconnectedAs
    OBVIOUS
  <2>3. /\ account \in Accounts /\ account.target = live.account.target
        /\ live.account.cleanup \subseteq account.cleanup
    BY <2>1, <2>2 DEF DisconnectedAs, Accounts
  <2>4. AccountSaved(account)
    BY <1>1, <2>2 DEF Account, UpdateFree, AccountSaved
  <2>5. live'.account = account
    BY <2>1, <2>4 DEF AccountSaved, SettingsSet
  <2>6. "main" \in Threads /\ "main" # "async" /\ Looking.at = "look"
    BY CallsAreOne DEF Threads
  <2> QED
    BY <1>0, <1>1, <2>3, <2>4, <2>5, <2>6, LookingKeeps
<1>2. CASE UpdateFails /\ UNCHANGED call
  BY <1>0, <1>2, SettingsStutters DEF UpdateFails
<1> QED
  BY <1>1, <1>2 DEF Disconnect, Looking

LEMMA StatusKeeps ==
    ASSUME SettingsInv, Status, UNCHANGED <<effects, paused, lock, save>>
    PROVE  SettingsInv'
<1>1. MainIdle /\ save = NoSave /\ UNCHANGED <<live, file, store, excused>>
      /\ call' = [call EXCEPT !["main"] = Looking]
  BY MainIsIdle DEF Status, Looking
<1>2. "main" \in Threads /\ "main" # "async" /\ Looking.at = "look"
  BY CallsAreOne DEF Threads
<1> QED
  BY <1>1, <1>2, LookingKeeps

LEMMA CleanupLooksKeeps ==
    ASSUME NEW p \in Threads, SettingsInv, CleanupLooks(p),
           UNCHANGED <<effects, paused, lock, save>>
    PROVE  SettingsInv'
<1>1. PICK c : c = IF live.account.cleanup = {} THEN NoCall
                   ELSE [at |-> "delete", todo |-> live.account.cleanup, deleted |-> {}]
  OBVIOUS
<1>2. /\ call[p].at = "look" /\ call' = [call EXCEPT ![p] = c]
      /\ UNCHANGED <<live, file, store, excused>>
  BY <1>1 DEF CleanupLooks
<1>3. live.account.cleanup \subseteq Targets
  BY DEF SettingsInv, SettingsTypes, SettingsSet, Accounts
<1>4. c \in {NoCall, Looking} \cup Cleanups /\ (c.at = "delete" => c.deleted = {})
  BY <1>1, <1>3, CallsAreOne DEF Cleanups
<1>5. ~(Connecting /\ p = "async")
  BY <1>2 DEF Connecting
<1>6. p = "main" => save = NoSave
  BY <1>2 DEF SettingsInv, Locked
<1> QED
  BY <1>2, <1>4, <1>5, <1>6, LookingKeeps

\* A cleanup of one thread leaves the connect of the other, and of its own there is none.
LEMMA CleaningThread ==
    ASSUME SettingsInv, NEW p \in Threads, call[p].at = "delete",
           NEW c \in {NoCall} \cup Cleanups, call' = [call EXCEPT ![p] = c]
    PROVE  /\ call' = [q \in Threads |-> call'[q]]
           /\ \A q \in Threads : call'[q] \in {NoCall, Looking} \cup Connects \cup Cleanups
           /\ call'["main"].at \notin {"write", "persist", "compensate"}
           /\ call'[p] = c /\ \A q \in Threads \ {p} : call'[q] = call[q]
           /\ call'["async"] = call["async"] \/ (~Connecting /\ ~Connecting')
           /\ p = "main" => save = NoSave
           /\ save # NoSave => call'["main"].at = "off"
<1>1. c.at \notin {"write", "persist", "compensate"}
  BY CallsAreOne
<1>2. /\ call' = [q \in Threads |-> call'[q]]
      /\ \A q \in Threads : call'[q] \in {NoCall, Looking} \cup Connects \cup Cleanups
      /\ call'["main"].at \notin {"write", "persist", "compensate"}
      /\ call'[p] = c /\ \A q \in Threads \ {p} : call'[q] = call[q]
  BY <1>1, CallTypes
<1>3. p = "main" => save = NoSave
  BY DEF SettingsInv, Locked
<1>4. "main" \in Threads /\ "async" \in Threads
  BY DEF Threads
<1>5. save # NoSave => call'["main"].at = "off"
  BY <1>2, <1>3, <1>4 DEF SettingsInv, Locked
<1>6. call'["async"] = call["async"] \/ (~Connecting /\ ~Connecting')
  BY <1>1, <1>2, <1>4 DEF Connecting
<1> QED
  BY <1>2, <1>3, <1>5, <1>6

LEMMA CleanupDeletesKeeps ==
    ASSUME NEW p \in Threads, SettingsInv, CleanupDeletes(p),
           UNCHANGED <<effects, paused, lock, save>>
    PROVE  SettingsInv'
<1>0. call[p].at = "delete" /\ UNCHANGED <<live, file>>
  BY DEF CleanupDeletes
<1>1. PICK c \in Cleanups : c = call[p]
  BY <1>0, ConnectUnderWay
<1>2. PICK t \in c.todo :
         \/ /\ store' = store \ {t}
            /\ call' = [call EXCEPT ![p].todo = @ \ {t}, ![p].deleted = @ \cup {t}]
            /\ excused' = IF InUse(t) THEN excused \cup {"raced"} ELSE excused
         \/ /\ call' = [call EXCEPT ![p].todo = @ \ {t}]
            /\ UNCHANGED <<store, excused>>
  BY <1>1 DEF CleanupDeletes
<1>3. PICK gone : /\ gone \in {{t}, {}} /\ store' = store \ gone
                  /\ call' = [call EXCEPT ![p] = [c EXCEPT !.todo = c.todo \ {t},
                                                          !.deleted = c.deleted \cup gone]]
                  /\ excused' = IF gone = {t} /\ InUse(t) THEN excused \cup {"raced"} ELSE excused
  <2>1. CASE /\ store' = store \ {t}
             /\ call' = [call EXCEPT ![p].todo = @ \ {t}, ![p].deleted = @ \cup {t}]
             /\ excused' = IF InUse(t) THEN excused \cup {"raced"} ELSE excused
    <3>1. call' = [call EXCEPT ![p] = [c EXCEPT !.todo = c.todo \ {t},
                                                !.deleted = c.deleted \cup {t}]]
      BY <1>1, <2>1
    <3> WITNESS {t}
    <3> QED
      BY <2>1, <3>1
  <2>2. CASE /\ call' = [call EXCEPT ![p].todo = @ \ {t}]
             /\ UNCHANGED <<store, excused>>
    <3>1. [c EXCEPT !.todo = c.todo \ {t}]
            = [c EXCEPT !.todo = c.todo \ {t}, !.deleted = c.deleted \cup {}]
      BY DEF Cleanups
    <3>2. call' = [call EXCEPT ![p] = [c EXCEPT !.todo = c.todo \ {t}]]
      BY <1>1, <2>2
    <3>3. {} # {t}
      OBVIOUS
    <3> WITNESS {}
    <3> QED
      BY <2>2, <3>1, <3>2, <3>3
  <2> QED
    BY <1>2, <2>1, <2>2
<1>4. PICK d \in Cleanups : d = [c EXCEPT !.todo = c.todo \ {t}, !.deleted = c.deleted \cup gone]
  BY <1>3 DEF Cleanups
<1>5. d.deleted = c.deleted \cup gone
  BY <1>4 DEF Cleanups
<1>6. call' = [call EXCEPT ![p] = d]
  BY <1>3, <1>4
<1>7. /\ call' = [q \in Threads |-> call'[q]]
      /\ \A q \in Threads : call'[q] \in {NoCall, Looking} \cup Connects \cup Cleanups
      /\ call'["main"].at \notin {"write", "persist", "compensate"}
      /\ call'[p] = d /\ \A q \in Threads \ {p} : call'[q] = call[q]
      /\ call'["async"] = call["async"] \/ (~Connecting /\ ~Connecting')
      /\ save # NoSave => call'["main"].at = "off"
  BY <1>0, <1>6, CleaningThread
<1>8. SettingsTypes'
  BY <1>0, <1>3, <1>7 DEF SettingsInv, SettingsTypes
<1>9. excused \subseteq excused' /\ (Unexcused' => Unexcused /\ (gone = {t} => ~InUse(t)))
  BY <1>3 DEF Unexcused
<1>10. Locked' /\ Filed' /\ Passed' /\ Applying'
  BY <1>0, <1>7, <1>9, SaveStands
<1>11. Old'
  BY <1>0, <1>7 DEF SettingsInv, Old, Connecting
<1>12. PICK now : now = call'["async"]
  OBVIOUS
<1>13. Secrets'
  <2> SUFFICES ASSUME Unexcused' PROVE
         /\ \A u \in store' : Reaches(u) \/ Written(u)'
         /\ Connecting' /\ now.had => Reaches(now.target)
         /\ \A q \in Threads : call'[q].at = "delete" => \A u \in call'[q].deleted :
               u \notin store' /\ ~Written(u)' /\ ~(InUse(u)' /\ now.had)
    BY <1>0, <1>12 DEF Secrets, Reaches
  <2>1. \A u : (Written(u) <=> Written(u)') /\ (InUse(u) <=> InUse(u)')
    BY <1>7 DEF Written, InUse, Connecting
  <2>2. \A u \in store' : Reaches(u) \/ Written(u)'
    BY <1>3, <1>9, <2>1 DEF SettingsInv, Secrets
  <2>3. Connecting' /\ now.had => Reaches(now.target)
    BY <1>7, <1>9, <1>12 DEF SettingsInv, Secrets, Connecting
  <2>4. ASSUME NEW q \in Threads, call'[q].at = "delete", NEW u \in call'[q].deleted
        PROVE  u \notin store' /\ ~Written(u)' /\ ~(InUse(u)' /\ now.had)
    <3>1. InUse(u)' => now.had = call["async"].had
      BY <1>7, <1>12 DEF InUse, Connecting
    <3>2. CASE u \in call[q].deleted /\ call[q].at = "delete"
      BY <1>3, <1>9, <2>1, <3>1, <3>2 DEF SettingsInv, Secrets
    <3>3. CASE ~(u \in call[q].deleted /\ call[q].at = "delete")
      <4>1. q = p
        BY <1>7, <2>4, <3>3
      <4>2. gone = {t} /\ u = t
        BY <1>0, <1>1, <1>3, <1>5, <1>7, <2>4, <3>3, <4>1
      <4>3. ~InUse(u) /\ (Written(u) => InUse(u))
        BY <1>9, <4>2 DEF InUse, Written
      <4> QED
        BY <1>3, <2>1, <4>2, <4>3
    <3> QED
      BY <3>2, <3>3
  <2> QED
    BY <2>2, <2>3, <2>4
<1> QED
  BY <1>8, <1>10, <1>11, <1>13 DEF SettingsInv

LEMMA CleanedAccount ==
    ASSUME SettingsInv, NEW deleted \in SUBSET Targets
    PROVE  /\ CleanedUp(deleted) \in Accounts
           /\ CleanedUp(deleted).cleanup = live.account.cleanup \ deleted
           /\ \/ CleanedUp(deleted).target = live.account.target
              \/ CleanedUp(deleted).target = NoTarget /\ live.account.target \in deleted
BY DEF SettingsInv, SettingsTypes, SettingsSet, Accounts, CleanedUp

LEMMA CleanupPersistsKeeps ==
    ASSUME NEW p \in Threads, SettingsInv, CleanupPersists(p),
           UNCHANGED <<effects, paused, lock, save>>
    PROVE  SettingsInv'
<1>0. /\ call[p].at = "delete" /\ UNCHANGED <<store, excused>>
      /\ call' = [call EXCEPT ![p] = NoCall]
      /\ UNCHANGED <<live, file>> \/ Account(CleanedUp(call[p].deleted))
  BY DEF CleanupPersists, UpdateFails
<1>1. PICK c \in Cleanups : c = call[p]
  BY <1>0, ConnectUnderWay
<1>2. c.deleted \subseteq Targets
  BY DEF Cleanups
<1>3. /\ call' = [q \in Threads |-> call'[q]]
      /\ \A q \in Threads : call'[q] \in {NoCall, Looking} \cup Connects \cup Cleanups
      /\ call'["main"].at \notin {"write", "persist", "compensate"}
      /\ call'[p] = NoCall /\ \A q \in Threads \ {p} : call'[q] = call[q]
      /\ call'["async"] = call["async"] \/ (~Connecting /\ ~Connecting')
      /\ save # NoSave => call'["main"].at = "off"
  BY <1>0, CleaningThread
<1>4. live \in SettingsSet /\ live.account \in Accounts
  BY DEF SettingsInv, SettingsTypes, SettingsSet
<1>5. PICK account \in Accounts :
         /\ live'.account = account
         /\ UNCHANGED <<live, file>> \/ AccountSaved(account)
         /\ live.account.cleanup \ c.deleted \subseteq account.cleanup
         /\ \/ account.target = live.account.target
            \/ account.target = NoTarget /\ live.account.target \in c.deleted
  <2>1. CASE UNCHANGED <<live, file>>
    BY <1>4, <2>1
  <2>2. CASE Account(CleanedUp(call[p].deleted))
    <3>1. PICK account \in Accounts :
             /\ account = CleanedUp(c.deleted)
             /\ account.cleanup = live.account.cleanup \ c.deleted
             /\ \/ account.target = live.account.target
                \/ account.target = NoTarget /\ live.account.target \in c.deleted
      BY <1>2, CleanedAccount
    <3>2. AccountSaved(account)
      BY <1>1, <2>2, <3>1 DEF Account, UpdateFree, AccountSaved
    <3>3. live'.account = account
      BY <1>4, <3>2 DEF AccountSaved, SettingsSet
    <3> QED
      BY <3>1, <3>2, <3>3
  <2> QED
    BY <1>0, <2>1, <2>2
<1>6. Locked' /\ Filed' /\ Passed' /\ Applying' /\ live' \in SettingsSet /\ file' \in SettingsSet
  BY <1>0, <1>3, <1>5, SaveStands
<1>7. SettingsTypes'
  BY <1>0, <1>3, <1>6 DEF SettingsInv, SettingsTypes
<1>8. Old'
  BY <1>3, <1>5 DEF SettingsInv, Old, Connecting
<1>9. PICK now : now = call'["async"]
  OBVIOUS
<1>10. Secrets'
  <2> SUFFICES ASSUME Unexcused PROVE
         /\ \A u \in store : Reaches(u)' \/ Written(u)'
         /\ Connecting' /\ now.had => Reaches(now.target)'
         /\ \A q \in Threads : call'[q].at = "delete" => \A u \in call'[q].deleted :
               u \notin store /\ ~Written(u)' /\ ~(InUse(u)' /\ now.had)
    BY <1>0, <1>9 DEF Secrets, Reaches, Unexcused
  <2>1. \A u : (Written(u) <=> Written(u)') /\ (InUse(u) <=> InUse(u)')
    BY <1>3 DEF Written, InUse, Connecting
  <2>2. \A u : Reaches(u) /\ u \notin c.deleted => Reaches(u)'
    BY <1>5 DEF Reaches
  <2>3. \A u \in c.deleted : u \notin store /\ ~Written(u) /\ ~(InUse(u) /\ call["async"].had)
    BY <1>0, <1>1 DEF SettingsInv, Secrets
  <2>4. \A u \in store : Reaches(u)' \/ Written(u)'
    BY <2>1, <2>2, <2>3 DEF SettingsInv, Secrets
  <2>5. ASSUME Connecting', now.had PROVE Reaches(now.target)'
    <3>1. now = call["async"] /\ Connecting
      BY <1>3, <1>9, <2>5 DEF Connecting
    <3>2. InUse(now.target)
      BY <3>1 DEF InUse, Connecting
    <3>3. now.target \notin c.deleted
      BY <2>3, <2>5, <3>1, <3>2
    <3>4. Reaches(now.target)
      BY <2>5, <3>1 DEF SettingsInv, Secrets
    <3> QED
      BY <2>2, <3>3, <3>4
  <2>6. ASSUME NEW q \in Threads, call'[q].at = "delete", NEW u \in call'[q].deleted
        PROVE  u \notin store /\ ~Written(u)' /\ ~(InUse(u)' /\ now.had)
    <3>1. q # p /\ call'[q] = call[q]
      BY <1>3, <2>6, CallsAreOne
    <3>2. u \notin store /\ ~Written(u) /\ ~(InUse(u) /\ call["async"].had)
      BY <2>6, <3>1 DEF SettingsInv, Secrets
    <3>3. InUse(u)' => now.had = call["async"].had
      BY <1>3, <1>9 DEF InUse, Connecting
    <3> QED
      BY <2>1, <3>2, <3>3
  <2> QED
    BY <2>4, <2>5, <2>6
<1> QED
  BY <1>6, <1>7, <1>8, <1>10 DEF SettingsInv

LEMMA AccountStepKeeps == SettingsInv /\ AccountStep => SettingsInv'
BY ConnectStartsKeeps, ConnectWritesKeeps, ConnectPersistsKeeps, ConnectCompensatesKeeps,
   DisconnectKeeps, StatusKeeps, CleanupLooksKeeps, CleanupDeletesKeeps, CleanupPersistsKeeps
   DEF AccountStep

-----------------------------------------------------------------------------
\* A start of the program sets everything up from the file.
LEMMA RestartKeeps == SettingsInv /\ Restart => SettingsInv'
<1> SUFFICES ASSUME SettingsInv, Restart PROVE SettingsInv'
  OBVIOUS
<1>0. /\ live' = file /\ paused' = FALSE /\ effects' = Wanted(file, FALSE)
      /\ lock' = NoOne /\ save' = NoSave /\ call' = [p \in Threads |-> NoCall]
      /\ excused' = (excused \ {"not restored", "half applied"})
                      \cup IF call["async"].at \in {"persist", "compensate"}
                           THEN {"interrupted"} ELSE {}
      /\ UNCHANGED <<file, store>>
  BY DEF Restart
<1>1. file \in SettingsSet /\ file.account = live.account /\ store \subseteq Targets
  BY DEF SettingsInv, SettingsTypes, Filed
<1>2. /\ call' = [p \in Threads |-> call'[p]] /\ \A p \in Threads : call'[p] = NoCall
      /\ "main" \in Threads /\ "async" \in Threads
  BY <1>0 DEF Threads
<1>3. effects' = [e \in Effects |-> effects'[e]]
  BY <1>0, WantedEffects
<1>4. SettingsTypes'
  <2>1. paused' \in BOOLEAN
    BY <1>0
  <2> QED
    BY <1>0, <1>1, <1>2, <1>3, <2>1, CallsAreOne DEF SettingsTypes
<1>5. Locked' /\ Filed' /\ Passed'
  BY <1>0, NoSaveIsNone DEF Locked, Filed, Passed, Effects
<1>6. Applying'
  BY <1>0 DEF Applying
<1>7. Old'
  BY <1>2, CallsAreOne DEF Old, Connecting
<1>8. Secrets'
  <2> SUFFICES ASSUME Unexcused' PROVE \A t \in store : Reaches(t)
    BY <1>0, <1>1, <1>2, CallsAreOne DEF Secrets, Connecting, Reaches
  <2>1. Unexcused /\ call["async"].at \notin {"persist", "compensate"}
    BY <1>0 DEF Unexcused
  <2> QED
    BY <2>1 DEF SettingsInv, Secrets, Written
<1> QED
  BY <1>4, <1>5, <1>6, <1>7, <1>8 DEF SettingsInv

LEMMA SettingsStart == SettingsInit => SettingsInv
<1> SUFFICES ASSUME SettingsInit PROVE SettingsInv
  OBVIOUS
<1>0. /\ live = [app |-> FirstApp, account |-> Disconnected] /\ file = live
      /\ effects = Wanted(live, FALSE) /\ paused = FALSE /\ lock = NoOne /\ save = NoSave
      /\ store = {} /\ call = [p \in Threads |-> NoCall] /\ excused = {}
  BY DEF SettingsInit
<1>1. live \in SettingsSet
  BY <1>0 DEF SettingsSet, Accounts, Disconnected
<1>2. /\ call = [p \in Threads |-> call[p]] /\ \A p \in Threads : call[p] = NoCall
      /\ "main" \in Threads /\ "async" \in Threads
  BY <1>0 DEF Threads
<1>3. effects = [e \in Effects |-> effects[e]]
  BY <1>0, WantedEffects
<1>4. SettingsTypes
  <2>1. paused \in BOOLEAN
    BY <1>0
  <2> QED
    BY <1>0, <1>1, <1>2, <1>3, <2>1, CallsAreOne DEF SettingsTypes
<1>5. Locked /\ Filed /\ Passed
  BY <1>0, NoSaveIsNone DEF Locked, Filed, Passed, Effects
<1>6. Applying
  BY <1>0 DEF Applying
<1>7. Old /\ Secrets
  BY <1>0, <1>2, CallsAreOne DEF Old, Secrets, Connecting
<1> QED
  BY <1>4, <1>5, <1>6, <1>7 DEF SettingsInv

LEMMA SettingsStepKeeps == SettingsInv /\ [SettingsNext]_settingsVars => SettingsInv'
<1>1. SettingsInv /\ UNCHANGED settingsVars => SettingsInv'
  BY SettingsStutters DEF settingsVars
<1> QED
  BY <1>1, SaveSettingsKeeps, SaveAppliesKeeps, SavePreparesKeeps, SavePersistsKeeps,
     SaveFinishesKeeps, SaveRestoresKeeps, SaveUndoesKeeps, CaptureKeysKeeps, AccountStepKeeps,
     RestartKeeps DEF SettingsNext

LEMMA SettingsAreWhole == SettingsInv => SavesAreWhole
<1> SUFFICES ASSUME SettingsInv PROVE SavesAreWhole
  OBVIOUS
<1>1. lock = NoOne => save = NoSave
  BY DEF SettingsInv, Locked, NoOne
<1>2. SettingsAgree
  BY <1>1, NoSaveIsNone DEF SettingsInv, Filed, SettingsAgree
<1>3. SideEffectsFollowSettings
  <2> SUFFICES ASSUME lock = NoOne, excused \cap {"not restored", "half applied"} = {}
               PROVE  effects = Wanted(live, paused)
    BY DEF SideEffectsFollowSettings
  <2>1. \A e \in Effects : effects[e] = Wanted(live, paused)[e]
    BY <1>1 DEF SettingsInv, Applying
  <2>2. paused \in BOOLEAN /\ effects = [e \in Effects |-> effects[e]]
    BY DEF SettingsInv, SettingsTypes
  <2>3. Wanted(live, paused) = [e \in Effects |-> Wanted(live, paused)[e]]
    BY <2>2, WantedEffects
  <2> QED
    BY <2>1, <2>2, <2>3
<1>4. NoOrphanCredential
  BY DEF SettingsInv, Filed, Secrets, Unexcused, Reaches, Written, InUse, NoOrphanCredential
<1> QED
  BY <1>2, <1>3, <1>4 DEF SavesAreWhole

\* Wherever a call of a save or of an account command fails, and wherever the program is
\* killed, the settings in use are those of the file, the effects are theirs, and no secret is
\* left unnamed (save_settings, rollback_settings_side_effects, update_cloud, cloud_connect,
\* reconcile_cloud_credential_cleanup).
THEOREM SavesStayWhole == SettingsSpec => []SavesAreWhole
<1>1. SettingsSpec => []SettingsInv
  BY SettingsStart, SettingsStepKeeps, PTL DEF SettingsSpec
<1> QED
  BY <1>1, SettingsAreWhole, PTL

(***************************************************************************)
(* Installation.  A cancelled job replaces nothing, a runtime said to be   *)
(* ready is, and the page does not wait for a job that is over.            *)
(***************************************************************************)

Phases == BusyPhases \cup {"idle", "ready", "failed", "cancelled"}
Shot == [phase : Phases, discovery : {"managed", "missing"}]
Places == {"preparing", "downloading", "checked", "extracting", "publishing", "swapping",
           "published", "failed"}
Job == [at : Places, by : Pages, bytes : Nat]

EnsureTyped(e) ==
    /\ ensures[e].at \in {"noted", "told"} => ensures[e].phase \in Phases
    /\ ensures[e].at = "failing" => ensures[e].phase \in {"failed", "cancelled"}
    /\ ensures[e].at = "answered" => ensures[e].snapshot \in Shot

InstallTyped ==
    /\ state \in Phases /\ installing \in BOOLEAN /\ cancelled \in BOOLEAN
    /\ ensures = [e \in Pages |-> ensures[e]]
    /\ \A e \in Pages : EnsureTyped(e)
    /\ install \in Job \/ install = NoJob
    /\ panel \in [shows : Shot, dated : BOOLEAN, loaded : Pages]
    /\ snapshots \in Seq(Shot)
    /\ query.at = "noted" => query.phase \in Phases

\* One job at a time, which is the controller's until its runtime lies in place, and which
\* runs only for want of one; from the last cancellable boundary on no cancellation takes.
JobsTrue ==
    /\ installing => install # NoJob
    /\ state \in BusyPhases <=> installing
    /\ install.at \notin {"none", "published"} =>
          installing /\ runtime # "verified" /\ backup # "verified"
    /\ install.at \in {"publishing", "swapping"} => state = "publishing" /\ ~cancelled
    /\ install.at = "published" =>
          runtime = "verified" /\ ~cancelled /\ (installing => state = "publishing")
    /\ state = "ready" => runtime = "verified" \/ hurt
    /\ backup # "none" => install.at = "swapping"

\* Whatever busy phase the page shows or is about to, the news that it is over is to come.
Coming == install # NoJob \/ \E e \in Pages : ensures[e].at = "failing"
NewsComes ==
    /\ snapshots # <<>> /\ snapshots[Len(snapshots)].phase \in BusyPhases => Coming
    /\ snapshots = <<>> /\ panel.shows.phase \in BusyPhases => panel.dated \/ Coming

InstallInv == InstallTyped /\ JobsTrue /\ NewsComes

-----------------------------------------------------------------------------
LEMMA InstallInitInv == InstallInit => InstallInv
<1> SUFFICES ASSUME InstallInit PROVE InstallInv
  OBVIOUS
<1>1. InstallTyped
  <2>1. ensures = [e \in Pages |-> ensures[e]] /\ \A e \in Pages : EnsureTyped(e)
    BY DEF InstallInit, EnsureTyped, NoEnsure
  <2>2. panel \in [shows : Shot, dated : BOOLEAN, loaded : Pages]
    BY DEF InstallInit, Shot, Phases, Pages, Progress, PhaseSnapshot
  <2>3. state \in Phases /\ query.phase \in Phases /\ snapshots \in Seq(Shot)
    BY DEF InstallInit, Phases
  <2>4. installing \in BOOLEAN /\ cancelled \in BOOLEAN /\ install = NoJob
    BY DEF InstallInit
  <2> QED
    BY <2>1, <2>2, <2>3, <2>4 DEF InstallTyped
<1>2. JobsTrue
  BY DEF InstallInit, JobsTrue, NoJob, BusyPhases
<1>3. NewsComes
  BY DEF InstallInit, NewsComes, Progress, PhaseSnapshot, BusyPhases
<1> QED
  BY <1>1, <1>2, <1>3 DEF InstallInv

\* What a job at some place is.
LEMMA JobThere ==
    ASSUME InstallInv, install.at \in Places
    PROVE  install \in Job
  BY DEF InstallInv, InstallTyped, NoJob, Places

\* A job that goes somewhere else stays the job it is.
LEMMA JobGone ==
    ASSUME InstallInv, install.at \in Places, NEW place \in Places, JobGoes(place)
    PROVE  install \in Job /\ install' \in Job /\ install'.at = place
  BY JobThere DEF JobGoes, Job

\* The end of the events after one more.
LEMMA OneMore ==
    ASSUME InstallTyped, NEW shot \in Shot, Emitted(shot)
    PROVE  /\ snapshots' \in Seq(Shot) /\ snapshots' # <<>>
           /\ snapshots'[Len(snapshots')] = shot
  BY DEF InstallTyped, Emitted

LEMMA ProgressIsShot ==
    ASSUME NEW phase \in Phases
    PROVE  Progress(phase) \in Shot /\ Progress(phase).phase = phase
  BY DEF Progress, PhaseSnapshot, Shot

\* A step of the job that leaves the page and the commands alone.
LEMMA JobMoves ==
    ASSUME InstallInv, install' \in Job, UNCHANGED <<cancelled, ensures, panel, query>>,
           UNCHANGED snapshots \/ \E phase \in Phases : Emitted(Progress(phase)),
           state' \in Phases, installing' \in BOOLEAN, JobsTrue'
    PROVE  InstallInv'
<1>1. install' # NoJob
  BY DEF Job, NoJob, Places
<1>2. snapshots' \in Seq(Shot)
  BY OneMore, ProgressIsShot DEF InstallInv, InstallTyped
<1>3. InstallTyped'
  BY <1>2 DEF InstallInv, InstallTyped, EnsureTyped
<1>4. NewsComes'
  BY <1>1 DEF NewsComes, Coming
<1> QED
  BY <1>3, <1>4 DEF InstallInv

LEMMA PrepareStep == InstallInv /\ Prepare => InstallInv'
<1> SUFFICES ASSUME InstallInv, Prepare PROVE InstallInv'
  OBVIOUS
<1>1. install.at = "preparing" /\ install.at \in Places
  BY DEF Prepare, JobAt, Places
<1>2. PICK place \in {"failed", "downloading", "checked"} : JobGoes(place)
  BY DEF Prepare, Interrupted, Fails
<1>3. install' \in Job /\ install'.at = place
  BY <1>1, <1>2, JobGone DEF Places
<1>4. /\ UNCHANGED <<installing, cancelled, ensures, runtime, backup, hurt, panel, query>>
      /\ installing \in BOOLEAN /\ installing /\ state \in Phases /\ install # NoJob
  BY <1>1 DEF Prepare, panelVars, InstallInv, InstallTyped, JobsTrue, NoJob
<1>5. state' \in {state, "downloading"} /\ state' \in Phases
  BY <1>4 DEF Prepare, Phases, BusyPhases
<1>6. UNCHANGED snapshots \/ \E phase \in Phases : Emitted(Progress(phase))
  BY DEF Prepare, Phases, BusyPhases
<1>7. JobsTrue'
  BY <1>1, <1>3, <1>4, <1>5 DEF InstallInv, JobsTrue, BusyPhases, Job, NoJob, Places
<1> QED
  BY <1>3, <1>4, <1>5, <1>6, <1>7, JobMoves

LEMMA DownloadSteps == InstallInv /\ (DownloadPiece \/ DownloadEnds) => InstallInv'
<1> SUFFICES ASSUME InstallInv, DownloadPiece \/ DownloadEnds PROVE InstallInv'
  OBVIOUS
<1>1. install.at = "downloading" /\ install.at \in Places
  BY DEF DownloadPiece, DownloadEnds, JobAt, Places
<1>2. install' \in Job /\ install'.at \in {"downloading", "checked", "failed"}
  <2>1. CASE install' = [install EXCEPT !.bytes = @ + 1]
    <3>1. install \in Job /\ install.bytes + 1 \in Nat
      BY <1>1, JobThere DEF Job
    <3> QED
      BY <1>1, <2>1, <3>1 DEF Job
  <2>2. CASE JobGoes("failed") \/ JobGoes("checked")
    BY <1>1, <2>2, JobGone DEF Places
  <2> QED
    BY <2>1, <2>2 DEF DownloadPiece, DownloadEnds, Interrupted, Fails
<1>3. /\ UNCHANGED <<installing, cancelled, ensures, runtime, backup, hurt, panel, query,
                     snapshots>>
      /\ installing \in BOOLEAN /\ installing /\ state \in Phases
  BY <1>1 DEF DownloadPiece, DownloadEnds, panelVars, controllerVars, InstallInv, InstallTyped,
              JobsTrue
<1>4. state' \in {state, "downloading"} /\ state' \in Phases
  BY <1>3 DEF DownloadPiece, DownloadEnds, controllerVars, Phases, BusyPhases
<1>5. JobsTrue'
  BY <1>1, <1>2, <1>3, <1>4 DEF InstallInv, JobsTrue, BusyPhases, Job, NoJob, Places
<1> QED
  BY <1>2, <1>3, <1>4, <1>5, JobMoves

LEMMA ExtractSteps == InstallInv /\ (BeginVerifying \/ Extract \/ BeginPublishing) => InstallInv'
<1> SUFFICES ASSUME InstallInv, BeginVerifying \/ Extract \/ BeginPublishing PROVE InstallInv'
  OBVIOUS
<1>1. install.at \in {"checked", "extracting"} /\ install.at \in Places
  BY DEF BeginVerifying, Extract, BeginPublishing, JobAt, Places
<1>2. install' \in Job /\ install'.at \in {"extracting", "publishing", "failed"}
  <2>1. CASE UNCHANGED install /\ install.at = "extracting"
    BY <1>1, <2>1, JobThere
  <2>2. CASE JobGoes("failed") \/ JobGoes("extracting") \/ JobGoes("publishing")
    BY <1>1, <2>2, JobGone DEF Places
  <2> QED
    BY <2>1, <2>2 DEF BeginVerifying, Extract, BeginPublishing, Interrupted, Fails, JobAt
<1>3. /\ UNCHANGED <<installing, cancelled, ensures, runtime, backup, hurt, panel, query>>
      /\ installing \in BOOLEAN /\ installing /\ state \in Phases
  BY <1>1 DEF BeginVerifying, Extract, BeginPublishing, panelVars, controllerVars, InstallInv,
              InstallTyped, JobsTrue
<1>4. state' \in {state, "verifying", "publishing"} /\ state' \in Phases
  BY <1>3 DEF BeginVerifying, Extract, BeginPublishing, controllerVars, Phases, BusyPhases
<1>5. install'.at = "publishing" => state' = "publishing" /\ ~cancelled
  <2>1. CASE install'.at = "publishing"
    BY <1>1, <1>2, <2>1, JobGone
    DEF BeginVerifying, Extract, BeginPublishing, Interrupted, Fails, JobAt, MayPublish, Places
  <2> QED
    BY <2>1
<1>6. UNCHANGED snapshots \/ \E phase \in Phases : Emitted(Progress(phase))
  BY DEF BeginVerifying, Extract, BeginPublishing, Phases, BusyPhases
<1>7. JobsTrue'
  BY <1>1, <1>2, <1>3, <1>4, <1>5 DEF InstallInv, JobsTrue, BusyPhases, Job, NoJob, Places
<1> QED
  BY <1>2, <1>3, <1>4, <1>6, <1>7, JobMoves

LEMMA SwapSteps == InstallInv /\ (SetAside \/ Swap) => InstallInv'
<1> SUFFICES ASSUME InstallInv, SetAside \/ Swap PROVE InstallInv'
  OBVIOUS
<1>1. install.at \in {"publishing", "swapping"} /\ install.at \in Places
  BY DEF SetAside, Swap, JobAt, Places
<1>2. /\ UNCHANGED <<state, installing, cancelled, ensures, panel, query, snapshots>>
      /\ installing \in BOOLEAN /\ installing /\ state = "publishing" /\ state \in Phases
      /\ ~cancelled /\ runtime # "verified" /\ backup # "verified"
  BY <1>1 DEF SetAside, Swap, panelVars, controllerVars, InstallInv, InstallTyped, JobsTrue
<1>3. PICK place \in {"failed", "swapping", "published"} : JobGoes(place)
  BY DEF SetAside, Swap, Fails
<1>4. install' \in Job /\ install'.at = place
  BY <1>1, <1>3, JobGone DEF Places
<1>5. JobsTrue'
  <2>1. CASE SetAside
    <3>1. install.at = "publishing" /\ backup = "none"
      BY <2>1 DEF SetAside, JobAt, InstallInv, JobsTrue
    <3>2. \/ install'.at = "swapping" /\ runtime' = "none" /\ backup' = runtime
          \/ install'.at = "failed" /\ UNCHANGED <<runtime, backup>>
      BY <1>1, <2>1, JobGone DEF SetAside, Fails, Places
    <3> QED
      BY <1>2, <1>4, <3>1, <3>2 DEF JobsTrue, BusyPhases, Job, NoJob, Places
  <2>2. CASE Swap
    <3>1. \/ install'.at = "published" /\ runtime' = "verified" /\ backup' = "none"
          \/ install'.at = "failed" /\ runtime' = backup /\ backup' = "none"
      BY <1>1, <2>2, JobGone DEF Swap, Fails, Places
    <3> QED
      BY <1>2, <1>4, <3>1 DEF JobsTrue, BusyPhases, Job, NoJob, Places
  <2> QED
    BY <2>1, <2>2
<1> QED
  BY <1>2, <1>4, <1>5, JobMoves

-----------------------------------------------------------------------------
\* A command that goes on, and the rest with it.
LEMMA EnsureGoes ==
    ASSUME InstallInv, NEW e \in Pages, NEW x, ensures' = [ensures EXCEPT ![e] = x],
           x.at \in {"noted", "told"} => x.phase \in Phases,
           x.at = "failing" => x.phase \in {"failed", "cancelled"},
           x.at = "answered" => x.snapshot \in Shot
    PROVE  /\ ensures' = [g \in Pages |-> ensures'[g]]
           /\ \A g \in Pages : EnsureTyped(g)'
           /\ ensures'[e] = x
           /\ \A g \in Pages : g # e => ensures'[g] = ensures[g]
<1>1. ensures = [g \in Pages |-> ensures[g]] /\ \A g \in Pages : EnsureTyped(g)
  BY DEF InstallInv, InstallTyped
<1>2. /\ ensures' = [g \in Pages |-> ensures'[g]]
      /\ ensures'[e] = x
      /\ \A g \in Pages : g # e => ensures'[g] = ensures[g]
  BY <1>1
<1> QED
  BY <1>1, <1>2 DEF EnsureTyped

LEMMA EnsureCalledStep == InstallInv /\ EnsureCalled => InstallInv'
<1> SUFFICES ASSUME InstallInv, EnsureCalled PROVE InstallInv'
  OBVIOUS
<1> DEFINE e == panel.loaded
           x == [at |-> "noted", phase |-> state]
<1>1. /\ e \in Pages /\ state \in Phases /\ ensures[e].at = "none"
      /\ ensures' = [ensures EXCEPT ![e] = x]
      /\ UNCHANGED <<state, installing, cancelled, install, runtime, backup, hurt, panel, query,
                     snapshots>>
  BY DEF EnsureCalled, InstallInv, InstallTyped, controllerVars, diskVars, panelVars
<1>2. /\ ensures' = [g \in Pages |-> ensures'[g]]
      /\ \A g \in Pages : EnsureTyped(g)'
      /\ ensures'[e] = x
      /\ \A g \in Pages : g # e => ensures'[g] = ensures[g]
  BY <1>1, EnsureGoes
<1>3. InstallTyped' /\ JobsTrue'
  BY <1>1, <1>2 DEF InstallInv, InstallTyped, JobsTrue
<1>4. NewsComes'
  BY <1>1, <1>2 DEF InstallInv, NewsComes, Coming
<1> QED
  BY <1>3, <1>4 DEF InstallInv

LEMMA EnsureDecidesStep ==
    ASSUME InstallInv, NEW e \in Pages, EnsureDecides(e)
    PROVE  InstallInv'
<1>1. /\ ensures[e].at = "noted" /\ state \in Phases
      /\ UNCHANGED <<runtime, backup, hurt, panel, query>>
  BY DEF EnsureDecides, InstallInv, InstallTyped, diskVars, panelVars
<1>2. CASE runtime = "verified" /\ EndJob("ready")
           /\ Emitted(PhaseSnapshot("ready", "managed"))
           /\ EnsureSays(e, PhaseSnapshot("ready", "managed"))
           /\ UNCHANGED <<cancelled, install>>
  <2> DEFINE shot == PhaseSnapshot("ready", "managed")
             x == [at |-> "answered", snapshot |-> shot]
  <2>1. shot \in Shot /\ shot.phase = "ready"
    BY DEF PhaseSnapshot, Shot, Phases
  <2>2. ensures' = [ensures EXCEPT ![e] = x]
    BY <1>2 DEF EnsureSays
  <2>3. /\ ensures' = [g \in Pages |-> ensures'[g]]
        /\ \A g \in Pages : EnsureTyped(g)'
    BY <2>1, <2>2, EnsureGoes
  <2>4. /\ snapshots' \in Seq(Shot) /\ snapshots' # <<>>
        /\ snapshots'[Len(snapshots')] = shot
    BY <1>2, <2>1, OneMore DEF InstallInv
  <2>5. installing' = FALSE /\ state' = "ready" /\ "ready" \notin BusyPhases /\ "ready" \in Phases
    BY <1>2 DEF EndJob, BusyPhases, Phases
  <2>6. InstallTyped'
    BY <1>1, <1>2, <2>3, <2>4, <2>5 DEF InstallInv, InstallTyped
  <2>7. JobsTrue'
    BY <1>1, <1>2, <2>5 DEF InstallInv, JobsTrue
  <2>8. NewsComes'
    BY <2>1, <2>4, <2>5 DEF NewsComes
  <2> QED
    BY <2>6, <2>7, <2>8 DEF InstallInv
<1>3. CASE runtime # "verified" /\ MayBegin
           /\ installing' = TRUE /\ state' = "checking" /\ cancelled' = FALSE
           /\ install' = [at |-> "preparing", by |-> e, bytes |-> 0]
           /\ ensures' = [ensures EXCEPT ![e] = [at |-> "working"]]
           /\ UNCHANGED snapshots
  <2>1. /\ ensures' = [g \in Pages |-> ensures'[g]]
        /\ \A g \in Pages : EnsureTyped(g)'
    BY <1>3, EnsureGoes
  <2>2. install' \in Job /\ install' # NoJob /\ install'.at = "preparing"
    BY <1>3 DEF Job, NoJob, Places
  <2>3. "checking" \in BusyPhases /\ "checking" \in Phases
    BY DEF BusyPhases, Phases
  <2>4. InstallTyped'
    BY <1>1, <1>3, <2>1, <2>2, <2>3 DEF InstallInv, InstallTyped
  <2>5. JobsTrue'
    BY <1>1, <1>3, <2>2, <2>3 DEF InstallInv, JobsTrue, MayBegin
  <2>6. NewsComes'
    BY <2>2 DEF NewsComes, Coming
  <2> QED
    BY <2>4, <2>5, <2>6 DEF InstallInv
<1>4. CASE /\ ensures' = [ensures EXCEPT ![e] = [at |-> "told", phase |-> state]]
           /\ UNCHANGED <<controllerVars, install, snapshots>>
  <2>1. /\ ensures' = [g \in Pages |-> ensures'[g]]
        /\ \A g \in Pages : EnsureTyped(g)'
        /\ \A g \in Pages : g # e => ensures'[g] = ensures[g]
    BY <1>1, <1>4, EnsureGoes
  <2>2. InstallTyped' /\ JobsTrue'
    BY <1>1, <1>4, <2>1 DEF InstallInv, InstallTyped, JobsTrue, controllerVars
  <2>3. NewsComes'
    BY <1>1, <1>4, <2>1 DEF InstallInv, NewsComes, Coming
  <2> QED
    BY <2>2, <2>3 DEF InstallInv
<1> QED
  BY <1>2, <1>3, <1>4 DEF EnsureDecides

LEMMA ToldSteps ==
    ASSUME InstallInv, NEW e \in Pages, EnsureTold(e) \/ FailureTold(e)
    PROVE  InstallInv'
<1>1. CASE EnsureTold(e)
  <2> DEFINE shot == PhaseSnapshot(ensures[e].phase, Discovery)
  <2>1. ensures[e].at = "told" /\ ensures[e].phase \in Phases
    BY <1>1 DEF EnsureTold, InstallInv, InstallTyped, EnsureTyped
  <2>2. shot \in Shot
    BY <2>1 DEF PhaseSnapshot, Discovery, Shot
  <2>3. ensures' = [ensures EXCEPT ![e] = [at |-> "answered", snapshot |-> shot]]
    BY <1>1 DEF EnsureTold, EnsureSays
  <2> HIDE DEF shot
  <2>4. /\ ensures' = [g \in Pages |-> ensures'[g]]
        /\ \A g \in Pages : EnsureTyped(g)'
        /\ \A g \in Pages : g # e => ensures'[g] = ensures[g]
    BY <2>2, <2>3, EnsureGoes
  <2>5. UNCHANGED <<state, installing, cancelled, install, runtime, backup, hurt, panel, query,
                    snapshots>>
    BY <1>1 DEF EnsureTold, controllerVars, diskVars, panelVars
  <2>6. InstallTyped' /\ JobsTrue'
    BY <2>4, <2>5 DEF InstallInv, InstallTyped, JobsTrue
  <2>7. NewsComes'
    BY <2>1, <2>4, <2>5 DEF InstallInv, NewsComes, Coming
  <2> QED
    BY <2>6, <2>7 DEF InstallInv
<1>2. CASE FailureTold(e)
  <2> DEFINE shot == PhaseSnapshot(ensures[e].phase, Discovery)
  <2>1. ensures[e].at = "failing" /\ ensures[e].phase \in {"failed", "cancelled"}
    BY <1>2 DEF FailureTold, InstallInv, InstallTyped, EnsureTyped
  <2>2. shot \in Shot /\ shot.phase \notin BusyPhases
    BY <2>1 DEF PhaseSnapshot, Discovery, Shot, Phases, BusyPhases
  <2>3. /\ snapshots' \in Seq(Shot) /\ snapshots' # <<>>
        /\ snapshots'[Len(snapshots')] = shot
    BY <1>2, <2>2, OneMore DEF InstallInv, FailureTold
  <2>4. /\ ensures' = [g \in Pages |-> ensures'[g]]
        /\ \A g \in Pages : EnsureTyped(g)'
    BY <1>2, EnsureGoes DEF FailureTold
  <2>5. UNCHANGED <<state, installing, cancelled, install, runtime, backup, hurt, panel, query>>
    BY <1>2 DEF FailureTold, controllerVars, diskVars, panelVars
  <2>6. InstallTyped' /\ JobsTrue'
    BY <2>3, <2>4, <2>5 DEF InstallInv, InstallTyped, JobsTrue
  <2>7. NewsComes'
    BY <2>2, <2>3 DEF NewsComes
  <2> QED
    BY <2>6, <2>7 DEF InstallInv
<1> QED
  BY <1>1, <1>2

LEMMA JobEnds == InstallInv /\ (JobSucceeds \/ JobFails) => InstallInv'
<1> SUFFICES ASSUME InstallInv, JobSucceeds \/ JobFails PROVE InstallInv'
  OBVIOUS
<1>1. /\ install.at \in {"published", "failed"} /\ install.by \in Pages /\ install' = NoJob
      /\ UNCHANGED <<cancelled, runtime, backup, hurt, panel, query>>
  BY JobThere DEF JobSucceeds, JobFails, JobAt, Job, Places, diskVars, panelVars
<1>2. backup = "none"
  BY <1>1 DEF InstallInv, JobsTrue
<1>3. CASE JobSucceeds
  <2> DEFINE shot == PhaseSnapshot("ready", "managed")
  <2>1. shot \in Shot /\ shot.phase = "ready" /\ "ready" \notin BusyPhases /\ "ready" \in Phases
    BY DEF PhaseSnapshot, Shot, Phases, BusyPhases
  <2>2. /\ ensures' = [ensures EXCEPT ![install.by] = [at |-> "answered", snapshot |-> shot]]
        /\ Emitted(shot) /\ installing' = FALSE /\ state' = "ready" /\ runtime = "verified"
    BY <1>3 DEF JobSucceeds, EnsureSays, EndJob, JobAt, InstallInv, JobsTrue
  <2> HIDE DEF shot
  <2>3. /\ ensures' = [g \in Pages |-> ensures'[g]]
        /\ \A g \in Pages : EnsureTyped(g)'
    BY <1>1, <2>1, <2>2, EnsureGoes
  <2>4. /\ snapshots' \in Seq(Shot) /\ snapshots' # <<>>
        /\ snapshots'[Len(snapshots')] = shot
    BY <2>1, <2>2, OneMore DEF InstallInv
  <2>5. InstallTyped'
    BY <1>1, <2>1, <2>2, <2>3, <2>4 DEF InstallInv, InstallTyped
  <2>6. JobsTrue'
    BY <1>1, <1>2, <2>1, <2>2 DEF JobsTrue, NoJob
  <2>7. NewsComes'
    BY <2>1, <2>4 DEF NewsComes
  <2> QED
    BY <2>5, <2>6, <2>7 DEF InstallInv
<1>4. CASE JobFails
  <2>1. PICK phase \in {"failed", "cancelled"} :
           /\ installing' = FALSE /\ state' = phase
           /\ ensures' = [ensures EXCEPT ![install.by] = [at |-> "failing", phase |-> phase]]
           /\ UNCHANGED snapshots
    BY <1>4 DEF JobFails, EndJob
  <2>2. /\ ensures' = [g \in Pages |-> ensures'[g]]
        /\ \A g \in Pages : EnsureTyped(g)'
        /\ ensures'[install.by].at = "failing"
    BY <1>1, <2>1, EnsureGoes
  <2>3. phase \in Phases /\ phase \notin BusyPhases /\ phase # "ready"
    BY DEF Phases, BusyPhases
  <2>4. InstallTyped'
    BY <1>1, <2>1, <2>2, <2>3 DEF InstallInv, InstallTyped
  <2>5. JobsTrue'
    BY <1>1, <1>2, <2>1, <2>3 DEF JobsTrue, NoJob
  <2>6. NewsComes'
    BY <1>1, <2>2 DEF NewsComes, Coming
  <2> QED
    BY <2>4, <2>5, <2>6 DEF InstallInv
<1> QED
  BY <1>3, <1>4

-----------------------------------------------------------------------------
\* What the page shows.
LEMMA ShowsTrue ==
    ASSUME InstallInv, NEW shot \in Shot, Shows(shot), UNCHANGED snapshots,
           UNCHANGED install,
            \A e \in Pages : ensures[e].at = "failing" => ensures'[e].at = "failing"
    PROVE  panel' \in [shows : Shot, dated : BOOLEAN, loaded : Pages] /\ NewsComes'
<1>1. panel \in [shows : Shot, dated : BOOLEAN, loaded : Pages]
  BY DEF InstallInv, InstallTyped
<1>2. PICK late \in BOOLEAN : late = (Outdated(shot) /\ snapshots = <<>>)
  OBVIOUS
<1>3. panel' = [panel EXCEPT !.shows = shot, !.dated = late]
  BY <1>2 DEF Shows
<1>4. /\ panel' \in [shows : Shot, dated : BOOLEAN, loaded : Pages]
      /\ panel'.shows = shot /\ panel'.dated = late
  BY <1>1, <1>3
<1>5. NewsComes'
  BY <1>2, <1>4 DEF InstallInv, NewsComes, Coming, Outdated, JobsTrue
<1> QED
  BY <1>4, <1>5

LEMMA SeeEventStep == InstallInv /\ SeeEvent => InstallInv'
<1> SUFFICES ASSUME InstallInv, SeeEvent PROVE InstallInv'
  OBVIOUS
<1>1. /\ snapshots \in Seq(Shot) /\ snapshots # <<>> /\ snapshots' = Tail(snapshots)
      /\ panel \in [shows : Shot, dated : BOOLEAN, loaded : Pages]
      /\ panel' = [panel EXCEPT !.shows = Head(snapshots), !.dated = FALSE]
      /\ UNCHANGED <<state, installing, cancelled, ensures, install, runtime, backup, hurt, query>>
  BY DEF SeeEvent, InstallInv, InstallTyped, controllerVars, diskVars
<1>2. /\ Head(snapshots) \in Shot /\ snapshots' \in Seq(Shot)
      /\ snapshots' # <<>> => snapshots'[Len(snapshots')] = snapshots[Len(snapshots)]
      /\ snapshots' = <<>> => Head(snapshots) = snapshots[Len(snapshots)]
  <2>1. PICK n \in Nat : n = Len(snapshots) /\ n >= 1
    BY <1>1
  <2>2. /\ snapshots' \in Seq(Shot) /\ Len(snapshots') = n - 1
        /\ \A i \in 1 .. n - 1 : snapshots'[i] = snapshots[i + 1]
    BY <1>1, <2>1
  <2>3. Head(snapshots) = snapshots[1] /\ Head(snapshots) \in Shot
    BY <1>1, <2>1
  <2>4. CASE n = 1
    BY <2>1, <2>2, <2>3, <2>4
  <2>5. CASE n # 1
    <3>1. n - 1 \in 1 .. n - 1 /\ n - 1 + 1 = n
      BY <2>1, <2>5
    <3>2. snapshots'[n - 1] = snapshots[n] /\ snapshots' # <<>>
      BY <2>2, <3>1
    <3> QED
      BY <2>1, <2>2, <2>3, <3>2
  <2> QED
    BY <2>4, <2>5
<1>3. /\ panel' \in [shows : Shot, dated : BOOLEAN, loaded : Pages]
      /\ panel'.shows = Head(snapshots)
  BY <1>1, <1>2
<1>4. InstallTyped' /\ JobsTrue'
  BY <1>1, <1>2, <1>3 DEF InstallInv, InstallTyped, EnsureTyped, JobsTrue
<1>5. NewsComes'
  BY <1>1, <1>2, <1>3 DEF InstallInv, NewsComes, Coming
<1> QED
  BY <1>4, <1>5 DEF InstallInv

LEMMA QueryAnsweredStep == InstallInv /\ QueryAnswered => InstallInv'
<1> SUFFICES ASSUME InstallInv, QueryAnswered PROVE InstallInv'
  OBVIOUS
<1>1. PhaseSnapshot(query.phase, Discovery) \in Shot
  BY DEF InstallInv, InstallTyped, QueryAnswered, PhaseSnapshot, Discovery, Shot
<1>2. /\ Shows(PhaseSnapshot(query.phase, Discovery)) /\ query'.at = "none"
      /\ UNCHANGED <<state, installing, cancelled, ensures, install, runtime, backup, hurt,
                     snapshots>>
  BY DEF QueryAnswered, controllerVars, diskVars
<1>3. panel' \in [shows : Shot, dated : BOOLEAN, loaded : Pages] /\ NewsComes'
  BY <1>1, <1>2, ShowsTrue
<1>4. InstallTyped' /\ JobsTrue'
  BY <1>2, <1>3 DEF InstallInv, InstallTyped, EnsureTyped, JobsTrue
<1> QED
  BY <1>3, <1>4 DEF InstallInv

LEMMA EnsureAnsweredStep ==
    ASSUME InstallInv, NEW e \in Pages, EnsureAnswered(e)
    PROVE  InstallInv'
<1>1. /\ ensures[e].at \in {"answered", "refused"}
      /\ ensures' = [ensures EXCEPT ![e] = NoEnsure]
      /\ UNCHANGED <<state, installing, cancelled, install, runtime, backup, hurt, snapshots>>
      /\ state \in Phases
  BY DEF EnsureAnswered, controllerVars, diskVars, InstallInv, InstallTyped
<1>2. /\ ensures' = [g \in Pages |-> ensures'[g]]
      /\ \A g \in Pages : EnsureTyped(g)'
      /\ \A g \in Pages : g # e => ensures'[g] = ensures[g]
  BY <1>1, EnsureGoes DEF NoEnsure
<1>3. \A g \in Pages : ensures[g].at = "failing" => ensures'[g].at = "failing"
  BY <1>1, <1>2
<1>4. query'.at = "noted" => query'.phase \in Phases
  BY <1>1 DEF EnsureAnswered, InstallInv, InstallTyped
<1>5. panel' \in [shows : Shot, dated : BOOLEAN, loaded : Pages] /\ NewsComes'
  <2>1. CASE UNCHANGED panel
    BY <1>1, <1>3, <2>1 DEF InstallInv, InstallTyped, NewsComes, Coming
  <2>2. CASE ensures[e].at = "answered" /\ Shows(ensures[e].snapshot)
    <3>1. ensures[e].snapshot \in Shot
      BY <2>2 DEF InstallInv, InstallTyped, EnsureTyped
    <3> QED
      BY <1>1, <1>3, <2>2, <3>1, ShowsTrue
  <2> QED
    BY <2>1, <2>2 DEF EnsureAnswered
<1>6. InstallTyped' /\ JobsTrue'
  BY <1>1, <1>2, <1>4, <1>5 DEF InstallInv, InstallTyped, JobsTrue
<1> QED
  BY <1>5, <1>6 DEF InstallInv

LEMMA CancelStep == InstallInv /\ Cancel => InstallInv'
<1> SUFFICES ASSUME InstallInv, Cancel PROVE InstallInv'
  OBVIOUS
<1>1. /\ state \in Phases /\ RequestCancel /\ Emitted(Progress(state))
      /\ UNCHANGED <<state, installing, ensures, install, runtime, backup, hurt, panel, query>>
      /\ cancelled \in BOOLEAN /\ installing \in BOOLEAN
  BY DEF Cancel, InstallInv, InstallTyped, diskVars, panelVars
<1>2. Progress(state) \in Shot /\ Progress(state).phase = state
  BY <1>1, ProgressIsShot
<1>3. /\ snapshots' \in Seq(Shot) /\ snapshots' # <<>>
      /\ snapshots'[Len(snapshots')] = Progress(state)
  BY <1>1, <1>2, OneMore DEF InstallInv
<1>4. cancelled' \in BOOLEAN
  BY <1>1 DEF RequestCancel
<1>5. InstallTyped'
  BY <1>1, <1>3, <1>4 DEF InstallInv, InstallTyped, EnsureTyped
<1>6. JobsTrue'
  BY <1>1 DEF InstallInv, JobsTrue, RequestCancel
<1>7. NewsComes'
  BY <1>1, <1>2, <1>3 DEF InstallInv, JobsTrue, NewsComes, Coming
<1> QED
  BY <1>5, <1>6, <1>7 DEF InstallInv

LEMMA ReloadStep == InstallInv /\ Reload => InstallInv'
<1> SUFFICES ASSUME InstallInv, Reload PROVE InstallInv'
  OBVIOUS
<1>1. /\ state \in Phases /\ query' = [at |-> "noted", phase |-> state] /\ snapshots' = <<>>
      /\ panel' = [shows |-> Progress("idle"), dated |-> FALSE, loaded |-> "new"]
      /\ UNCHANGED <<state, installing, cancelled, ensures, install, runtime, backup, hurt>>
  BY DEF Reload, InstallInv, InstallTyped, controllerVars, diskVars
<1>2. Progress("idle") \in Shot /\ Progress("idle").phase = "idle"
  BY ProgressIsShot DEF Phases
<1>3. panel' \in [shows : Shot, dated : BOOLEAN, loaded : Pages]
  BY <1>1, <1>2 DEF Pages
<1>4. InstallTyped' /\ JobsTrue'
  BY <1>1, <1>3 DEF InstallInv, InstallTyped, EnsureTyped, JobsTrue
<1>5. NewsComes'
  BY <1>1, <1>2 DEF NewsComes, BusyPhases
<1> QED
  BY <1>4, <1>5 DEF InstallInv

LEMMA KilledStep == InstallInv /\ Killed => InstallInv'
<1> SUFFICES ASSUME InstallInv, Killed PROVE InstallInv'
  OBVIOUS
<1>1. /\ installing' = FALSE /\ state' = "idle" /\ cancelled' = FALSE /\ install' = NoJob
      /\ ensures' = [e \in Pages |-> NoEnsure] /\ backup' = "none" /\ snapshots' = <<>>
      /\ query' = [at |-> "noted", phase |-> "idle"]
      /\ panel' = [panel EXCEPT !.shows = Progress("idle"), !.dated = FALSE]
  BY DEF Killed, EndJob
<1>2. Progress("idle") \in Shot /\ Progress("idle").phase = "idle" /\ "idle" \in Phases
  BY ProgressIsShot DEF Phases
<1>3. panel' \in [shows : Shot, dated : BOOLEAN, loaded : Pages] /\ panel'.shows = Progress("idle")
  BY <1>1, <1>2 DEF InstallInv, InstallTyped
<1>4. InstallTyped'
  <2>1. ensures' = [e \in Pages |-> ensures'[e]] /\ \A e \in Pages : EnsureTyped(e)'
    BY <1>1 DEF EnsureTyped, NoEnsure
  <2>2. snapshots' \in Seq(Shot) /\ query'.phase \in Phases
    BY <1>1, <1>2
  <2> QED
    BY <1>1, <1>2, <1>3, <2>1, <2>2 DEF InstallTyped
<1>5. JobsTrue'
  BY <1>1 DEF JobsTrue, NoJob, BusyPhases
<1>6. NewsComes'
  BY <1>1, <1>2, <1>3 DEF NewsComes, BusyPhases
<1> QED
  BY <1>4, <1>5, <1>6 DEF InstallInv

LEMMA DamageStep == InstallInv /\ Damage => InstallInv'
<1> SUFFICES ASSUME InstallInv, Damage PROVE InstallInv'
  OBVIOUS
<1>1. /\ install = NoJob /\ ~installing /\ hurt' = TRUE
      /\ UNCHANGED <<state, installing, cancelled, ensures, install, backup, panel, query,
                     snapshots>>
  BY DEF Damage, controllerVars, panelVars
<1> QED
  BY <1>1 DEF InstallInv, InstallTyped, EnsureTyped, JobsTrue, NewsComes, Coming, NoJob

LEMMA InstallStill == InstallInv /\ UNCHANGED installVars => InstallInv'
  BY DEF InstallInv, InstallTyped, EnsureTyped, JobsTrue, NewsComes, Coming, installVars

\* Whatever fails, is cancelled, killed or asked for again, no cancelled job replaces the
\* runtime, "ready" means that a verified one lies in place, and a page that has heard all
\* shows no job that is over (FfmpegInstallController, install_managed_runtime).
THEOREM InstallsKeepTheirWord == InstallSpec => []InstallKeepsItsWord
<1>1. InstallInit => InstallInv
  BY InstallInitInv
<1>2. InstallInv /\ [InstallNext]_installVars => InstallInv'
  BY InstallStill, EnsureCalledStep, EnsureDecidesStep, ToldSteps, EnsureAnsweredStep, PrepareStep,
     DownloadSteps, ExtractSteps, SwapSteps, JobEnds, SeeEventStep, QueryAnsweredStep, CancelStep,
     ReloadStep, KilledStep, DamageStep DEF InstallNext
<1>3. InstallInv => InstallKeepsItsWord
  BY DEF InstallInv, JobsTrue, NewsComes, Coming, InstallKeepsItsWord, InstallSettled
<1> QED
  BY <1>1, <1>2, <1>3, PTL DEF InstallSpec

(***************************************************************************)
(* The window.  An open is served, what is seen is painted and follows the *)
(* shell, and a dead page is reported.                                     *)
(***************************************************************************)

Modes      == {"Foreground", "Taskbar", "Destroying", "Destroyed"}
Windows    == [at : {"live", "dying"}, shown : BOOLEAN, minimized : BOOLEAN, painted : BOOLEAN]
Readiness  == [next : Nat, generation : Nat, ready : Nat, armed : Nat, asleep : SUBSET Nat]
Snapshots  == [revision : Nat, backgrounded : BOOLEAN]
Loads      == [gate : Nat, work : Nat, seen : Nat \cup {-1}]
WebPages   == [at : {"loading", "listening", "asked", "answered"}, known : BOOLEAN,
               backgrounded : BOOLEAN, revision : Nat, work : Nat, dirty : BOOLEAN,
               gate : Nat, loads : SUBSET Loads, gallery : Nat \cup {-1}]

ShellTypes ==
    /\ mode \in Modes /\ pending \in BOOLEAN
    /\ window \in Windows \/ window = NoWindow
    /\ readiness \in Readiness
    /\ poked \in BOOLEAN

\* The mode says what there is of the window, but for a dying one that has minimised itself,
\* and a window asked for is there, or is built again when it has gone.
OpenTrue ==
    /\ mode = "Destroying" => window.at = "dying"
    /\ window.at = "none" <=> mode = "Destroyed"
    /\ Live => window.shown
    /\ wanted /\ "not built" \notin mishaps => Live \/ (window.at = "dying" /\ pending)

\* The web view is shown in the foreground, and the shell is there when the window is not
\* minimised, or has an event to handle.
PaintTrue ==
    Live /\ "not painted" \notin mishaps =>
       /\ mode = "Foreground" => window.painted
       /\ mode = "Taskbar" /\ ~poked => window.minimized

\* Every page has a generation of its own, and whoever is not ready a watchdog, or the user
\* was told.
WatchdogTrue ==
    /\ readiness.generation <= readiness.next
    /\ readiness.ready <= readiness.next /\ readiness.armed <= readiness.next
    /\ Live => readiness.generation # 0
    /\ Live /\ "watchdog missed" \notin mishaps /\ ~Ready(readiness) =>
          readiness.generation \in readiness.asleep \cup told

ShellInv == ShellTypes /\ OpenTrue /\ PaintTrue /\ WatchdogTrue

\* A page lives in a window.
PageThere == page.at # "none" => window.at # "none"

PageTypes ==
    /\ page \in WebPages \/ page = NoPage
    /\ events \in Seq(Snapshots \cup {Saved})
    /\ answer \in Snapshots \cup {NoAnswer}
    /\ library \in Nat /\ revision \in Nat
    /\ page.at \in {"none", "loading"} => events = <<>> /\ answer = NoAnswer
    /\ page.at \in {"listening", "answered"} => answer = NoAnswer
    /\ page.at = "loading" => ~page.known /\ page.loads = {}

Knows == page.at # "none" /\ page.known
Contents(q) == {q[i] : i \in DOMAIN q}

\* What the page knows of the shell, or will hear.
Carried ==
    {s \in Snapshots :
        \/ s = answer
        \/ s \in Contents(events)
        \/ Knows /\ s = [revision |-> page.revision, backgrounded |-> page.backgrounded]}
Reports == Carried \cup {Snapshot(revision, mode)}

\* Numbers tell snapshots apart, and two that follow each other are not both of the foreground.
Agree(s, t) ==
    /\ s.revision = t.revision => s.backgrounded = t.backgrounded
    /\ t.revision = s.revision + 1 => s.backgrounded \/ t.backgrounded
Agreeing(S, latest) ==
    /\ S \subseteq Snapshots
    /\ \A s \in S : s.revision <= latest /\ \A t \in S : Agree(s, t)

\* A page that has asked knows how things are, or will hear of it.
ReportsTrue ==
    /\ Agreeing(Reports, revision)
    /\ page.at \in {"asked", "answered"} => \E s \in Carried : s.revision = revision

\* In the background the gallery of page p is empty and due; in front it shows every clip, or
\* there is a current request that will, or a clip to hear of.  Requests are told apart.
InFront(p) == p.known /\ ~p.backgrounded
Requests(p) ==
    \A l \in p.loads : l.gate <= p.gate /\ \A k \in p.loads : l.gate = k.gate => l = k
Served(p, clips) ==
    \/ \E l \in p.loads : WorkIsCurrent(p, l) /\ l.seen \in {-1, clips}
    \/ p.gallery = clips /\ \A l \in p.loads : ~WorkIsCurrent(p, l)
Stocked(p, hears, clips) ==
    /\ Requests(p)
    /\ ~InFront(p) => p.gallery = -1 /\ p.dirty
    /\ InFront(p) => hears \/ Served(p, clips)
GalleryTrue == page.at # "none" => Stocked(page, Saved \in Contents(events), library)

PageInv == PageTypes /\ ReportsTrue /\ GalleryTrue

WindowInv == ShellInv /\ PageThere /\ PageInv

-----------------------------------------------------------------------------
(* The window. *)

LEMMA ShellStutters ==
    ASSUME ShellInv, UNCHANGED shellVars, mishaps \subseteq mishaps'
    PROVE  ShellInv'
  BY DEF ShellInv, ShellTypes, OpenTrue, PaintTrue, WatchdogTrue, shellVars, Live, Ready

\* What arming keeps of readiness r.
Watched(r) ==
    /\ r \in Readiness
    /\ r.generation <= r.next /\ r.ready <= r.next /\ r.armed <= r.next
    /\ r.generation # 0
    /\ "watchdog missed" \notin mishaps /\ ~Ready(r) /\ r.armed = r.generation =>
          r.generation \in r.asleep \cup told

LEMMA ArmedWatches ==
    ASSUME NEW r, Watched(r)
    PROVE  /\ Armed(r) \in Readiness
           /\ LET n == Armed(r)
              IN  /\ n.generation = r.generation /\ n.next = r.next /\ n.ready = r.ready
                  /\ n.armed <= n.next /\ r.asleep \subseteq n.asleep
                  /\ "watchdog missed" \notin mishaps /\ ~Ready(n) =>
                        n.generation \in n.asleep \cup told
<1>1. CASE Ready(r) \/ r.armed = r.generation
  <2>1. Armed(r) = r
    BY <1>1 DEF Armed, Watched
  <2> QED
    BY <1>1, <2>1 DEF Watched
<1>2. CASE ~Ready(r) /\ r.armed # r.generation
  <2>1. PICK n : n = [r EXCEPT !.armed = r.generation, !.asleep = r.asleep \cup {r.generation}]
    OBVIOUS
  <2>2. Armed(r) = n
    BY <1>2, <2>1 DEF Armed, Watched
  <2>3. /\ n \in Readiness /\ n.generation = r.generation /\ n.next = r.next
        /\ n.ready = r.ready /\ n.armed = r.generation
        /\ n.asleep = r.asleep \cup {r.generation}
    BY <2>1 DEF Watched, Readiness
  <2> QED
    BY <2>2, <2>3 DEF Watched
<1> QED
  BY <1>1, <1>2

LEMMA RevealKeeps ==
    ASSUME ShellTypes, NEW w \in Windows, w.at = "live", NEW r, Watched(r),
           NEW painted \in BOOLEAN, Painting(painted), window' = Revealed(w, painted),
           mode' = "Foreground", poked' = TRUE, readiness' = Armed(r),
           pending' \in BOOLEAN, told' = told
    PROVE  ShellInv'
<1>1. /\ window' \in Windows /\ window'.at = "live" /\ window'.shown = TRUE
      /\ window'.painted = painted
  BY DEF Revealed, Windows
<1>2. mishaps \subseteq mishaps' /\ (painted \/ "not painted" \in mishaps')
  BY DEF Painting
<1>3. ShellTypes' /\ OpenTrue' /\ PaintTrue'
  BY <1>1, <1>2, ArmedWatches DEF ShellTypes, OpenTrue, PaintTrue, Live, Modes
<1>4. WatchdogTrue'
  BY <1>2, ArmedWatches DEF WatchdogTrue, Watched, Ready, Readiness
<1> QED
  BY <1>3, <1>4 DEF ShellInv

LEMMA ReadinessIs == ASSUME ShellInv PROVE readiness \in Readiness
  BY DEF ShellInv, ShellTypes

LEMMA WindowIs == ASSUME ShellInv, window.at # "none" PROVE window \in Windows
  BY DEF ShellInv, ShellTypes, NoWindow

LEMMA ModeIs ==
    ASSUME ShellInv
    PROVE  /\ mode \in Modes /\ window.at \in {"none", "live", "dying"}
           /\ mode = "Destroying" => window.at = "dying"
           /\ window.at = "none" <=> mode = "Destroyed"
           /\ pending \in BOOLEAN
<1>1. window.at \in {"none", "live", "dying"}
  BY DEF ShellInv, ShellTypes, NoWindow, Windows
<1> QED
  BY <1>1 DEF ShellInv, ShellTypes, OpenTrue

LEMMA BegunIs ==
    ASSUME NEW r \in Readiness, readiness = r
    PROVE  LET n == Begun(r)
           IN  /\ n \in Readiness /\ n.next = r.next + 1 /\ n.generation = r.next + 1
               /\ n.ready = r.ready /\ n.armed = r.armed
<1>1. r.next \in Nat /\ r.next + 1 \in Nat
  BY DEF Readiness
<1>2. Begun(r) = [r EXCEPT !.next = r.next + 1, !.generation = r.next + 1]
  BY DEF Begun
<1> QED
  BY <1>1, <1>2 DEF Readiness

LEMMA BegunWatched ==
    ASSUME ShellInv PROVE Watched(Begun(readiness))
<1>1. readiness.next \in Nat /\ readiness.armed \in Nat /\ readiness.ready \in Nat
  BY ReadinessIs DEF Readiness
<1>2. readiness.armed <= readiness.next /\ readiness.ready <= readiness.next
  BY DEF ShellInv, WatchdogTrue
<1>3. PICK n : n = Begun(readiness)
  OBVIOUS
<1>4. /\ n \in Readiness /\ n.next = readiness.next + 1 /\ n.generation = readiness.next + 1
      /\ n.ready = readiness.ready /\ n.armed = readiness.armed
  BY <1>3, ReadinessIs, BegunIs
<1>5. /\ n.generation <= n.next /\ n.ready <= n.next /\ n.armed <= n.next
      /\ n.generation # 0 /\ n.armed # n.generation
  BY <1>1, <1>2, <1>4
<1>6. Watched(n)
  BY <1>4, <1>5 DEF Watched
<1> QED
  BY <1>3, <1>6

LEMMA LiveWatched ==
    ASSUME ShellInv, Live PROVE Watched(readiness)
  BY ReadinessIs DEF Watched, ShellInv, WatchdogTrue

LEMMA NewWindowIsOne == NewWindow \in Windows /\ NewWindow.at = "live"
  BY DEF NewWindow, Windows

\* A dying window that is revealed goes on dying.
LEMMA RevealDyingKeeps ==
    ASSUME ShellInv, window.at = "dying", NEW painted \in BOOLEAN, Painting(painted),
           window' = Revealed(window, painted), mode' = "Foreground", poked' = TRUE,
           readiness' = Armed(readiness), UNCHANGED <<pending, told>>, wanted' => pending
    PROVE  ShellInv'
<1>1. window' \in Windows /\ window'.at = "dying"
  BY WindowIs DEF Revealed, Windows
<1>2. readiness \in Readiness
  BY ReadinessIs
<1>3. PICK n : n = [readiness EXCEPT !.armed = readiness.generation,
                                     !.asleep = readiness.asleep \cup {readiness.generation}]
  OBVIOUS
<1>4. /\ n \in Readiness /\ n.next = readiness.next /\ n.generation = readiness.generation
      /\ n.ready = readiness.ready /\ n.armed = readiness.generation
  BY <1>2, <1>3 DEF Readiness
<1>5. readiness' \in {readiness, n}
  BY <1>3 DEF Armed
<1>6. ShellTypes' /\ OpenTrue' /\ PaintTrue'
  BY <1>1, <1>2, <1>4, <1>5 DEF ShellInv, ShellTypes, OpenTrue, PaintTrue, Live, Modes
<1>7. WatchdogTrue'
  BY <1>1, <1>4, <1>5 DEF ShellInv, WatchdogTrue, Live
<1> QED
  BY <1>6, <1>7 DEF ShellInv

LEMMA OpenShell ==
    ASSUME ShellInv, Open PROVE ShellInv'
<1>1. PICK action : action = OpenAction(window.at # "none")
  OBVIOUS
<1>2. /\ wanted' = (window.at = "dying" => mode = "Destroying" \/ pending)
      /\ told' = told /\ pending' = action.pending
      /\ \/ /\ action.do = "queue"
            /\ UNCHANGED <<mode, revision, window, poked, readiness, mishaps>>
         \/ action.do = "reveal" /\ Reveal(window, page, events, readiness)
         \/ action.do = "build" /\ Build
  BY <1>1 DEF Open
<1>3. \/ mode = "Destroying" /\ action.do = "queue" /\ action.pending = TRUE
      \/ mode = "Destroyed" /\ action.do = "build" /\ action.pending = FALSE
      \/ /\ mode \notin {"Destroying", "Destroyed"} /\ window.at # "none"
         /\ action.do = "reveal" /\ action.pending = pending
  <2>1. CASE mode = "Destroying"
    BY <1>1, <2>1 DEF OpenAction
  <2>2. CASE mode = "Destroyed"
    BY <1>1, <2>2 DEF OpenAction
  <2>3. CASE mode \notin {"Destroying", "Destroyed"}
    <3>1. action = [do |-> IF window.at # "none" THEN "reveal" ELSE "build", pending |-> pending]
      BY <1>1, <2>3 DEF OpenAction
    <3> QED
      BY <2>3, <3>1, ModeIs
  <2> QED
    BY <2>1, <2>2, <2>3
<1>4. CASE action.do = "queue"
  <2>1. mode = "Destroying" /\ pending' = TRUE /\ window.at = "dying"
        /\ UNCHANGED <<mode, window, poked, readiness, mishaps, told>>
    BY <1>2, <1>3, <1>4 DEF ShellInv, OpenTrue
  <2> QED
    BY <2>1 DEF ShellInv, ShellTypes, OpenTrue, PaintTrue, WatchdogTrue, Live, Ready
<1>5. CASE action.do = "reveal"
  <2>1. /\ mode \notin {"Destroying", "Destroyed"} /\ window \in Windows /\ pending' = pending
        /\ window.at \in {"live", "dying"}
    BY <1>2, <1>3, <1>5, WindowIs, ModeIs
  <2>2. PICK painted \in BOOLEAN : Painting(painted) /\ window' = Revealed(window, painted)
                                  /\ mode' = "Foreground" /\ poked' = TRUE
                                  /\ readiness' = Armed(readiness)
    BY <1>2, <1>5 DEF Reveal, PublishLifecycle
  <2>3. CASE window.at = "live"
    <3>1. Watched(readiness) /\ pending' \in BOOLEAN /\ ShellTypes
      BY <2>1, <2>3, LiveWatched, ModeIs DEF Live, ShellInv
    <3> QED
      BY <1>2, <2>1, <2>2, <2>3, <3>1, RevealKeeps
  <2>4. CASE window.at = "dying"
    BY <1>2, <2>1, <2>2, <2>4, RevealDyingKeeps
  <2> QED
    BY <2>1, <2>3, <2>4
<1>6. CASE action.do = "build" /\ Reveal(NewWindow, NewPage, <<>>, Begun(readiness))
  <2>1. PICK painted \in BOOLEAN : Painting(painted) /\ window' = Revealed(NewWindow, painted)
                                  /\ mode' = "Foreground" /\ poked' = TRUE
                                  /\ readiness' = Armed(Begun(readiness))
    BY <1>6 DEF Reveal, PublishLifecycle
  <2> QED
    BY <1>2, <1>3, <1>6, <2>1, RevealKeeps, BegunWatched, NewWindowIsOne DEF ShellInv
<1>7. CASE action.do = "build" /\ mishaps' = mishaps \cup {"not built"}
           /\ UNCHANGED <<mode, revision, window, poked, readiness>>
  <2>1. pending' \in BOOLEAN
    BY <1>2, <1>3, <1>7
  <2> QED
    BY <1>2, <1>7, <2>1
       DEF ShellInv, ShellTypes, OpenTrue, PaintTrue, WatchdogTrue, Live, Ready
<1> QED
  BY <1>2, <1>3, <1>4, <1>5, <1>6, <1>7 DEF Build

LEMMA SendToTrayShell ==
    ASSUME ShellInv, SendToTray PROVE ShellInv'
<1>0. /\ window.at # "none" /\ mode \notin {"Destroying", "Destroyed"}
      /\ UNCHANGED <<poked, told>>
      /\ \/ /\ readiness' = Cleared(readiness)
            /\ window' = [window EXCEPT !.at = "dying"]
            /\ mode' = "Destroying" /\ wanted' = FALSE
            /\ UNCHANGED <<pending, mishaps>>
         \/ /\ \/ mishaps' = mishaps /\ readiness' = readiness
               \/ /\ mishaps' = mishaps \cup {"watchdog missed"}
                  /\ readiness' = [readiness EXCEPT !.asleep = @ \ {readiness.generation}]
            /\ mode' = mode /\ pending' = FALSE /\ window' = window
            /\ wanted' = (wanted /\ Live)
  BY DEF SendToTray, PublishLifecycle
<1>1. window \in Windows /\ readiness \in Readiness
  BY <1>0, WindowIs, ReadinessIs
<1>2. CASE /\ readiness' = Cleared(readiness)
           /\ window' = [window EXCEPT !.at = "dying"]
           /\ mode' = "Destroying" /\ wanted' = FALSE
           /\ UNCHANGED <<pending, mishaps>>
  <2>1. window' \in Windows /\ window'.at = "dying"
    BY <1>1, <1>2 DEF Windows
  <2>2. /\ readiness' \in Readiness /\ readiness'.generation = 0
        /\ readiness'.next = readiness.next /\ readiness'.ready = readiness.ready
        /\ readiness'.armed = readiness.armed
    BY <1>1, <1>2 DEF Cleared, Readiness
  <2>3. readiness.ready <= readiness.next /\ readiness.armed <= readiness.next
        /\ readiness.next \in Nat
    BY <1>1 DEF ShellInv, WatchdogTrue, Readiness
  <2>4. ShellTypes'
    BY <1>0, <1>2, <2>1, <2>2 DEF ShellInv, ShellTypes, Modes
  <2>5. OpenTrue' /\ PaintTrue'
    BY <1>2, <2>1 DEF OpenTrue, PaintTrue, Live
  <2>6. WatchdogTrue'
    BY <2>1, <2>2, <2>3 DEF WatchdogTrue, Live
  <2> QED
    BY <2>4, <2>5, <2>6 DEF ShellInv
<1>3. CASE mishaps' = mishaps /\ readiness' = readiness
           /\ mode' = mode /\ pending' = FALSE /\ window' = window
           /\ wanted' = (wanted /\ Live)
  BY <1>0, <1>3 DEF ShellInv, ShellTypes, OpenTrue, PaintTrue, WatchdogTrue, Live, Ready
<1>4. CASE /\ mishaps' = mishaps \cup {"watchdog missed"}
           /\ readiness' = [readiness EXCEPT !.asleep = @ \ {readiness.generation}]
           /\ mode' = mode /\ pending' = FALSE /\ window' = window
           /\ wanted' = (wanted /\ Live)
  <2>1. /\ readiness' \in Readiness /\ readiness'.generation = readiness.generation
        /\ readiness'.next = readiness.next /\ readiness'.ready = readiness.ready
        /\ readiness'.armed = readiness.armed
    BY <1>1, <1>4 DEF Readiness
  <2> QED
    BY <1>0, <1>4, <2>1
       DEF ShellInv, ShellTypes, OpenTrue, PaintTrue, WatchdogTrue, Live, Ready
<1> QED
  BY <1>0, <1>2, <1>3, <1>4

LEMMA DestroyedShell ==
    ASSUME ShellInv, Destroyed PROVE ShellInv'
<1>0. /\ window.at = "dying" /\ pending' = FALSE /\ UNCHANGED <<told, wanted>>
      /\ \/ \E painted \in BOOLEAN :
              /\ Painting(painted)
              /\ window' = Revealed(NewWindow, painted)
              /\ poked' = TRUE /\ mode' = "Foreground"
              /\ readiness' = Armed(Begun(readiness))
         \/ /\ mishaps \subseteq mishaps' /\ (pending => "not built" \in mishaps')
            /\ window' = NoWindow /\ mode' = "Destroyed"
            /\ poked' = FALSE /\ UNCHANGED readiness
  BY DEF Destroyed
<1>1. ASSUME NEW painted \in BOOLEAN, Painting(painted), window' = Revealed(NewWindow, painted),
             poked' = TRUE, mode' = "Foreground", readiness' = Armed(Begun(readiness))
      PROVE  ShellInv'
  BY <1>0, <1>1, RevealKeeps, BegunWatched, NewWindowIsOne DEF ShellInv
<1>2. CASE /\ mishaps \subseteq mishaps' /\ (pending => "not built" \in mishaps')
           /\ window' = NoWindow /\ mode' = "Destroyed"
           /\ poked' = FALSE /\ UNCHANGED readiness
  <2>1. window'.at = "none"
    BY <1>2 DEF NoWindow
  <2>2. ShellTypes' /\ PaintTrue'
    BY <1>0, <1>2, <2>1 DEF ShellInv, ShellTypes, PaintTrue, Live, Modes
  <2>3. OpenTrue'
    BY <1>0, <1>2, <2>1 DEF ShellInv, OpenTrue, Live
  <2>4. WatchdogTrue'
    BY <1>2, <2>1 DEF ShellInv, WatchdogTrue, Live
  <2> QED
    BY <2>2, <2>3, <2>4 DEF ShellInv
<1> QED
  BY <1>0, <1>1, <1>2

\* The window goes on under another mode, or with other shape.
LEMMA ShownKeeps ==
    ASSUME ShellInv, window.at # "none", window' \in Windows, window'.at = window.at,
           window'.shown = window.shown,
           mode' \in {"Foreground", "Taskbar"}, poked' \in BOOLEAN, PaintTrue',
           mishaps \subseteq mishaps', UNCHANGED <<pending, readiness, told, wanted>>
    PROVE  ShellInv'
<1>1. ShellTypes' /\ OpenTrue'
  BY DEF ShellInv, ShellTypes, OpenTrue, Live, Modes
<1>2. WatchdogTrue'
  BY DEF ShellInv, WatchdogTrue, Live, Ready
<1> QED
  BY <1>1, <1>2 DEF ShellInv

LEMMA LiveIs ==
    ASSUME ShellInv, Live
    PROVE  window \in Windows /\ window.at = "live" /\ window.shown = TRUE
           /\ mode \in {"Foreground", "Taskbar"}
<1>1. window \in Windows
  BY WindowIs DEF Live
<1> QED
  BY <1>1, ModeIs DEF ShellInv, OpenTrue, Live, Modes, Windows

LEMMA MinimizeShell ==
    ASSUME ShellInv, PageThere, Minimize PROVE ShellInv'
<1>1. PICK w : w = [window EXCEPT !.minimized = TRUE]
  OBVIOUS
<1>2. /\ window.at # "none" /\ window' = [w EXCEPT !.painted = FALSE] /\ poked' = TRUE
      /\ mode' = "Taskbar" /\ UNCHANGED <<pending, readiness, told, wanted, mishaps>>
  BY <1>1 DEF Minimize, PageThere, PublishLifecycle, Hidden
<1>3. w \in Windows /\ w.at = window.at /\ w.shown = window.shown
  BY <1>1, <1>2, WindowIs DEF Windows
<1>4. window' \in Windows /\ window'.at = window.at /\ window'.shown = window.shown
  BY <1>2, <1>3 DEF Windows
<1> QED
  BY <1>2, <1>4, ShownKeeps DEF PaintTrue

LEMMA NativeShell ==
    ASSUME ShellInv, Native PROVE ShellInv'
<1>1. /\ Live /\ window' = [window EXCEPT !.minimized = ~window.minimized] /\ poked' = TRUE
      /\ UNCHANGED <<mode, pending, readiness, told, wanted, mishaps>>
  BY DEF Native
<1>2. window \in Windows /\ mode \in {"Foreground", "Taskbar"} /\ window.at = "live"
  BY <1>1, LiveIs
<1>3. /\ window' \in Windows /\ window'.at = "live" /\ window'.shown = window.shown
      /\ window'.painted = window.painted
  BY <1>1, <1>2 DEF Windows
<1>4. PaintTrue'
  BY <1>1, <1>2, <1>3 DEF ShellInv, PaintTrue, Live
<1> QED
  BY <1>1, <1>2, <1>3, <1>4, ShownKeeps

LEMMA ReconcileShell ==
    ASSUME ShellInv, Reconcile PROVE ShellInv'
<1>0. /\ poked' = FALSE /\ UNCHANGED <<pending, readiness, told, wanted>>
      /\ \/ /\ mode = "Foreground" /\ window.minimized
            /\ window' = Hidden(window) /\ mode' = "Taskbar" /\ mishaps' = mishaps
         \/ /\ mode = "Taskbar" /\ ~window.minimized
            /\ window' = [window EXCEPT !.painted = TRUE] /\ mode' = "Foreground"
            /\ mishaps' = mishaps
         \/ mishaps' = mishaps \cup {"not painted"} /\ UNCHANGED <<window, mode>>
         \/ /\ ~(mode = "Taskbar" /\ ~window.minimized)
            /\ UNCHANGED <<window, mode, mishaps>>
  <2>1. PICK action : action = ReconcileAction(window.minimized)
    OBVIOUS
  <2>2. /\ action = "background" => mode = "Foreground" /\ window.minimized
        /\ action = "restore" => mode = "Taskbar" /\ ~window.minimized
        /\ action \notin {"background", "restore"} => ~(mode = "Taskbar" /\ ~window.minimized)
    BY <2>1 DEF ReconcileAction
  <2>3. /\ poked' = FALSE /\ UNCHANGED <<pending, readiness, told, wanted>>
        /\ CASE action = "background" ->
                  window' = Hidden(window) /\ mode' = "Taskbar" /\ mishaps' = mishaps
             [] action = "restore" ->
                  \/ /\ window' = [window EXCEPT !.painted = TRUE] /\ mode' = "Foreground"
                     /\ mishaps' = mishaps
                  \/ mishaps' = mishaps \cup {"not painted"} /\ UNCHANGED <<window, mode>>
             [] OTHER -> UNCHANGED <<window, mode, mishaps>>
    BY <2>1 DEF Reconcile, PublishLifecycle
  <2> QED
    BY <2>2, <2>3
<1>1. CASE /\ mode = "Foreground" /\ window.minimized
           /\ window' = Hidden(window) /\ mode' = "Taskbar" /\ mishaps' = mishaps
  <2>1. window.at # "none"
    BY <1>1, ModeIs
  <2>2. /\ window' \in Windows /\ window'.at = window.at /\ window'.shown = window.shown
        /\ window'.minimized
    BY <1>1, <2>1, WindowIs DEF Windows, Hidden
  <2> QED
    BY <1>0, <1>1, <2>1, <2>2, ShownKeeps DEF PaintTrue
<1>2. CASE /\ mode = "Taskbar" /\ ~window.minimized
           /\ window' = [window EXCEPT !.painted = TRUE] /\ mode' = "Foreground"
           /\ mishaps' = mishaps
  <2>1. window.at # "none"
    BY <1>2, ModeIs
  <2>2. /\ window' \in Windows /\ window'.at = window.at /\ window'.shown = window.shown
        /\ window'.painted
    BY <1>2, <2>1, WindowIs DEF Windows
  <2> QED
    BY <1>0, <1>2, <2>1, <2>2, ShownKeeps DEF PaintTrue
<1>3. CASE mishaps' = mishaps \cup {"not painted"} /\ UNCHANGED <<window, mode>>
  BY <1>0, <1>3 DEF ShellInv, ShellTypes, OpenTrue, PaintTrue, WatchdogTrue, Live, Ready
<1>4. CASE /\ ~(mode = "Taskbar" /\ ~window.minimized)
           /\ UNCHANGED <<window, mode, mishaps>>
  BY <1>0, <1>4 DEF ShellInv, ShellTypes, OpenTrue, PaintTrue, WatchdogTrue, Live, Ready
<1> QED
  BY <1>0, <1>1, <1>2, <1>3, <1>4

LEMMA WatchdogShell ==
    ASSUME ShellInv, WatchdogWakes PROVE ShellInv'
<1>1. PICK g \in readiness.asleep :
        /\ readiness' = [readiness EXCEPT !.asleep = readiness.asleep \ {g}]
        /\ told' = IF WatchdogShouldFire(g) THEN told \cup {g} ELSE told
        /\ UNCHANGED <<mode, window, poked, pending, wanted, mishaps>>
  BY DEF WatchdogWakes
<1>2. /\ readiness' \in Readiness /\ readiness'.asleep = readiness.asleep \ {g}
      /\ readiness'.next = readiness.next /\ readiness'.generation = readiness.generation
      /\ readiness'.ready = readiness.ready /\ readiness'.armed = readiness.armed
  BY <1>1, ReadinessIs DEF Readiness
<1>3. ShellTypes' /\ OpenTrue' /\ PaintTrue'
  BY <1>1, <1>2 DEF ShellInv, ShellTypes, OpenTrue, PaintTrue, Live
<1>4. g = readiness.generation /\ ~Ready(readiness) /\ Live => g \in told'
  BY <1>1 DEF WatchdogShouldFire, Ready, ShellInv, WatchdogTrue
<1>5. told \subseteq told'
  BY <1>1
<1>6. (~Ready(readiness)) = ~Ready(readiness')
  BY <1>2 DEF Ready
<1>7. Live /\ "watchdog missed" \notin mishaps /\ ~Ready(readiness) =>
         readiness.generation \in (readiness.asleep \ {g}) \cup told'
  BY <1>4, <1>5 DEF ShellInv, WatchdogTrue
<1>8. WatchdogTrue'
  BY <1>1, <1>2, <1>6, <1>7 DEF ShellInv, WatchdogTrue, Live
<1> QED
  BY <1>3, <1>8 DEF ShellInv

LEMMA PageShell ==
    ASSUME ShellInv, PageStep PROVE ShellInv'
<1>1. /\ UNCHANGED <<mode, pending, window, poked, told, wanted, mishaps>>
      /\ \/ readiness' = readiness
         \/ /\ readiness.generation # 0
            /\ readiness' = [readiness EXCEPT !.ready = readiness.generation]
  BY DEF PageStep, PageListens, FrontendReady, AnswerArrives, EventArrives, ListRead, ListArrives
<1>2. CASE readiness' = readiness
  BY <1>1, <1>2, ShellStutters
     DEF ShellInv, ShellTypes, OpenTrue, PaintTrue, WatchdogTrue, Live, Ready
<1>3. CASE /\ readiness.generation # 0
           /\ readiness' = [readiness EXCEPT !.ready = readiness.generation]
  <2>1. /\ readiness' \in Readiness /\ readiness'.asleep = readiness.asleep
        /\ readiness'.next = readiness.next /\ readiness'.generation = readiness.generation
        /\ readiness'.ready = readiness.generation /\ readiness'.armed = readiness.armed
    BY <1>3, ReadinessIs DEF Readiness
  <2>2. Ready(readiness')
    BY <1>3, <2>1 DEF Ready
  <2>3. ShellTypes' /\ OpenTrue' /\ PaintTrue'
    BY <1>1, <2>1 DEF ShellInv, ShellTypes, OpenTrue, PaintTrue, Live
  <2>4. WatchdogTrue'
    BY <1>1, <2>1, <2>2 DEF ShellInv, WatchdogTrue, Live, Ready
  <2> QED
    BY <2>3, <2>4 DEF ShellInv
<1> QED
  BY <1>1, <1>2, <1>3

LEMMA PageThereKeeps ==
    ASSUME ShellInv, PageThere, [WindowNext]_windowVars PROVE PageThere'
<1>1. CASE UNCHANGED windowVars
  BY <1>1 DEF PageThere, windowVars, shellVars, pageVars
<1>2. CASE Open
  <2>1. CASE window' = window /\ page' = page
    BY <2>1 DEF PageThere
  <2>2. CASE Reveal(window, page, events, readiness) /\ page' = page
    <3>1. PICK painted \in BOOLEAN : window' = Revealed(window, painted)
      BY <2>2 DEF Reveal
    <3>2. window.at # "none" => window'.at = window.at
      BY <3>1, WindowIs DEF Revealed, Windows
    <3> QED
      BY <2>2, <3>2 DEF PageThere
  <2>3. CASE Reveal(NewWindow, NewPage, <<>>, Begun(readiness))
    <3>1. PICK painted \in BOOLEAN : window' = Revealed(NewWindow, painted)
      BY <2>3 DEF Reveal
    <3>2. window'.at = "live"
      BY <3>1, NewWindowIsOne DEF Revealed, Windows
    <3> QED
      BY <3>2 DEF PageThere
  <2> QED
    BY <1>2, <2>1, <2>2, <2>3 DEF Open, Build, pageVars
<1>3. CASE SendToTray
  <2>1. page' = page /\ window.at # "none"
        /\ window' \in {window, [window EXCEPT !.at = "dying"]}
    BY <1>3 DEF SendToTray
  <2>2. window'.at # "none"
    BY <2>1, WindowIs DEF Windows
  <2> QED
    BY <2>2 DEF PageThere
<1>4. CASE Destroyed
  <2>1. CASE page' = NoPage
    BY <2>1 DEF PageThere, NoPage
  <2>2. CASE \E painted \in BOOLEAN : window' = Revealed(NewWindow, painted)
    <3>1. window'.at = "live"
      BY <2>2, NewWindowIsOne DEF Revealed, Windows
    <3> QED
      BY <3>1 DEF PageThere
  <2> QED
    BY <1>4, <2>1, <2>2 DEF Destroyed
<1>5. CASE Minimize \/ Native \/ Reconcile
  <2>1. /\ page' = page
        /\ window' \in {window, Hidden(window), Hidden([window EXCEPT !.minimized = TRUE]),
                        [window EXCEPT !.minimized = ~window.minimized],
                        [window EXCEPT !.painted = TRUE]}
    BY <1>5 DEF Minimize, Native, Reconcile, pageVars
  <2>2. window.at # "none" => window'.at = window.at
    BY <2>1, WindowIs DEF Hidden, Windows
  <2> QED
    BY <2>1, <2>2 DEF PageThere
<1>6. CASE PageStep
  BY <1>6 DEF PageStep, PageThere
<1>7. CASE WatchdogWakes \/ ClipSaved
  BY <1>7 DEF WatchdogWakes, ClipSaved, shellVars, pageVars, PageThere
<1> QED
  BY <1>1, <1>2, <1>3, <1>4, <1>5, <1>6, <1>7 DEF WindowNext, Close

LEMMA ShellKeeps ==
    ASSUME ShellInv, PageThere, [WindowNext]_windowVars PROVE ShellInv'
<1>1. CASE UNCHANGED windowVars
  BY <1>1, ShellStutters DEF windowVars
<1>2. CASE ClipSaved
  BY <1>2, ShellStutters DEF ClipSaved
<1>3. CASE Open \/ Close \/ Destroyed \/ Minimize \/ Native \/ Reconcile \/ WatchdogWakes
           \/ PageStep
  BY <1>3, OpenShell, SendToTrayShell, DestroyedShell, MinimizeShell, NativeShell,
     ReconcileShell, WatchdogShell, PageShell DEF Close
<1> QED
  BY <1>1, <1>2, <1>3 DEF WindowNext

-----------------------------------------------------------------------------
(* What the page's operators give. *)

LEMMA NoContents == Contents(<<>>) = {} /\ \A S : <<>> \in Seq(S)
  BY DEF Contents

LEMMA AppendContents ==
    ASSUME NEW S, NEW q \in Seq(S), NEW x \in S
    PROVE  q \o <<x>> \in Seq(S) /\ Contents(q \o <<x>>) = Contents(q) \cup {x}
<1>1. q \o <<x>> \in Seq(S) /\ Len(q \o <<x>>) = Len(q) + 1 /\ Len(q) \in Nat
  OBVIOUS
<1>2. /\ \A i \in 1 .. Len(q) : (q \o <<x>>)[i] = q[i]
      /\ (q \o <<x>>)[Len(q) + 1] = x
  OBVIOUS
<1>3. DOMAIN q = 1 .. Len(q) /\ DOMAIN (q \o <<x>>) = 1 .. Len(q) + 1
  BY <1>1
<1>4. 1 .. Len(q) + 1 = (1 .. Len(q)) \cup {Len(q) + 1}
  BY <1>1
<1> QED
  BY <1>1, <1>2, <1>3, <1>4 DEF Contents

LEMMA TailContents ==
    ASSUME NEW S, NEW q \in Seq(S), q # <<>>
    PROVE  /\ Head(q) \in S /\ Tail(q) \in Seq(S)
           /\ Contents(q) = Contents(Tail(q)) \cup {Head(q)}
<1>1. /\ Head(q) = q[1] /\ Tail(q) \in Seq(S) /\ Len(q) \in Nat /\ Len(q) # 0
      /\ Len(Tail(q)) = Len(q) - 1
  OBVIOUS
<1>2. \A i \in 1 .. Len(q) - 1 : Tail(q)[i] = q[i + 1]
  BY <1>1
<1>3. DOMAIN q = 1 .. Len(q) /\ DOMAIN Tail(q) = 1 .. Len(q) - 1
  BY <1>1
<1>4. Contents(q) \subseteq Contents(Tail(q)) \cup {Head(q)}
  <2> SUFFICES ASSUME NEW i \in 1 .. Len(q) PROVE q[i] \in Contents(Tail(q)) \cup {Head(q)}
    BY <1>3 DEF Contents
  <2>1. CASE i = 1
    BY <1>1, <2>1
  <2>2. CASE i # 1
    <3>1. i - 1 \in 1 .. Len(q) - 1 /\ (i - 1) + 1 = i
      BY <1>1, <2>2
    <3>2. Tail(q)[i - 1] = q[i]
      BY <1>2, <3>1
    <3> QED
      BY <1>3, <3>1, <3>2 DEF Contents
  <2> QED
    BY <2>1, <2>2
<1>5. Contents(Tail(q)) \cup {Head(q)} \subseteq Contents(q)
  <2>1. \A i \in 1 .. Len(q) - 1 : i + 1 \in 1 .. Len(q)
    BY <1>1
  <2>2. 1 \in 1 .. Len(q)
    BY <1>1
  <2> QED
    BY <1>1, <1>2, <1>3, <2>1, <2>2 DEF Contents
<1> QED
  BY <1>1, <1>4, <1>5

LEMMA SnapshotIs ==
    ASSUME NEW r \in Nat, NEW m
    PROVE  /\ Snapshot(r, m) \in Snapshots
           /\ Snapshot(r, m).revision = r
           /\ Snapshot(r, m).backgrounded = (m # "Foreground")
  BY DEF Snapshot, Snapshots

LEMMA SavedIsNone == Saved \notin Snapshots
<1>1. \A s \in Snapshots : DOMAIN s = {"revision", "backgrounded"}
  BY DEF Snapshots
<1>2. DOMAIN Saved = {"saved"}
  BY DEF Saved
<1> QED
  BY <1>1, <1>2

LEMMA NoAnswerIsNone == NoAnswer \notin Snapshots
<1>1. \A s \in Snapshots : s.revision \in Nat
  BY DEF Snapshots
<1> QED
  BY <1>1 DEF NoAnswer

LEMMA AgreeShrinks ==
    ASSUME NEW S, NEW T, NEW n, Agreeing(S, n), T \subseteq S PROVE Agreeing(T, n)
  BY DEF Agreeing

LEMMA AgreeGrows ==
    ASSUME NEW S, NEW n \in Nat, NEW c \in Snapshots, c \in S, c.revision = n, Agreeing(S, n),
           NEW d \in Snapshots, d.revision = n + 1, c.backgrounded \/ d.backgrounded
    PROVE  Agreeing(S \cup {d}, n + 1)
<1>1. \A s \in S : s \in Snapshots /\ s.revision \in Nat /\ s.revision <= n
  BY DEF Agreeing, Snapshots
<1>2. \A s \in S : Agree(s, d) /\ Agree(d, s)
  <2> SUFFICES ASSUME NEW s \in S PROVE Agree(s, d) /\ Agree(d, s)
    OBVIOUS
  <2>1. s.revision # d.revision /\ s.revision # d.revision + 1
    BY <1>1
  <2>2. s.revision = n => s.backgrounded = c.backgrounded
    BY DEF Agreeing, Agree
  <2>3. d.revision = s.revision + 1 => s.revision = n
    BY <1>1
  <2> QED
    BY <2>1, <2>2, <2>3 DEF Agree
<1>3. Agree(d, d)
  BY DEF Agree
<1>4. \A s \in S : s.revision <= n + 1
  BY <1>1
<1> QED
  BY <1>1, <1>2, <1>3, <1>4 DEF Agreeing

LEMMA ReleasedIs ==
    ASSUME NEW p \in WebPages, Requests(p)
    PROVE  LET n == Released(p)
           IN  /\ n \in WebPages /\ Requests(n) /\ n.gallery = -1
               /\ n.at = p.at /\ n.known = p.known /\ n.backgrounded = p.backgrounded
               /\ n.revision = p.revision /\ n.dirty = p.dirty /\ n.work = p.work
<1>1. p.gate \in Nat /\ p.gate + 1 \in Nat /\ \A l \in p.loads : l.gate \in Nat
  BY DEF WebPages, Loads
<1>2. PICK n : n = [p EXCEPT !.gate = p.gate + 1, !.gallery = -1]
  OBVIOUS
<1>3. /\ n \in WebPages /\ n.gallery = -1 /\ n.gate = p.gate + 1 /\ n.loads = p.loads
      /\ n.at = p.at /\ n.known = p.known /\ n.backgrounded = p.backgrounded
      /\ n.revision = p.revision /\ n.dirty = p.dirty /\ n.work = p.work
  BY <1>1, <1>2 DEF WebPages
<1>4. Requests(n)
  BY <1>1, <1>3 DEF Requests
<1>5. Released(p) = n
  BY <1>2 DEF Released
<1> QED
  BY <1>3, <1>4, <1>5

LEMMA RequestedIs ==
    ASSUME NEW p \in WebPages, Requests(p), NEW clips
    PROVE  LET n == Requested(p)
           IN  /\ n \in WebPages /\ Requests(n)
               /\ InFront(p) => Served(n, clips)
               /\ n.at = p.at /\ n.known = p.known /\ n.backgrounded = p.backgrounded
               /\ n.revision = p.revision /\ n.dirty = p.dirty
               /\ n.gallery = p.gallery
<1>1. p.gate \in Nat /\ p.gate + 1 \in Nat /\ p.work \in Nat /\ \A l \in p.loads : l.gate \in Nat
  BY DEF WebPages, Loads
<1>2. PICK l : l = [gate |-> p.gate + 1, work |-> p.work, seen |-> -1]
  OBVIOUS
<1>3. l \in Loads /\ l.gate = p.gate + 1 /\ l.work = p.work /\ l.seen = -1
  BY <1>1, <1>2 DEF Loads
<1>4. PICK n : n = [p EXCEPT !.gate = p.gate + 1, !.loads = p.loads \cup {l}]
  OBVIOUS
<1>5. /\ n \in WebPages /\ n.gate = p.gate + 1 /\ n.loads = p.loads \cup {l}
      /\ n.at = p.at /\ n.known = p.known /\ n.backgrounded = p.backgrounded
      /\ n.revision = p.revision /\ n.dirty = p.dirty /\ n.work = p.work
      /\ n.gallery = p.gallery
  BY <1>1, <1>3, <1>4 DEF WebPages
<1>6. Requests(n)
  BY <1>1, <1>3, <1>5 DEF Requests
<1>7. InFront(p) => WorkIsCurrent(n, l)
  BY <1>3, <1>5 DEF InFront, WorkIsCurrent
<1>8. InFront(p) => Served(n, clips)
  BY <1>3, <1>5, <1>7 DEF Served
<1>9. Requested(p) = n
  BY <1>2, <1>4 DEF Requested
<1> QED
  BY <1>5, <1>6, <1>8, <1>9
LEMMA RefreshedStocks ==
    ASSUME NEW p \in WebPages, NEW clips, Stocked(p, TRUE, clips)
    PROVE  LET n == Refreshed(p)
           IN  /\ n \in WebPages /\ Stocked(n, FALSE, clips)
               /\ n.at = p.at /\ n.known = p.known /\ n.backgrounded = p.backgrounded
               /\ n.revision = p.revision
<1>0. Requests(p) /\ p.known \in BOOLEAN /\ p.backgrounded \in BOOLEAN
  BY DEF Stocked, WebPages
<1>1. CASE InFront(p)
  <2>1. PICK n : n = Requested(p)
    OBVIOUS
  <2>2. /\ n \in WebPages /\ Requests(n) /\ Served(n, clips)
        /\ n.at = p.at /\ n.known = p.known /\ n.backgrounded = p.backgrounded
        /\ n.revision = p.revision
    BY <1>0, <1>1, <2>1, RequestedIs
  <2>3. InFront(n)
    BY <1>1, <2>2 DEF InFront
  <2>4. Refreshed(p) = n
    BY <1>1, <2>1 DEF Refreshed, InFront
  <2> QED
    BY <2>2, <2>3, <2>4 DEF Stocked
<1>2. CASE ~InFront(p)
  <2>1. PICK n : n = [p EXCEPT !.dirty = TRUE]
    OBVIOUS
  <2>2. /\ n \in WebPages /\ n.dirty /\ n.gallery = p.gallery
        /\ n.gate = p.gate /\ n.loads = p.loads
        /\ n.at = p.at /\ n.known = p.known /\ n.backgrounded = p.backgrounded
        /\ n.revision = p.revision
    BY <2>1 DEF WebPages
  <2>3. Requests(n) /\ ~InFront(n) /\ n.gallery = -1
    BY <1>0, <1>2, <2>2 DEF Requests, InFront, Stocked
  <2>4. Refreshed(p) = n
    BY <1>2, <2>1 DEF Refreshed, InFront
  <2> QED
    BY <2>2, <2>3, <2>4 DEF Stocked
<1> QED
  BY <1>1, <1>2

\* What page p knows of the shell.
Report(p) == [revision |-> p.revision, backgrounded |-> p.backgrounded]

LEMMA AppliedStocks ==
    ASSUME NEW p \in WebPages, NEW s \in Snapshots, NEW hears \in BOOLEAN, NEW clips,
           Stocked(p, hears, clips), p.known => Agree(Report(p), s)
    PROVE  LET n == Applied(p, s)
           IN  /\ n \in WebPages /\ Stocked(n, hears, clips)
               /\ n.at = p.at /\ n.known
               /\ Accepts(p, s) => Report(n) = s
               /\ ~Accepts(p, s) => n = p
<1>0. /\ Requests(p) /\ p.known \in BOOLEAN /\ p.backgrounded \in BOOLEAN /\ p.revision \in Nat
      /\ p.work \in Nat /\ p.work + 1 \in Nat /\ s.revision \in Nat /\ s.backgrounded \in BOOLEAN
  BY DEF Stocked, WebPages, Snapshots
<1>1. CASE ~Accepts(p, s)
  BY <1>1 DEF Accepts, Applied
<1>2. CASE Accepts(p, s)
  <2> DEFINE wasFront == p.known /\ ~p.backgrounded
             missed   == wasFront /\ ~s.backgrounded /\ s.revision > p.revision + 1
             empties  == missed \/ (s.backgrounded /\ (~p.known \/ wasFront))
             refreshes == ~s.backgrounded /\ (~wasFront \/ missed) /\ (p.dirty \/ missed)
  <2>1. PICK next : next = [p EXCEPT !.known = TRUE, !.backgrounded = s.backgrounded,
                                     !.revision = s.revision, !.work = p.work + 1,
                                     !.dirty = s.backgrounded]
    OBVIOUS
  <2>2. /\ next \in WebPages /\ next.at = p.at /\ next.known
        /\ next.backgrounded = s.backgrounded /\ next.revision = s.revision
        /\ next.dirty = s.backgrounded /\ next.gallery = p.gallery
        /\ next.gate = p.gate /\ next.loads = p.loads
    BY <1>0, <2>1 DEF WebPages
  <2>3. Requests(next)
    BY <1>0, <2>2 DEF Requests
  <2>4. PICK kept : kept = IF empties THEN Released(next) ELSE next
    OBVIOUS
  <2>5. /\ kept \in WebPages /\ Requests(kept) /\ kept.at = p.at /\ kept.known
        /\ kept.backgrounded = s.backgrounded /\ kept.revision = s.revision
        /\ kept.dirty = s.backgrounded
        /\ kept.gallery = IF empties THEN -1 ELSE p.gallery
    <3>1. CASE empties
      BY <2>2, <2>3, <2>4, <3>1, ReleasedIs
    <3>2. CASE ~empties
      BY <2>2, <2>3, <2>4, <3>2
    <3> QED
      BY <3>1, <3>2
  <2>6. Applied(p, s) = IF refreshes THEN Refreshed(kept) ELSE kept
    BY <1>2, <2>1, <2>4 DEF Applied
  <2>7. Report(kept) = s
    BY <2>5 DEF Report, Snapshots
  <2>8. CASE s.backgrounded
    <3>1. Applied(p, s) = kept
      BY <2>6, <2>8
    <3>2. kept.gallery = -1
      BY <1>0, <2>5, <2>8 DEF Stocked, InFront
    <3>3. ~InFront(kept) /\ kept.dirty
      BY <2>5, <2>8 DEF InFront
    <3> QED
      BY <1>2, <2>5, <2>7, <3>1, <3>2, <3>3 DEF Stocked
  <2>9. CASE ~s.backgrounded
    <3>1. InFront(kept)
      BY <2>5, <2>9 DEF InFront
    <3>2. refreshes
      <4>1. CASE ~wasFront
        BY <2>9, <4>1, <1>0 DEF Stocked, InFront
      <4>2. CASE wasFront
        <5>1. s.revision > p.revision
          BY <1>2, <4>2 DEF Accepts
        <5>2. s.revision # p.revision + 1
          BY <2>9, <4>2 DEF Agree, Report
        <5> QED
          BY <1>0, <2>9, <4>2, <5>1, <5>2
      <4> QED
        BY <4>1, <4>2
    <3>3. PICK n : n = Requested(kept)
      OBVIOUS
    <3>4. Applied(p, s) = n
      BY <2>6, <3>1, <3>2, <3>3 DEF Refreshed, InFront
    <3>5. /\ n \in WebPages /\ Requests(n) /\ Served(n, clips) /\ n.at = p.at /\ n.known
          /\ n.backgrounded = s.backgrounded /\ n.revision = s.revision
      BY <2>5, <3>1, <3>3, RequestedIs
    <3>6. InFront(n) /\ Report(n) = s
      BY <2>9, <3>5 DEF InFront, Report, Snapshots
    <3> QED
      BY <1>2, <3>4, <3>5, <3>6 DEF Stocked
  <2> QED
    BY <1>0, <2>8, <2>9
<1> QED
  BY <1>1, <1>2

LEMMA LessHeard ==
    ASSUME NEW p, NEW clips, Stocked(p, FALSE, clips), NEW hears \in BOOLEAN
    PROVE  Stocked(p, hears, clips)
  BY DEF Stocked
-----------------------------------------------------------------------------
(* What the page hears. *)

LEMMA CarriedIs ==
    ASSUME PageInv
    PROVE  /\ Carried \subseteq Snapshots
           /\ revision \in Nat /\ Snapshot(revision, mode) \in Snapshots
           /\ Agreeing(Reports, revision)
  BY SnapshotIs DEF PageInv, PageTypes, Carried, ReportsTrue

LEMMA PageStutters ==
    ASSUME PageInv, UNCHANGED <<page, events, answer, library, mode, revision>>
    PROVE  PageInv'
<1>1. Carried' = Carried /\ Reports' = Reports
  BY DEF Carried, Reports, Knows
<1> QED
  BY <1>1 DEF PageInv, PageTypes, ReportsTrue, GalleryTrue

\* A page that has just been made, or is gone.
LEMMA PageStartsOver ==
    ASSUME PageInv, page' \in {NewPage, NoPage}, events' = <<>>, answer' = NoAnswer,
           library' = library, revision' \in Nat
    PROVE  PageInv'
<1>1. /\ NewPage \in WebPages /\ NewPage.at = "loading" /\ NewPage.loads = {}
      /\ ~NewPage.known /\ NewPage.gallery = -1 /\ NewPage.dirty
      /\ NoPage.at = "none"
  BY DEF NewPage, NoPage, WebPages
<1>2. PageTypes'
  BY <1>1, NoContents DEF PageInv, PageTypes
<1>3. Carried' = {}
  BY <1>1, NoContents, NoAnswerIsNone DEF Carried, Knows
<1>4. ReportsTrue'
  <2>1. PICK s : s = Snapshot(revision', mode')
    OBVIOUS
  <2>2. Reports' = {s} /\ s \in Snapshots /\ s.revision = revision'
    BY <1>3, <2>1, SnapshotIs DEF Reports
  <2>3. Agree(s, s)
    <3>1. s.revision \in Nat
      BY <2>2
    <3>2. s.revision # s.revision + 1
      BY <3>1
    <3> QED
      BY <3>2 DEF Agree
  <2>4. Agreeing({s}, revision')
    BY <2>2, <2>3 DEF Agreeing
  <2> QED
    BY <1>1, <2>2, <2>4 DEF ReportsTrue
<1>5. GalleryTrue'
  BY <1>1 DEF GalleryTrue, Stocked, Requests, InFront
<1> QED
  BY <1>2, <1>4, <1>5 DEF PageInv

LEMMA ShellSpeaks ==
    ASSUME PageInv, UNCHANGED <<page, answer, library>>, revision' \in Nat,
           NEW X \in SUBSET Snapshots, Agreeing(Reports \cup X, revision'),
           Snapshot(revision', mode') \in X,
           events' \in Seq(Snapshots \cup {Saved}),
           page.at \in {"none", "loading"} => events' = events,
           page.at \notin {"none", "loading"} => Contents(events') = Contents(events) \cup X
    PROVE  PageInv'
<1>1. PICK latest : latest = Snapshot(revision', mode')
  OBVIOUS
<1>2. latest \in X /\ latest \in Snapshots /\ latest.revision = revision'
  BY <1>1, SnapshotIs
<1>3. Carried' \subseteq Carried \cup X
  BY DEF Carried, Knows
<1>4. Agreeing(Reports', revision')
  <2>1. Reports' \subseteq Reports \cup X
    BY <1>1, <1>2, <1>3 DEF Reports
  <2> QED
    BY <2>1, AgreeShrinks
<1>5. page'.at \in {"asked", "answered"} => latest \in Carried'
  BY <1>2 DEF Carried
<1>6. ReportsTrue'
  BY <1>2, <1>4, <1>5 DEF ReportsTrue
<1>7. PageTypes'
  BY DEF PageInv, PageTypes
<1>8. (Saved \in Contents(events')) <=> (Saved \in Contents(events))
  <2>1. page.at \notin {"none", "loading"} \/ events' = events
    OBVIOUS
  <2> QED
    BY <2>1, SavedIsNone
<1>9. GalleryTrue'
  BY <1>8 DEF PageInv, GalleryTrue, Stocked
<1> QED
  BY <1>6, <1>7, <1>9 DEF PageInv

LEMMA HeardIs ==
    ASSUME NEW q \in Seq(Snapshots \cup {Saved}), NEW s \in Snapshots \cup {Saved}
    PROVE  /\ q \o Heard(page, s) \in Seq(Snapshots \cup {Saved})
           /\ page.at \in {"none", "loading"} => q \o Heard(page, s) = q
           /\ page.at \notin {"none", "loading"} =>
                 Contents(q \o Heard(page, s)) = Contents(q) \cup {s}
<1>1. CASE page.at \in {"none", "loading"}
  <2>1. Heard(page, s) = <<>>
    BY <1>1 DEF Heard
  <2>2. q \o <<>> = q
    OBVIOUS
  <2> QED
    BY <1>1, <2>1, <2>2
<1>2. CASE page.at \notin {"none", "loading"}
  <2>1. Heard(page, s) = <<s>>
    BY <1>2 DEF Heard
  <2> QED
    BY <1>2, <2>1, AppendContents
<1> QED
  BY <1>1, <1>2

LEMMA PublishKeeps ==
    ASSUME PageInv, NEW m, PublishLifecycle(m, page, events), UNCHANGED <<page, answer, library>>
    PROVE  PageInv'
<1>1. revision \in Nat /\ events \in Seq(Snapshots \cup {Saved})
  BY DEF PageInv, PageTypes
<1>2. PICK r : r = Revised(m)
  OBVIOUS
<1>3. /\ mode' = m /\ revision' = r /\ r = (IF m = mode THEN revision ELSE revision + 1)
      /\ events' = events \o Heard(page, Snapshot(r, m))
  BY <1>2 DEF PublishLifecycle, Revised
<1>4. PICK s : s = Snapshot(r, m)
  OBVIOUS
<1>5. r \in Nat /\ s \in Snapshots /\ s.revision = r /\ s.backgrounded = (m # "Foreground")
  BY <1>1, <1>3, <1>4, SnapshotIs
<1>6. Agreeing(Reports \cup {s}, r)
  <2>1. CASE m = mode
    <3>1. s \in Reports /\ r = revision
      BY <1>3, <1>4, <2>1 DEF Reports
    <3>2. Reports \cup {s} = Reports
      BY <3>1
    <3> QED
      BY <3>1, <3>2, CarriedIs
  <2>2. CASE m # mode
    <3>1. PICK c : c = Snapshot(revision, mode)
      OBVIOUS
    <3>2. /\ c \in Snapshots /\ c \in Reports /\ c.revision = revision
          /\ c.backgrounded = (mode # "Foreground")
      BY <1>1, <3>1, SnapshotIs DEF Reports
    <3>3. c.backgrounded \/ s.backgrounded
      BY <1>5, <2>2, <3>2
    <3>4. r = revision + 1
      BY <1>3, <2>2
    <3> QED
      BY <1>1, <1>5, <3>2, <3>3, <3>4, CarriedIs, AgreeGrows
  <2> QED
    BY <2>1, <2>2
<1>7. /\ events' \in Seq(Snapshots \cup {Saved})
      /\ page.at \in {"none", "loading"} => events' = events
      /\ page.at \notin {"none", "loading"} => Contents(events') = Contents(events) \cup {s}
  BY <1>1, <1>3, <1>4, <1>5, HeardIs
<1>8. Snapshot(revision', mode') \in {s} /\ {s} \in SUBSET Snapshots
  BY <1>3, <1>4, <1>5
<1> QED
  BY <1>3, <1>5, <1>6, <1>7, <1>8, ShellSpeaks

\* A destroy that is refused: two snapshots, the second of the mode there was.
LEMMA RefusalKeeps ==
    ASSUME PageInv, mode' = mode, revision' = revision + 2, UNCHANGED <<page, answer, library>>,
           events' = events \o Heard(page, Snapshot(revision + 1, "Destroying"))
                            \o Heard(page, Snapshot(revision + 2, mode))
    PROVE  PageInv'
<1>1. /\ revision \in Nat /\ events \in Seq(Snapshots \cup {Saved})
      /\ revision + 1 \in Nat /\ revision + 2 \in Nat /\ (revision + 1) + 1 = revision + 2
  BY DEF PageInv, PageTypes
<1>2. PICK s, t, c : /\ s = Snapshot(revision + 1, "Destroying")
                     /\ t = Snapshot(revision + 2, mode)
                     /\ c = Snapshot(revision, mode)
  OBVIOUS
<1>3. /\ s \in Snapshots /\ s.revision = revision + 1 /\ s.backgrounded
      /\ t \in Snapshots /\ t.revision = revision + 2
      /\ c \in Snapshots /\ c.revision = revision /\ c \in Reports
  <2>1. s \in Snapshots /\ s.revision = revision + 1 /\ s.backgrounded
    BY <1>1, <1>2 DEF Snapshot, Snapshots
  <2>2. t \in Snapshots /\ t.revision = revision + 2
    BY <1>1, <1>2, SnapshotIs
  <2>3. c \in Snapshots /\ c.revision = revision /\ c \in Reports
    BY <1>1, <1>2, SnapshotIs DEF Reports
  <2> QED
    BY <2>1, <2>2, <2>3
<1>4. Agreeing(Reports \cup {s}, revision + 1)
  BY <1>1, <1>3, CarriedIs, AgreeGrows
<1>5. Agreeing((Reports \cup {s}) \cup {t}, revision + 2)
  <2>1. s \in Reports \cup {s}
    OBVIOUS
  <2> QED
    BY <1>1, <1>3, <1>4, <2>1, AgreeGrows
<1>6. Agreeing(Reports \cup {s, t}, revision')
  <2>1. (Reports \cup {s}) \cup {t} = Reports \cup {s, t}
    OBVIOUS
  <2> QED
    BY <1>5, <2>1
<1>7. PICK q : q = events \o Heard(page, s)
  OBVIOUS
<1>8. /\ q \in Seq(Snapshots \cup {Saved})
      /\ page.at \in {"none", "loading"} => q = events
      /\ page.at \notin {"none", "loading"} => Contents(q) = Contents(events) \cup {s}
  BY <1>1, <1>3, <1>7, HeardIs
<1>9. /\ events' \in Seq(Snapshots \cup {Saved})
      /\ page.at \in {"none", "loading"} => events' = q
      /\ page.at \notin {"none", "loading"} => Contents(events') = Contents(q) \cup {t}
  <2>1. events' = q \o Heard(page, t)
    BY <1>2, <1>7
  <2> QED
    BY <1>3, <1>8, <2>1, HeardIs
<1>10. page.at \notin {"none", "loading"} => Contents(events') = Contents(events) \cup {s, t}
  BY <1>8, <1>9
<1>11. Snapshot(revision', mode') \in {s, t} /\ {s, t} \in SUBSET Snapshots
  BY <1>2, <1>3
<1> QED
  BY <1>1, <1>6, <1>8, <1>9, <1>10, <1>11, ShellSpeaks

LEMMA ClipSavedKeeps ==
    ASSUME PageInv, ClipSaved PROVE PageInv'
<1>1. /\ library' = library + 1 /\ events' = events \o Heard(page, Saved)
      /\ UNCHANGED <<page, answer, mode, revision>>
  BY DEF ClipSaved, shellVars
<1>2. /\ events' \in Seq(Snapshots \cup {Saved})
      /\ page.at \in {"none", "loading"} => events' = events
      /\ page.at \notin {"none", "loading"} => Contents(events') = Contents(events) \cup {Saved}
  BY <1>1, HeardIs DEF PageInv, PageTypes
<1>3. PageTypes'
  BY <1>1, <1>2 DEF PageInv, PageTypes
<1>4. Carried' = Carried
  <2>1. \A s \in Snapshots : s \in Contents(events') <=> s \in Contents(events)
    BY <1>2, SavedIsNone DEF PageInv, PageTypes
  <2> QED
    BY <1>1, <2>1 DEF Carried, Knows
<1>5. ReportsTrue'
  BY <1>1, <1>4 DEF PageInv, ReportsTrue, Reports
<1>6. GalleryTrue'
  <2>1. CASE page.at = "loading"
    BY <1>1, <2>1 DEF PageInv, PageTypes, GalleryTrue, Stocked, InFront
  <2>2. CASE page.at \notin {"none", "loading"}
    BY <1>1, <1>2, <2>2 DEF PageInv, GalleryTrue, Stocked
  <2> QED
    BY <1>1, <2>1, <2>2 DEF GalleryTrue
<1> QED
  BY <1>3, <1>5, <1>6 DEF PageInv
-----------------------------------------------------------------------------
(* The page's own steps. *)

LEMMA PageIs ==
    ASSUME PageInv, page.at # "none"
    PROVE  /\ page \in WebPages /\ page.at \in {"loading", "listening", "asked", "answered"}
           /\ Stocked(page, Saved \in Contents(events), library)
           /\ events \in Seq(Snapshots \cup {Saved}) /\ revision \in Nat /\ library \in Nat
           /\ page.known => Report(page) \in Carried
           /\ Carried \subseteq Reports
<1>1. page \in WebPages
  BY DEF PageInv, PageTypes, NoPage
<1>2. page.at \in {"loading", "listening", "asked", "answered"}
  BY <1>1 DEF WebPages
<1>3. page.known => Report(page) \in Carried
  BY <1>1 DEF Carried, Knows, Report, Snapshots, WebPages
<1> QED
  BY <1>1, <1>2, <1>3 DEF PageInv, PageTypes, GalleryTrue, Reports

\* A step of the page after which it is in order itself and carries nothing new.
LEMMA PageGoesOn ==
    ASSUME PageInv, UNCHANGED <<mode, revision, library>>,
           page' \in WebPages, page'.at \in {"listening", "asked", "answered"},
           events' \in Seq(Snapshots \cup {Saved}), answer' \in Snapshots \cup {NoAnswer},
           page'.at # "asked" => answer' = NoAnswer,
           Carried' \subseteq Reports,
           page'.at # "listening" => \E s \in Carried' : s.revision = revision,
           Stocked(page', Saved \in Contents(events'), library)
    PROVE  PageInv'
<1>1. PageTypes'
  BY DEF PageInv, PageTypes
<1>2. Reports' \subseteq Reports
  BY DEF Reports
<1>3. Agreeing(Reports', revision')
  BY <1>2, CarriedIs, AgreeShrinks
<1>4. ReportsTrue'
  BY <1>3 DEF ReportsTrue
<1>5. GalleryTrue'
  BY DEF GalleryTrue
<1> QED
  BY <1>1, <1>4, <1>5 DEF PageInv

LEMMA PageListensKeeps ==
    ASSUME PageInv, PageListens, UNCHANGED <<mode, revision, library>> PROVE PageInv'
<1>1. /\ page.at = "loading" /\ page' = [page EXCEPT !.at = "listening"]
      /\ UNCHANGED <<events, answer>>
  BY DEF PageListens
<1>2. page \in WebPages /\ Stocked(page, Saved \in Contents(events), library)
  BY <1>1, PageIs
<1>3. /\ page' \in WebPages /\ page'.at = "listening" /\ page'.known = page.known
      /\ page'.backgrounded = page.backgrounded /\ page'.revision = page.revision
      /\ page'.gallery = page.gallery /\ page'.dirty = page.dirty /\ page'.gate = page.gate
      /\ page'.loads = page.loads /\ page'.work = page.work
  BY <1>1, <1>2 DEF WebPages
<1>4. Stocked(page', Saved \in Contents(events'), library)
  BY <1>1, <1>2, <1>3 DEF Stocked, InFront, Requests, Served, WorkIsCurrent
<1>5. Carried' \subseteq Reports
  BY <1>1, <1>3 DEF Carried, Reports, Knows
<1>6. /\ events' \in Seq(Snapshots \cup {Saved}) /\ answer' = NoAnswer
  BY <1>1 DEF PageInv, PageTypes
<1> QED
  BY <1>3, <1>4, <1>5, <1>6, PageGoesOn

LEMMA FrontendReadyKeeps ==
    ASSUME PageInv, FrontendReady, UNCHANGED <<mode, revision, library>> PROVE PageInv'
<1>1. /\ page.at = "listening" /\ page' = [page EXCEPT !.at = "asked"]
      /\ events' = events /\ answer' = Snapshot(revision, mode)
  BY DEF FrontendReady
<1>2. page \in WebPages /\ Stocked(page, Saved \in Contents(events), library)
  BY <1>1, PageIs
<1>3. /\ page' \in WebPages /\ page'.at = "asked" /\ page'.known = page.known
      /\ page'.backgrounded = page.backgrounded /\ page'.revision = page.revision
      /\ page'.gallery = page.gallery /\ page'.dirty = page.dirty /\ page'.gate = page.gate
      /\ page'.loads = page.loads /\ page'.work = page.work
  BY <1>1, <1>2 DEF WebPages
<1>4. Stocked(page', Saved \in Contents(events'), library)
  BY <1>1, <1>2, <1>3 DEF Stocked, InFront, Requests, Served, WorkIsCurrent
<1>5. Carried' \subseteq Reports
  BY <1>1, <1>3 DEF Carried, Reports, Knows
<1>6. events' \in Seq(Snapshots \cup {Saved}) /\ revision \in Nat
  BY <1>1 DEF PageInv, PageTypes
<1>7. answer' \in Snapshots /\ answer'.revision = revision
  BY <1>1, <1>6, SnapshotIs
<1>8. answer' \in Carried'
  BY <1>7 DEF Carried
<1> QED
  BY <1>3, <1>4, <1>5, <1>6, <1>7, <1>8, PageGoesOn

\* What the page hears it may take.
LEMMA PageTakes ==
    ASSUME PageInv, page.at # "none", NEW s \in Carried
    PROVE  LET n == Applied(page, s)
           IN  /\ n \in WebPages /\ Stocked(n, Saved \in Contents(events), library)
               /\ n.at = page.at /\ n.known
               /\ Report(n) \in Carried /\ Report(n).revision >= s.revision
               /\ page.known => Report(n).revision >= page.revision
<1>1. /\ page \in WebPages /\ Stocked(page, Saved \in Contents(events), library)
      /\ page.known => Report(page) \in Carried
      /\ Carried \subseteq Reports /\ s \in Snapshots
      /\ page.revision \in Nat /\ s.revision \in Nat
  BY PageIs DEF Carried, Snapshots, WebPages
<1>2. page.known => Agree(Report(page), s)
  BY <1>1, CarriedIs DEF Agreeing
<1>3. PICK n : n = Applied(page, s)
  OBVIOUS
<1>4. /\ n \in WebPages /\ Stocked(n, Saved \in Contents(events), library)
      /\ n.at = page.at /\ n.known
      /\ Accepts(page, s) => Report(n) = s
      /\ ~Accepts(page, s) => n = page
  <2>1. PICK hears \in BOOLEAN : hears <=> Saved \in Contents(events)
    OBVIOUS
  <2>2. Stocked(page, hears, library)
    BY <1>1, <2>1 DEF Stocked
  <2>3. /\ n \in WebPages /\ Stocked(n, hears, library)
        /\ n.at = page.at /\ n.known
        /\ Accepts(page, s) => Report(n) = s
        /\ ~Accepts(page, s) => n = page
    BY <1>1, <1>2, <1>3, <2>2, AppliedStocks
  <2>4. Stocked(n, Saved \in Contents(events), library)
    BY <2>1, <2>3 DEF Stocked
  <2> QED
    BY <2>3, <2>4
<1>5. /\ Report(n) \in Carried /\ Report(n).revision >= s.revision
      /\ page.known => Report(n).revision >= page.revision
  <2>1. CASE Accepts(page, s)
    BY <1>1, <1>4, <2>1 DEF Accepts
  <2>2. CASE ~Accepts(page, s)
    BY <1>1, <1>4, <2>2 DEF Accepts, Report
  <2> QED
    BY <2>1, <2>2
<1> QED
  BY <1>3, <1>4, <1>5

LEMMA AnswerKeeps ==
    ASSUME PageInv, AnswerArrives, page.at # "none", UNCHANGED <<mode, revision, library>>
    PROVE  PageInv'
<1>1. PICK n : n = Applied(page, answer)
  OBVIOUS
<1>2. /\ answer # NoAnswer /\ page' = [n EXCEPT !.at = "answered"]
      /\ answer' = NoAnswer /\ events' = events
  BY <1>1 DEF AnswerArrives
<1>3. /\ answer \in Carried /\ page.at = "asked"
      /\ events \in Seq(Snapshots \cup {Saved}) /\ revision \in Nat
  BY <1>2, PageIs DEF PageInv, PageTypes, Carried
<1>4. /\ n \in WebPages /\ Stocked(n, Saved \in Contents(events), library)
      /\ n.known /\ Report(n) \in Carried /\ Report(n).revision >= answer.revision
      /\ page.known => Report(n).revision >= page.revision
  BY <1>1, <1>3, PageTakes
<1>5. /\ page' \in WebPages /\ page'.at = "answered" /\ page'.known = n.known
      /\ page'.backgrounded = n.backgrounded /\ page'.revision = n.revision
      /\ page'.gallery = n.gallery /\ page'.dirty = n.dirty /\ page'.gate = n.gate
      /\ page'.loads = n.loads /\ page'.work = n.work
  BY <1>2, <1>4 DEF WebPages
<1>6. Stocked(page', Saved \in Contents(events'), library)
  BY <1>2, <1>4, <1>5 DEF Stocked, InFront, Requests, Served, WorkIsCurrent
<1>7. Carried' = {s \in Snapshots : s \in Contents(events) \/ s = Report(n)}
  BY <1>2, <1>4, <1>5, NoAnswerIsNone DEF Carried, Knows, Report
<1>8. Report(n) \in Carried'
  BY <1>4, <1>7, CarriedIs
<1>9. Carried' \subseteq Reports
  BY <1>4, <1>7 DEF Carried, Reports
<1>10. \E s \in Carried' : s.revision = revision
  <2>1. PICK s \in Carried : s.revision = revision
    BY <1>3 DEF PageInv, ReportsTrue
  <2>2. Report(n).revision \in Nat /\ Report(n).revision <= revision
    BY <1>4, CarriedIs DEF Agreeing, Reports, Snapshots
  <2>3. CASE s \in Contents(events)
    BY <1>7, <2>1, <2>3, CarriedIs
  <2>4. CASE s = answer \/ (page.known /\ s = Report(page))
    <3>1. Report(n).revision >= revision
      BY <1>4, <2>1, <2>4 DEF Report
    <3> QED
      BY <1>3, <1>8, <2>2, <3>1
  <2>5. s \in Contents(events) \/ s = answer \/ (page.known /\ s = Report(page))
    BY DEF Carried, Report, Knows
  <2> QED
    BY <2>3, <2>4, <2>5
<1> QED
  BY <1>2, <1>3, <1>5, <1>6, <1>9, <1>10, PageGoesOn
LEMMA EventKeeps ==
    ASSUME PageInv, EventArrives, page.at # "none", UNCHANGED <<mode, revision, library>>
    PROVE  PageInv'
<1>1. /\ events # <<>> /\ events' = Tail(events) /\ answer' = answer
      /\ page' = IF Head(events) = Saved THEN Refreshed(page) ELSE Applied(page, Head(events))
  BY DEF EventArrives
<1>2. /\ page \in WebPages /\ events \in Seq(Snapshots \cup {Saved}) /\ revision \in Nat
      /\ Stocked(page, Saved \in Contents(events), library)
      /\ page.at \in {"listening", "asked", "answered"}
      /\ answer \in Snapshots \cup {NoAnswer} /\ (page.at # "asked" => answer = NoAnswer)
      /\ page.known => Report(page) \in Carried
      /\ Carried \subseteq Reports /\ Carried \subseteq Snapshots
  BY <1>1, PageIs, CarriedIs DEF PageInv, PageTypes
<1>3. PICK e : e = Head(events)
  OBVIOUS
<1>4. /\ e \in Snapshots \cup {Saved} /\ events' \in Seq(Snapshots \cup {Saved})
      /\ Contents(events) = Contents(events') \cup {e}
  BY <1>1, <1>2, <1>3, TailContents
<1>5. ASSUME page.at # "listening"
      PROVE  \E s \in Carried : s.revision = revision
  BY <1>2, <1>5 DEF PageInv, ReportsTrue
<1>6. CASE e = Saved
  <2>1. Stocked(page, TRUE, library)
    BY <1>2 DEF Stocked
  <2>2. /\ page' \in WebPages /\ Stocked(page', FALSE, library)
        /\ page'.at = page.at /\ page'.known = page.known
        /\ page'.backgrounded = page.backgrounded /\ page'.revision = page.revision
    BY <1>1, <1>2, <1>3, <1>6, <2>1, RefreshedStocks
  <2>3. Stocked(page', Saved \in Contents(events'), library)
    BY <2>2 DEF Stocked
  <2>4. Carried' = Carried
    <3>1. \A s \in Snapshots : s \in Contents(events') <=> s \in Contents(events)
      BY <1>4, <1>6, SavedIsNone
    <3> QED
      BY <1>1, <2>2, <3>1 DEF Carried, Knows
  <2> QED
    BY <1>1, <1>2, <1>4, <1>5, <2>2, <2>3, <2>4, PageGoesOn
<1>7. CASE e # Saved
  <2>1. e \in Carried
    BY <1>4, <1>7 DEF Carried
  <2>2. page' = Applied(page, e)
    BY <1>1, <1>3, <1>7
  <2>3. /\ page' \in WebPages /\ Stocked(page', Saved \in Contents(events), library)
        /\ page'.at = page.at /\ page'.known
        /\ Report(page') \in Carried /\ Report(page').revision >= e.revision
        /\ page.known => Report(page').revision >= page.revision
    BY <1>2, <2>1, <2>2, PageTakes
  <2>4. Stocked(page', Saved \in Contents(events'), library)
    <3>1. Saved \in Contents(events') <=> Saved \in Contents(events)
      BY <1>4, <1>7
    <3> QED
      BY <2>3, <3>1 DEF Stocked
  <2>5. Carried' =
           {s \in Snapshots : s = answer \/ s \in Contents(events') \/ s = Report(page')}
    BY <1>1, <1>2, <2>3 DEF Carried, Knows, Report
  <2>6. Report(page') \in Carried'
    BY <1>2, <2>3, <2>5
  <2>7. Carried' \subseteq Reports
    BY <1>2, <1>4, <2>3, <2>5 DEF Carried
  <2>8. ASSUME page.at # "listening"
        PROVE  \E s \in Carried' : s.revision = revision
    <3>1. PICK s \in Carried : s.revision = revision
      BY <1>5, <2>8
    <3>2. Report(page').revision \in Nat /\ Report(page').revision <= revision
      BY <1>2, <2>3, CarriedIs DEF Agreeing, Snapshots
    <3>3. CASE s = answer \/ s \in Contents(events')
      BY <1>2, <2>5, <3>1, <3>3
    <3>4. CASE s = e \/ (page.known /\ s = Report(page))
      <4>1. Report(page').revision >= revision
        BY <2>3, <3>1, <3>4 DEF Report
      <4> QED
        BY <1>2, <2>6, <3>2, <4>1
    <3>5. s = answer \/ s \in Contents(events) \/ (page.known /\ s = Report(page))
      BY DEF Carried, Report, Knows
    <3> QED
      BY <1>4, <3>3, <3>4, <3>5
  <2> QED
    BY <1>1, <1>2, <1>4, <2>3, <2>4, <2>7, <2>8, PageGoesOn
<1> QED
  BY <1>6, <1>7

\* The page goes on with its requests only.
LEMMA RequestsGoOn ==
    ASSUME PageInv, page.at \notin {"none", "loading"}, UNCHANGED <<mode, revision, library>>,
           UNCHANGED <<events, answer>>,
           page' \in WebPages, page'.at = page.at, page'.known = page.known,
           page'.backgrounded = page.backgrounded, page'.revision = page.revision,
           Stocked(page', Saved \in Contents(events), library)
    PROVE  PageInv'
<1>1. Carried' = Carried
  BY DEF Carried, Knows
<1>2. page.at \in {"listening", "asked", "answered"} /\ Carried \subseteq Reports
  BY PageIs
<1>3. /\ events \in Seq(Snapshots \cup {Saved}) /\ answer \in Snapshots \cup {NoAnswer}
      /\ (page.at # "asked" => answer = NoAnswer)
      /\ (page.at # "listening" => \E s \in Carried : s.revision = revision)
  BY <1>2 DEF PageInv, PageTypes, ReportsTrue
<1> QED
  BY <1>1, <1>2, <1>3, PageGoesOn

LEMMA ListReadStocks ==
    ASSUME NEW p \in WebPages, NEW l \in p.loads, l.seen = -1, NEW clips \in Nat,
           NEW hears \in BOOLEAN, Stocked(p, hears, clips)
    PROVE  LET n == [p EXCEPT !.loads = (p.loads \ {l}) \cup {[l EXCEPT !.seen = clips]}]
           IN  n \in WebPages /\ Stocked(n, hears, clips)
<1>1. PICK k : k = [l EXCEPT !.seen = clips]
  OBVIOUS
<1>2. l \in Loads /\ k \in Loads /\ k.gate = l.gate /\ k.work = l.work /\ k.seen = clips
  BY <1>1 DEF WebPages, Loads
<1>3. PICK n : n = [p EXCEPT !.loads = (p.loads \ {l}) \cup {k}]
  OBVIOUS
<1>4. /\ n \in WebPages /\ n.loads = (p.loads \ {l}) \cup {k}
      /\ n.gate = p.gate /\ n.work = p.work /\ n.known = p.known
      /\ n.backgrounded = p.backgrounded /\ n.gallery = p.gallery /\ n.dirty = p.dirty
  BY <1>2, <1>3 DEF WebPages
<1>5. Requests(n)
  BY <1>2, <1>4 DEF Stocked, Requests
<1>6. Served(p, clips) => Served(n, clips)
  <2>1. \A j : WorkIsCurrent(n, j) <=> WorkIsCurrent(p, j)
    BY <1>4 DEF WorkIsCurrent
  <2>2. WorkIsCurrent(p, k) <=> WorkIsCurrent(p, l)
    BY <1>2 DEF WorkIsCurrent
  <2>3. ASSUME NEW j \in p.loads, WorkIsCurrent(p, j), j.seen \in {-1, clips}
        PROVE  Served(n, clips)
    <3>1. CASE j = l
      BY <1>2, <1>4, <2>1, <2>2, <2>3, <3>1 DEF Served
    <3>2. CASE j # l
      BY <1>4, <2>1, <2>3, <3>2 DEF Served
    <3> QED
      BY <3>1, <3>2
  <2>4. ASSUME p.gallery = clips, \A j \in p.loads : ~WorkIsCurrent(p, j)
        PROVE  Served(n, clips)
    BY <1>4, <2>1, <2>2, <2>4 DEF Served
  <2> QED
    BY <2>3, <2>4 DEF Served
<1>7. Stocked(n, hears, clips)
  BY <1>4, <1>5, <1>6 DEF Stocked, InFront
<1> QED
  BY <1>1, <1>3, <1>4, <1>7

LEMMA ListArrivesStocks ==
    ASSUME NEW p \in WebPages, NEW l \in p.loads, l.seen # -1, NEW clips \in Nat,
           NEW hears \in BOOLEAN, Stocked(p, hears, clips)
    PROVE  LET n == [p EXCEPT !.loads = p.loads \ {l},
                              !.gallery = IF WorkIsCurrent(p, l) THEN l.seen ELSE p.gallery]
           IN  n \in WebPages /\ Stocked(n, hears, clips)
<1>1. l \in Loads /\ l.seen \in Nat \cup {-1}
  BY DEF WebPages, Loads
<1>2. PICK shown : shown = IF WorkIsCurrent(p, l) THEN l.seen ELSE p.gallery
  OBVIOUS
<1>3. PICK n : n = [p EXCEPT !.loads = p.loads \ {l}, !.gallery = shown]
  OBVIOUS
<1>4. /\ n \in WebPages /\ n.loads = p.loads \ {l} /\ n.gallery = shown
      /\ n.gate = p.gate /\ n.work = p.work /\ n.known = p.known
      /\ n.backgrounded = p.backgrounded /\ n.dirty = p.dirty
  BY <1>1, <1>2, <1>3 DEF WebPages
<1>5. Requests(n)
  BY <1>4 DEF Stocked, Requests
<1>6. \A j : WorkIsCurrent(n, j) <=> WorkIsCurrent(p, j)
  BY <1>4 DEF WorkIsCurrent
<1>7. Served(p, clips) => Served(n, clips)
  <2>1. CASE WorkIsCurrent(p, l)
    <3>1. \A j \in n.loads : ~WorkIsCurrent(n, j)
      BY <1>4, <1>6, <2>1 DEF Stocked, Requests, WorkIsCurrent
    <3>2. Served(p, clips) => l.seen = clips
      BY <2>1 DEF Served, Stocked, Requests, WorkIsCurrent
    <3> QED
      BY <1>2, <1>4, <2>1, <3>1, <3>2 DEF Served
  <2>2. CASE ~WorkIsCurrent(p, l)
    BY <1>2, <1>4, <1>6, <2>2 DEF Served
  <2> QED
    BY <2>1, <2>2
<1>8. ~InFront(p) => shown = p.gallery
  BY <1>2 DEF InFront, WorkIsCurrent
<1>9. Stocked(n, hears, clips)
  BY <1>4, <1>5, <1>7, <1>8 DEF Stocked, InFront
<1> QED
  BY <1>2, <1>3, <1>4, <1>9
LEMMA ListReadKeeps ==
    ASSUME PageInv, ListRead, page.at # "none", UNCHANGED <<mode, revision, library>>
    PROVE  PageInv'
<1>1. PICK l \in page.loads :
        /\ l.seen = -1
        /\ page' = [page EXCEPT !.loads = (page.loads \ {l}) \cup {[l EXCEPT !.seen = library]}]
        /\ UNCHANGED <<events, answer>>
  BY DEF ListRead
<1>2. page \in WebPages /\ library \in Nat
  BY PageIs
<1>3. PICK hears \in BOOLEAN : hears <=> Saved \in Contents(events)
  OBVIOUS
<1>4. Stocked(page, hears, library)
  BY <1>3, PageIs DEF Stocked
<1>5. page' \in WebPages /\ Stocked(page', hears, library)
  BY <1>1, <1>2, <1>4, ListReadStocks
<1>6. Stocked(page', Saved \in Contents(events), library)
  BY <1>3, <1>5 DEF Stocked
<1>7. /\ page'.at = page.at /\ page'.known = page.known
      /\ page'.backgrounded = page.backgrounded /\ page'.revision = page.revision
  BY <1>1, <1>2 DEF WebPages
<1> QED
  BY <1>1, <1>5, <1>6, <1>7, RequestsGoOn DEF PageInv, PageTypes

LEMMA ListArrivesKeeps ==
    ASSUME PageInv, ListArrives, page.at # "none", UNCHANGED <<mode, revision, library>>
    PROVE  PageInv'
<1>1. PICK l \in page.loads :
        /\ l.seen # -1
        /\ page' = [page EXCEPT !.loads = page.loads \ {l},
                                !.gallery = IF WorkIsCurrent(page, l) THEN l.seen
                                            ELSE page.gallery]
        /\ UNCHANGED <<events, answer>>
  BY DEF ListArrives
<1>2. page \in WebPages /\ library \in Nat
  BY PageIs
<1>3. PICK hears \in BOOLEAN : hears <=> Saved \in Contents(events)
  OBVIOUS
<1>4. Stocked(page, hears, library)
  BY <1>3, PageIs DEF Stocked
<1>5. page' \in WebPages /\ Stocked(page', hears, library)
  BY <1>1, <1>2, <1>4, ListArrivesStocks
<1>6. Stocked(page', Saved \in Contents(events), library)
  BY <1>3, <1>5 DEF Stocked
<1>7. /\ page'.at = page.at /\ page'.known = page.known
      /\ page'.backgrounded = page.backgrounded /\ page'.revision = page.revision
  BY <1>1, <1>2 DEF WebPages
<1> QED
  BY <1>1, <1>5, <1>6, <1>7, RequestsGoOn DEF PageInv, PageTypes

LEMMA PageStepKeeps ==
    ASSUME PageInv, PageStep PROVE PageInv'
<1>1. /\ page.at # "none" /\ UNCHANGED <<mode, revision, library>>
      /\ PageListens \/ FrontendReady \/ AnswerArrives \/ EventArrives \/ ListRead \/ ListArrives
  BY DEF PageStep
<1> QED
  BY <1>1, PageListensKeeps, FrontendReadyKeeps, AnswerKeeps, EventKeeps, ListReadKeeps,
     ListArrivesKeeps

-----------------------------------------------------------------------------
(* The shell's steps, for the page. *)

LEMMA OpenPage ==
    ASSUME PageInv, Open PROVE PageInv'
<1>1. PICK action : action = OpenAction(window.at # "none")
  OBVIOUS
<1>2. /\ library' = library
      /\ \/ UNCHANGED <<mode, revision>> /\ UNCHANGED pageVars
         \/ Reveal(window, page, events, readiness) /\ UNCHANGED <<page, answer>>
         \/ /\ Reveal(NewWindow, NewPage, <<>>, Begun(readiness))
            /\ page' = NewPage /\ answer' = NoAnswer
  BY <1>1 DEF Open, Build
<1>3. CASE UNCHANGED <<mode, revision>> /\ UNCHANGED pageVars
  BY <1>2, <1>3, PageStutters DEF pageVars
<1>4. CASE Reveal(window, page, events, readiness) /\ UNCHANGED <<page, answer>>
  <2>1. PublishLifecycle("Foreground", page, events)
    BY <1>4 DEF Reveal
  <2> QED
    BY <1>2, <1>4, <2>1, PublishKeeps
<1>5. CASE /\ Reveal(NewWindow, NewPage, <<>>, Begun(readiness))
           /\ page' = NewPage /\ answer' = NoAnswer
  <2>1. PublishLifecycle("Foreground", NewPage, <<>>)
    BY <1>5 DEF Reveal
  <2>2. events' = <<>>
    BY <2>1 DEF PublishLifecycle, Heard, NewPage
  <2>3. revision' \in Nat
    BY <2>1 DEF PublishLifecycle, Revised, PageInv, PageTypes
  <2> QED
    BY <1>2, <1>5, <2>2, <2>3, PageStartsOver
<1> QED
  BY <1>2, <1>3, <1>4, <1>5

LEMMA SendToTrayPage ==
    ASSUME PageInv, SendToTray PROVE PageInv'
<1>1. /\ UNCHANGED <<page, answer, library>>
      /\ \/ PublishLifecycle("Destroying", page, events)
         \/ /\ mode' = mode /\ revision' = revision + 2
            /\ events' = events \o Heard(page, Snapshot(revision + 1, "Destroying"))
                                \o Heard(page, Snapshot(revision + 2, mode))
  BY DEF SendToTray
<1> QED
  BY <1>1, PublishKeeps, RefusalKeeps

LEMMA DestroyedPage ==
    ASSUME PageInv, Destroyed PROVE PageInv'
<1>1. /\ page' \in {NewPage, NoPage} /\ events' = <<>> /\ answer' = NoAnswer
      /\ library' = library /\ revision' \in {revision + 1, revision + 2}
  BY DEF Destroyed
<1>2. revision' \in Nat
  BY <1>1 DEF PageInv, PageTypes
<1> QED
  BY <1>1, <1>2, PageStartsOver

LEMMA TaskbarPage ==
    ASSUME PageInv, Minimize \/ Native \/ Reconcile \/ WatchdogWakes PROVE PageInv'
<1>1. /\ UNCHANGED <<page, answer, library>>
      /\ \/ \E m \in {"Foreground", "Taskbar"} : PublishLifecycle(m, page, events)
         \/ UNCHANGED <<mode, revision, events>>
  <2>1. CASE Minimize
    BY <2>1 DEF Minimize
  <2>2. CASE Native
    BY <2>2 DEF Native, pageVars
  <2>3. CASE Reconcile
    <3>1. PICK action : action = ReconcileAction(window.minimized)
      OBVIOUS
    <3>2. /\ UNCHANGED <<page, answer, library>>
          /\ CASE action = "background" -> PublishLifecycle("Taskbar", page, events)
               [] action = "restore" ->
                    \/ PublishLifecycle("Foreground", page, events)
                    \/ UNCHANGED <<mode, revision, events>>
               [] OTHER -> UNCHANGED <<mode, revision, events>>
      BY <2>3, <3>1 DEF Reconcile
    <3> QED
      BY <3>2
  <2>4. CASE WatchdogWakes
    BY <2>4 DEF WatchdogWakes, pageVars
  <2> QED
    BY <2>1, <2>2, <2>3, <2>4
<1> QED
  BY <1>1, PublishKeeps, PageStutters

LEMMA PageKeeps ==
    ASSUME PageInv, [WindowNext]_windowVars PROVE PageInv'
<1>1. CASE UNCHANGED windowVars
  BY <1>1, PageStutters DEF windowVars, shellVars, pageVars
<1>2. CASE WindowNext
  BY <1>2, OpenPage, SendToTrayPage, DestroyedPage, TaskbarPage, PageStepKeeps, ClipSavedKeeps
     DEF WindowNext, Close
<1> QED
  BY <1>1, <1>2

-----------------------------------------------------------------------------
(* Initially, always, and what follows. *)

LEMMA WindowStarts ==
    ASSUME WindowInit PROVE WindowInv
<1>1. /\ window.at = "none" /\ page.at = "none" /\ window = NoWindow /\ page = NoPage
      /\ mode = "Destroyed" /\ revision = 0 /\ pending = FALSE /\ poked = FALSE
      /\ readiness = [next |-> 0, generation |-> 0, ready |-> 0, armed |-> 0, asleep |-> {}]
      /\ events = <<>> /\ answer = NoAnswer /\ library = 0 /\ wanted = FALSE
  BY DEF WindowInit, NoWindow, NoPage
<1>2. readiness \in Readiness
  BY <1>1 DEF Readiness
<1>3. ShellInv
  <2>1. ShellTypes
    BY <1>1, <1>2 DEF ShellTypes, Modes
  <2>2. OpenTrue /\ PaintTrue
    BY <1>1 DEF OpenTrue, PaintTrue, Live
  <2>3. WatchdogTrue
    BY <1>1 DEF WatchdogTrue, Live
  <2> QED
    BY <2>1, <2>2, <2>3 DEF ShellInv
<1>4. PageTypes
  BY <1>1, NoContents DEF PageTypes
<1>5. ReportsTrue
  <2>1. PICK s : s = Snapshot(0, "Destroyed")
    OBVIOUS
  <2>2. s \in Snapshots /\ s.revision = 0
    BY <2>1, SnapshotIs
  <2>3. Carried = {}
    BY <1>1, NoContents, NoAnswerIsNone DEF Carried, Knows
  <2>4. Reports = {s}
    BY <1>1, <2>1, <2>3 DEF Reports
  <2>5. Agree(s, s)
    BY <2>2 DEF Agree
  <2>6. Agreeing({s}, 0)
    BY <2>2, <2>5 DEF Agreeing
  <2> QED
    BY <1>1, <2>4, <2>6 DEF ReportsTrue
<1>6. GalleryTrue
  BY <1>1 DEF GalleryTrue
<1> QED
  BY <1>1, <1>3, <1>4, <1>5, <1>6 DEF WindowInv, PageThere, PageInv

LEMMA WindowServes ==
    ASSUME WindowInv PROVE WindowIsServed
<1>1. OpenIsServed
  BY ModeIs DEF WindowInv, ShellInv, OpenTrue, OpenIsServed, Modes, Live
<1>2. VisibleWindowIsPainted
  BY LiveIs DEF WindowInv, ShellInv, PaintTrue, VisibleWindowIsPainted
<1>3. DeadPageIsReported
  BY DEF WindowInv, ShellInv, WatchdogTrue, DeadPageIsReported
<1>4. PageFollowsShell
  <2> SUFFICES ASSUME PageSettled
               PROVE  /\ page.backgrounded = (mode # "Foreground")
                      /\ page.gallery = IF page.backgrounded THEN -1 ELSE library
    BY DEF PageFollowsShell
  <2>1. /\ page.at = "answered" /\ events = <<>> /\ page.loads = {} /\ answer = NoAnswer
        /\ page \in WebPages /\ Stocked(page, Saved \in Contents(events), library)
        /\ PageInv /\ revision \in Nat
    BY PageIs DEF PageSettled, WindowInv, PageInv, PageTypes
  <2>2. Contents(events) = {}
    BY <2>1, NoContents
  <2>3. PICK s \in Carried : s.revision = revision
    BY <2>1 DEF PageInv, ReportsTrue
  <2>4. page.known /\ s.backgrounded = page.backgrounded
    BY <2>1, <2>2, <2>3, NoAnswerIsNone DEF Carried, Knows
  <2>5. s.backgrounded = (mode # "Foreground")
    <3>1. PICK c : c = Snapshot(revision, mode)
      OBVIOUS
    <3>2. c \in Reports /\ c.revision = revision /\ c.backgrounded = (mode # "Foreground")
      BY <2>1, <3>1, SnapshotIs DEF Reports
    <3>3. s \in Reports
      BY DEF Reports
    <3>4. Agree(s, c)
      BY <2>1, <3>2, <3>3, CarriedIs DEF Agreeing
    <3> QED
      BY <2>3, <3>2, <3>4 DEF Agree
  <2>6. page.gallery = IF page.backgrounded THEN -1 ELSE library
    <3>1. CASE page.backgrounded
      BY <2>1, <3>1 DEF Stocked, InFront
    <3>2. CASE ~page.backgrounded
      BY <2>1, <2>2, <2>4, <3>2 DEF Stocked, InFront, Served
    <3> QED
      BY <3>1, <3>2
  <2> QED
    BY <2>4, <2>5, <2>6
<1> QED
  BY <1>1, <1>2, <1>3, <1>4 DEF WindowIsServed

\* Whoever asks for the window gets one that lives, is painted and shows things as they are,
\* or is told: request_main_window_open queues during a destroy and
\* complete_main_window_destroyed answers, reconcile_native_window follows the taskbar,
\* FrontendReadinessState knows a page that never came up, and
\* WindowLifecycleCore.applySnapshot and refreshClips sort out what reaches the page, however
\* many windows, snapshots, clips and requests there have been.
THEOREM WindowStaysServed == WindowSpec => []WindowIsServed
<1>1. WindowInit => WindowInv
  BY WindowStarts
<1>2. WindowInv /\ [WindowNext]_windowVars => WindowInv'
  BY ShellKeeps, PageThereKeeps, PageKeeps DEF WindowInv
<1>3. WindowInv => WindowIsServed
  BY WindowServes
<1> QED
  BY <1>1, <1>2, <1>3, PTL DEF WindowSpec
=============================================================================
