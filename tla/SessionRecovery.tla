-------------------------- MODULE SessionRecovery --------------------------
(***************************************************************************)
(* The file of a full session, from the name reserved for it to the clip:  *)
(* reserve_full_session_path_at and the finish of service.rs, and the      *)
(* recovery of recordings a crash left behind (clipline-storage), which    *)
(* the first recorder of a process runs while its replacement may already  *)
(* be recording.  One file system call is one step.                        *)
(***************************************************************************)
EXTENDS Integers, Sequences, FiniteSets, FiniteSetsExt, SequencesExt

CONSTANTS Attempts,      \* session_<stamp>.mp4, session_<stamp>_1.mp4, ...: in a second
          RecoveredAs,   \* name -> the names recovery tries, itself first
          Launched,      \* the recorder a start of the program launches
          Replacement,   \* the one that replaces it
          MaxSessions,   \* bound: files created
          MaxCrashes,    \* bound
          MaxForeign     \* bound: files put into the folder by somebody else

VARIABLES temp,       \* name -> [id, footage] of its .recording file, id 0 for none
          final,      \* name -> the session its .mp4 file holds, 0 for none
          marked,     \* names with an ownership marker
          recorder,   \* who -> its state
          recovered,  \* RECOVERED_THIS_PROCESS
          old,        \* the sessions of earlier processes
          wrote,      \* sessions that footage was written to
          misread,    \* whether recovery has taken a session just begun for an empty one
          used        \* [sessions, crashes, foreign] so far

sessionVars == <<temp, final, marked, recorder, recovered, old, wrote, misread, used>>

Recorders == {Launched, Replacement}
Names     == Range(Attempts) \cup UNION {Range(RecoveredAs[n]) : n \in DOMAIN RecoveredAs}
NoFile    == [id |-> 0, footage |-> FALSE]

Off == [at |-> "off", id |-> 0, try |-> 1, name |-> Attempts[1], seen |-> {}, empty |-> FALSE,
        dest |-> Attempts[1]]

Is(r, at)       == recorder[r].at = at
Go(r, at)       == recorder' = [recorder EXCEPT ![r].at = at]
RecorderName(r) == recorder[r].name
Recording(n)    == temp[n].id # 0
Finished(n)     == final[n] # 0

\* Sessions whose file is still there, under whatever name.
Kept == {temp[n].id : n \in Names} \cup {final[n] : n \in Names}

\* What the proofs assume of the constants.
RecoveryAssumption ==
    /\ Launched # Replacement /\ MaxSessions \in Nat
    /\ Attempts \in Seq(Names) /\ Attempts # <<>>
    /\ \A n \in Names : n \in DOMAIN RecoveredAs /\ RecoveredAs[n] \in Seq(Names)
                        /\ 1 \in DOMAIN RecoveredAs[n] /\ RecoveredAs[n][1] = n

SameFiles   == UNCHANGED <<temp, final, marked>>
SameProcess == UNCHANGED <<recovered, old, wrote, misread, used>>

-----------------------------------------------------------------------------
\* The process

\* run, which recovers first, once per process and never in a replacement.
Start(r) ==
    /\ Is(r, "off")
    /\ r = Replacement => ~Is(Launched, "off")
    /\ IF r = Launched /\ ~recovered
       THEN Go(r, "recovering") /\ recovered' = TRUE
       ELSE Go(r, "ready") /\ UNCHANGED recovered
    /\ SameFiles /\ UNCHANGED <<old, wrote, misread, used>>

Crash ==
    /\ used.crashes < MaxCrashes
    /\ used' = [used EXCEPT !.crashes = @ + 1]
    /\ recorder' = [r \in Recorders |-> Off]
    /\ recovered' = FALSE
    /\ old' = 1 .. used.sessions
    /\ SameFiles /\ UNCHANGED <<wrote, misread>>

\* A clip is exported, renamed or copied to a name a session could have.
Appears ==
    /\ used.foreign < MaxForeign
    /\ used' = [used EXCEPT !.foreign = @ + 1]
    /\ \E n \in {m \in Range(Attempts) : ~Finished(m)} :
        final' = [final EXCEPT ![n] = MaxSessions + 1]
    /\ UNCHANGED <<temp, marked, recorder, recovered, old, wrote, misread>>

-----------------------------------------------------------------------------
\* Recovery

\* is_managed_clip: recovery may tell its own recordings by the marker, or by a name it
\* generated.
Managed(n) == n \in marked \/ n \in Range(Attempts)

\* The next recording the scan comes to: its marker is made up for if need be, and its
\* size read.  Files created during the scan may be listed or not.
RecoveryFinds(r) ==
    /\ Is(r, "recovering")
    /\ \E n \in {m \in Names : Recording(m) /\ Managed(m)} \ recorder[r].seen :
        /\ recorder' = [recorder EXCEPT ![r].at = "found", ![r].name = n,
                            ![r].seen = @ \cup {n}, ![r].empty = ~temp[n].footage]
        /\ marked' = marked \cup {n}
        /\ misread' = (misread \/ (~temp[n].footage /\ temp[n].id \notin old))
    /\ UNCHANGED <<temp, final, recovered, old, wrote, used>>

\* An empty recording is removed, then its marker.
RecoveryRemoves(r) ==
    LET n == RecorderName(r)
    IN  \/ /\ Is(r, "found") /\ recorder[r].empty
           /\ temp' = [temp EXCEPT ![n] = NoFile]
           /\ Go(r, "emptied")
           /\ UNCHANGED <<final, marked>> /\ SameProcess
        \/ /\ Is(r, "emptied")
           /\ marked' = marked \ {n}
           /\ Go(r, "recovering")
           /\ UNCHANGED <<temp, final>> /\ SameProcess

\* unique_recovered_path: the first name neither taken nor marked by another clip.
Available(n, m) == ~Finished(m) /\ (m = n \/ m \notin marked)
Destination(n, m) ==
    \E i \in DOMAIN RecoveredAs[n] :
        /\ m = RecoveredAs[n][i] /\ Available(n, m)
        /\ \A j \in 1 .. i - 1 : ~Available(n, RecoveredAs[n][j])

\* Any other gets its final name; an error ends the recovery.
RecoveryRenames(r) ==
    LET n == RecorderName(r)
    IN  /\ Is(r, "found") /\ ~recorder[r].empty
        /\ \E m \in {d \in Names : Destination(n, d)} :
             \/ /\ Recording(n)
                /\ final' = [final EXCEPT ![m] = temp[n].id]
                /\ temp' = [temp EXCEPT ![n] = NoFile]
                /\ recorder' = [recorder EXCEPT
                                   ![r].at = IF m = n THEN "recovering" ELSE "moved",
                                   ![r].dest = m]
             \/ /\ ~Recording(n)
                /\ Go(r, "ready") /\ UNCHANGED <<temp, final>>
        /\ UNCHANGED marked /\ SameProcess

\* The marker follows, or the recording goes back.
RecoveryMovesMarker(r) ==
    LET n == RecorderName(r)
        m == recorder[r].dest
    IN  /\ Is(r, "moved")
        /\ \/ /\ marked' = (marked \ {n}) \cup {m}
              /\ Go(r, "recovering")
              /\ UNCHANGED <<temp, final>>
           \/ /\ temp' = [temp EXCEPT ![n] = [id |-> final[m], footage |-> TRUE]]
              /\ final' = [final EXCEPT ![m] = 0]
              /\ Go(r, "ready")
              /\ UNCHANGED marked
        /\ SameProcess

RecoveryEnds(r) ==
    /\ Is(r, "recovering")
    /\ \A n \in Names \ recorder[r].seen : Recording(n) /\ Managed(n) => temp[n].id \notin old
    /\ Go(r, "ready")
    /\ SameFiles /\ SameProcess

-----------------------------------------------------------------------------
\* Reserving a name

\* The next name, or none is left.
TryNext(r) ==
    recorder' = IF recorder[r].try = Len(Attempts) THEN [recorder EXCEPT ![r].at = "over"]
                ELSE [recorder EXCEPT ![r].at = "ready", ![r].try = @ + 1,
                                      ![r].name = Attempts[recorder[r].try + 1]]

Looks(r) ==
    LET n == Attempts[recorder[r].try]
    IN  /\ Is(r, "ready")
        /\ IF Finished(n) \/ n \in marked THEN TryNext(r)
           ELSE recorder' = [recorder EXCEPT ![r].at = "named", ![r].name = n]
        /\ SameFiles /\ SameProcess

\* Mutant: the file is opened whether it exists or not.
OpenedByOne(n) == TRUE

\* create_new: only one of two recorders gets the file.
CreatedByOne(n) == ~Recording(n)

Creates(r) ==
    LET n == RecorderName(r)
    IN  /\ Is(r, "named") /\ used.sessions < MaxSessions
        /\ IF CreatedByOne(n)
           THEN LET id == used.sessions + 1
                IN  /\ temp' = [temp EXCEPT ![n] = [id |-> id, footage |-> FALSE]]
                    /\ used' = [used EXCEPT !.sessions = id]
                    /\ recorder' = [recorder EXCEPT ![r].at = "created", ![r].id = id]
           ELSE TryNext(r) /\ UNCHANGED <<temp, used>>
        /\ UNCHANGED <<final, marked, recovered, old, wrote, misread>>

\* The final name is still free, and the marker is this recorder's own.
Marks(r) ==
    LET n == RecorderName(r)
    IN  /\ Is(r, "created")
        /\ IF Finished(n) \/ n \in marked
           THEN temp' = [temp EXCEPT ![n] = NoFile] /\ TryNext(r) /\ UNCHANGED marked
           ELSE marked' = marked \cup {n} /\ Go(r, "marked") /\ UNCHANGED temp
        /\ UNCHANGED final /\ SameProcess

\* It is free once more, or the reservation is discarded with its marker.
Reserves(r) ==
    LET n == RecorderName(r)
    IN  /\ Is(r, "marked")
        /\ IF Finished(n)
           THEN temp' = [temp EXCEPT ![n] = NoFile] /\ marked' = marked \ {n} /\ TryNext(r)
           ELSE Go(r, "recording") /\ UNCHANGED <<temp, marked>>
        /\ UNCHANGED final /\ SameProcess

-----------------------------------------------------------------------------
\* Recording and finishing

\* The writer writes to the file it opened, wherever it is by now.
Writes(r) ==
    LET id == recorder[r].id
    IN  /\ Is(r, "recording")
        /\ wrote' = wrote \cup {id}
        /\ temp' = [n \in Names |-> IF temp[n].id = id THEN [temp[n] EXCEPT !.footage = TRUE]
                                    ELSE temp[n]]
        /\ UNCHANGED <<final, marked, recorder, recovered, old, misread, used>>

\* rename_finalized_session: a recording that is gone was recovered, if the clip is there.
Finishes(r) ==
    LET n == RecorderName(r)
    IN  /\ Is(r, "recording") /\ recorder[r].id \in wrote
        /\ IF Recording(n)
           THEN /\ final' = [final EXCEPT ![n] = temp[n].id]
                /\ temp' = [temp EXCEPT ![n] = NoFile]
           ELSE UNCHANGED <<temp, final>>
        /\ Go(r, "over")
        /\ UNCHANGED marked /\ SameProcess

\* handle_full_session_finish_error: an empty recording is removed with its marker, one
\* that is gone loses the marker, any other is kept for recovery.
FinishFails(r) ==
    LET n == RecorderName(r)
    IN  /\ Is(r, "recording")
        /\ IF Recording(n) /\ temp[n].footage THEN UNCHANGED <<temp, marked>>
           ELSE temp' = [temp EXCEPT ![n] = NoFile] /\ marked' = marked \ {n}
        /\ Go(r, "over")
        /\ UNCHANGED final /\ SameProcess

-----------------------------------------------------------------------------
RecoveryInit ==
    /\ temp = [n \in Names |-> NoFile] /\ final = [n \in Names |-> 0] /\ marked = {}
    /\ recorder = [r \in Recorders |-> Off]
    /\ recovered = FALSE /\ old = {} /\ wrote = {} /\ misread = FALSE
    /\ used = [sessions |-> 0, crashes |-> 0, foreign |-> 0]

Recovers(r) == \/ RecoveryFinds(r) \/ RecoveryRemoves(r) \/ RecoveryRenames(r)
               \/ RecoveryMovesMarker(r) \/ RecoveryEnds(r)
Prepares(r) == Looks(r) \/ Creates(r) \/ Marks(r) \/ Reserves(r)
Records(r)  == Writes(r) \/ Finishes(r) \/ FinishFails(r)

RecoveryNext ==
    \/ Crash \/ Appears
    \/ \E r \in Recorders : Start(r) \/ Recovers(r) \/ Prepares(r) \/ Records(r)

RecoverySpec == RecoveryInit /\ [][RecoveryNext]_sessionVars

-----------------------------------------------------------------------------
\* What was recorded is there to be found, as a recording or as a clip, whatever crashed
\* and whoever reserved, recovered or finished what beside it, unless recovery came to a
\* session in its first second.
FootageSurvives == ~misread => wrote \subseteq Kept

\* "Any session caught by that race is still emitted" (handoff.md): recovery beside a new
\* recorder does not make it lose what it records.
CaughtSessionsSurvive == wrote \subseteq Kept
=============================================================================
