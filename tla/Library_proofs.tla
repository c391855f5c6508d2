-------------------------- MODULE Library_proofs ----------------------------
(***************************************************************************)
(* The commands on the files of the library: the upload of a clip, its     *)
(* thumbnail, and what is made of it for the clipboard or kept as a clip.  *)
(***************************************************************************)
EXTENDS CloudUpload, PosterExtraction, ClipSharing, FiniteSetTheorems, WellFoundedInduction, TLAPS

(***************************************************************************)
(* Uploads.  What the server takes for a clip is the clip, and what the    *)
(* records say of it is so, for any files, sizes of a part and numbers of  *)
(* retries, and however often the user renames, replies are lost and the   *)
(* process dies.                                                           *)
(***************************************************************************)

Steps    == {"hashing", "creating", "asking", "sending", "acking", "completing", "uploaded",
             "polling", "verifying", "wiping"}
Statuses == {"none", "queued", "failed", "processing", "uploaded", "uploaded_processing"}
Slices   == [of : Nat, offset : Int, length : Int]
Command  == [at : Steps, id : ClipIds, copy : BOOLEAN, direct : BOOLEAN, again : BOOLEAN,
             missing : SUBSET Parts, attempt : Int, staged : Slices]
Upload   == [status : {"none", "open", "completed"}, parts : [Parts -> Slices],
             clip : {"none", "processing", "ready", "failed", "gone"}]
Record   == [status : Statuses, remote : BOOLEAN, missing : BOOLEAN]

Typed ==
    /\ files \in [ClipNames -> Contents \cup {0}]
    /\ plan \in PlanSet
    /\ command = Idle \/ command \in Command
    /\ records \in [ClipIds -> Record]
    /\ sync = Idle \/ sync \in [at : {"asking"}, id : ClipIds, record : Record]
    /\ remote \in [ClipIds -> Upload]
    /\ readied \in SUBSET ClipIds

\* The part of a clip that belongs there.
Piece(of, k) == [of |-> of, offset |-> (k - 1) * PartSize,
                 length |-> Min({PartSize, FileSize - (k - 1) * PartSize})]

\* What the server was given of a clip is its own, and complete once it says so.
Sound(of, upload) ==
    \A k \in Parts : /\ upload.parts[k] \in {Nothing, Piece(of, k)}
                     /\ upload.status = "completed" => upload.parts[k] = Piece(of, k)
PiecesTrue == \A id \in ClipIds : Sound(id.of, remote[id])

\* While its parts are sent, the file that is read is the one that was hashed.
SourceKept == command.at \in Sending => command.copy \/ files[Id.name] = Id.of

\* What is not missing has arrived.
Sent(c, upload) ==
    /\ c.at \in {"sending", "acking", "completing"} =>
           \A k \in Parts \ c.missing : upload.parts[k] # Nothing
    /\ c.at = "acking" => c.missing # {} /\ c.staged = Piece(c.id.of, Min(c.missing))
    /\ c.at = "completing" => c.missing = {}
SentSoFar == Sent(command, Server)

UploadInv == PiecesTrue /\ SourceKept /\ SentSoFar

\* Who says uploaded has it from the server.
RecordInv ==
    /\ \A id \in ClipIds : remote[id].clip = "ready" => id \in readied
    /\ UploadedMeansReady
    /\ sync # Idle /\ sync.record.status = "uploaded" => sync.id \in readied

CloudInv == Typed /\ UploadInv /\ RecordInv
-----------------------------------------------------------------------------
(* Operators.                                                              *)

LEMMA MinOfTwo ==
    ASSUME NEW a \in Int, NEW b \in Int
    PROVE  Min({a, b}) = IF a <= b THEN a ELSE b
  BY DEF Min

LEMMA MinIsIn ==
    ASSUME NEW S \in SUBSET Nat, S # {}
    PROVE  Min(S) \in S
<1>1. IsWellFoundedOn(OpToRel(<, Nat), Nat)
  BY NatLessThanWellFounded
<1>2. PICK x \in S : \A y \in S : ~(<<y, x>> \in OpToRel(<, Nat))
  BY <1>1, WFMin
<1>3. \A y \in S : ~(y < x)
  BY <1>2 DEF OpToRel
<1>4. \E z \in S : \A y \in S : z <= y
  BY <1>3
<1> QED
  BY <1>4 DEF Min

LEMMA PartsAreNat ==
    ASSUME CloudAssumption
    PROVE  Parts \in SUBSET (Nat \ {0})
  BY DEF CloudAssumption, Parts

LEMMA ContentsAreNat ==
    ASSUME CloudAssumption
    PROVE  /\ Contents \in SUBSET (Nat \ {0})
           /\ \A id \in ClipIds : id.name \in ClipNames /\ id.of \in Contents /\ id.of \in Nat \ {0}
           /\ \A n \in ClipNames, c \in Contents : [name |-> n, of |-> c] \in ClipIds
  BY DEF CloudAssumption, Contents, ClipIds

LEMMA PieceTyped ==
    ASSUME CloudAssumption, NEW of \in Nat, NEW k \in Nat
    PROVE  Piece(of, k) \in Slices
<1>1. /\ PartSize \in Int /\ FileSize \in Int /\ (k - 1) * PartSize \in Int
      /\ FileSize - (k - 1) * PartSize \in Int
  BY DEF CloudAssumption
<1>2. Min({PartSize, FileSize - (k - 1) * PartSize}) \in Int
  BY <1>1, MinOfTwo
<1> QED
  BY <1>1, <1>2 DEF Piece, Slices

LEMMA SliceTyped ==
    ASSUME CloudAssumption, Typed, command # Idle, NEW k \in Nat
    PROVE  Slice(k) \in Slices
<1>1. command \in Command
  BY DEF Typed
<1>2. command.id \in ClipIds
  BY <1>1 DEF Command
<1>3. Id.of \in Nat /\ files[Id.name] \in Nat
  BY <1>2, ContentsAreNat DEF Id, Typed
<1>4. Slice(k) = Piece(IF command.copy THEN Id.of ELSE files[Id.name], k)
  BY DEF Slice, Piece
<1> QED
  BY <1>3, <1>4, PieceTyped

LEMMA NothingTyped == Nothing \in Slices
  BY DEF Nothing, Slices

-----------------------------------------------------------------------------
(* Types.                                                                  *)

LEMMA PlanTyped ==
    ASSUME plan \in PlanSet,
           \/ NoFault
           \/ \E what \in {"uploads", "renames", "syncs", "faults", "kills", "removals"} :
                 Happens(what)
    PROVE  plan' \in PlanSet
  BY DEF PlanSet, NoFault, Happens

LEMMA WithRecordTyped ==
    ASSUME records \in [ClipIds -> Record], NEW id \in ClipIds, NEW r \in Record
    PROVE  WithRecord(id, r) \in [ClipIds -> Record]
<1>1. NoRecord \in Record
  BY DEF NoRecord, Record, Statuses
<1> QED
  BY <1>1 DEF WithRecord

LEMMA ReturnsTyped ==
    ASSUME Typed, command # Idle,
           NEW status \in Statuses, NEW known \in BOOLEAN, Recorded(status, known)
    PROVE  records' \in [ClipIds -> Record]
<1>1. Id \in ClipIds
  BY DEF Typed, Command, Id
<1>2. [status |-> status, remote |-> known, missing |-> FALSE] \in Record
  BY DEF Record
<1> QED
  BY <1>1, <1>2, WithRecordTyped DEF Typed, Recorded

LEMMA ActiveTyped ==
    ASSUME CloudAssumption, Typed, command.at # "off"
    PROVE  /\ command \in Command /\ command # Idle
           /\ Id \in ClipIds /\ Server \in Upload
           /\ command.missing \in SUBSET Parts
           /\ command.missing # {} => Next1 \in command.missing /\ Next1 \in Parts /\ Next1 \in Nat
<1>1. command \in Command /\ command # Idle
  BY DEF Typed, Idle
<1>2. Id \in ClipIds /\ Server \in Upload /\ command.missing \in SUBSET Parts
  BY <1>1 DEF Command, Id, Server, Typed
<1>3. command.missing \in SUBSET Nat
  BY <1>2, PartsAreNat
<1>4. command.missing # {} => Next1 \in command.missing
  BY <1>3, MinIsIn DEF Next1
<1> QED
  BY <1>1, <1>2, <1>3, <1>4

\* The command after a fault that it survives or not.
LEMMA RetryTyped ==
    ASSUME CloudAssumption, Typed, command.at # "off", Retry
    PROVE  command' \in Command \cup {Idle} /\ records' \in [ClipIds -> Record]
<1>1. command \in Command /\ command # Idle
  BY ActiveTyped
<1>2. CASE command.attempt < MaxAttempts
  <2>1. command' = [command EXCEPT !.attempt = @ + 1] /\ UNCHANGED records
    BY <1>2 DEF Retry
  <2>2. command' \in Command
    BY <1>1, <2>1 DEF Command
  <2> QED
    BY <2>1, <2>2 DEF Typed
<1>3. CASE ~(command.attempt < MaxAttempts)
  <2>1. Returns("failed", FALSE)
    BY <1>3 DEF Retry
  <2>2. "failed" \in Statuses
    BY DEF Statuses
  <2> QED
    BY <1>1, <2>1, <2>2, ReturnsTyped DEF Returns
<1> QED
  BY <1>2, <1>3

LEMMA BreaksTyped ==
    ASSUME CloudAssumption, Typed, command.at # "off",
           Breaks \/ Returns("failed", FALSE)
    PROVE  command' \in Command \cup {Idle} /\ records' \in [ClipIds -> Record]
<1>1. command # Idle /\ "failed" \in Statuses
  BY ActiveTyped DEF Statuses
<1>2. Returns("failed", FALSE)
  BY DEF Breaks
<1> QED
  BY <1>1, <1>2, ReturnsTyped DEF Returns

LEMMA StoredTyped ==
    ASSUME CloudAssumption, Typed, command.at # "off",
           NEW slice \in Slices, Stored(slice)
    PROVE  remote' \in [ClipIds -> Upload]
<1>1. Id \in ClipIds
  BY ActiveTyped
<1>2. remote \in [ClipIds -> Upload]
  BY DEF Typed
<1>3. PICK u \in Upload : u = remote[Id]
  BY <1>1, <1>2
<1>4. [u EXCEPT !.parts[Next1] = slice] \in Upload
  BY DEF Upload
<1>5. remote' = [remote EXCEPT ![Id] = [u EXCEPT !.parts[Next1] = slice]]
  BY <1>2, <1>3 DEF Stored
<1> QED
  BY <1>1, <1>2, <1>4, <1>5

\* One step per action; what an action leaves alone stays of its type.
LEMMA TypedStep ==
    ASSUME CloudAssumption, Typed, CloudNext
    PROVE  Typed'
<1> USE CloudAssumption, Typed
<1>1. readied' \in SUBSET ClipIds
  BY DEF Typed, CloudNext
<1> DEFINE Rest == /\ files' \in [ClipNames -> Contents \cup {0}]
                   /\ plan' \in PlanSet
                   /\ command' \in Command \cup {Idle}
                   /\ records' \in [ClipIds -> Record]
                   /\ sync' = Idle \/ sync' \in [at : {"asking"}, id : ClipIds, record : Record]
                   /\ remote' \in [ClipIds -> Upload]
<1>0. Rest => Typed'
  BY <1>1 DEF Typed
<1>a. /\ UNCHANGED files => files' \in [ClipNames -> Contents \cup {0}]
      /\ UNCHANGED plan => plan' \in PlanSet
      /\ UNCHANGED command => command' \in Command \cup {Idle}
      /\ UNCHANGED records => records' \in [ClipIds -> Record]
      /\ UNCHANGED sync => \/ sync' = Idle
                           \/ sync' \in [at : {"asking"}, id : ClipIds, record : Record]
      /\ UNCHANGED remote => remote' \in [ClipIds -> Upload]
      /\ NoFault => plan' \in PlanSet
      /\ Fault => plan' \in PlanSet
      /\ Breaks => plan' \in PlanSet
  <2>1. plan \in PlanSet
    BY DEF Typed
  <2> QED
    BY <2>1, PlanTyped DEF Typed, NoFault, Fault, Breaks
<1>b. /\ "queued" \in Statuses /\ "failed" \in Statuses /\ "processing" \in Statuses
      /\ "uploaded" \in Statuses /\ "uploaded_processing" \in Statuses /\ "none" \in Statuses
  BY DEF Statuses
<1>c. ASSUME command.at # "off"
      PROVE  /\ command \in Command
             /\ \A step \in Steps : Goes(step) => command' \in Command \cup {Idle}
             /\ \A status \in Statuses, known \in BOOLEAN :
                   /\ Recorded(status, known) => records' \in [ClipIds -> Record]
                   /\ Returns(status, known) => /\ records' \in [ClipIds -> Record]
                                                /\ command' \in Command \cup {Idle}
             /\ (Breaks \/ Retry) => /\ records' \in [ClipIds -> Record]
                                      /\ command' \in Command \cup {Idle}
             /\ (FallsBack \/ PartDone) => command' \in Command \cup {Idle}
  <2>1. command \in Command /\ command # Idle
    BY <1>c, ActiveTyped
  <2>2. \A step \in Steps : Goes(step) => command' \in Command
    BY <2>1 DEF Goes, Command
  <2>3. \A status \in Statuses, known \in BOOLEAN :
           Recorded(status, known) => records' \in [ClipIds -> Record]
    BY <2>1, ReturnsTyped
  <2>s. "creating" \in Steps /\ "sending" \in Steps
    BY DEF Steps
  <2>4. ASSUME FallsBack PROVE command' \in Command
    <3>1. [command EXCEPT !.at = "creating", !.again = TRUE] \in Command
      BY <2>1, <2>s DEF Command
    <3>2. PICK c \in Command : c = [command EXCEPT !.at = "creating", !.again = TRUE]
      BY <3>1
    <3>i. [c EXCEPT !.attempt = 1] \in Command
      BY DEF Command
    <3>3. PICK d \in Command : d = [c EXCEPT !.attempt = 1]
      BY <3>i
    <3>4. [d EXCEPT !.direct = FALSE] \in Command
      BY DEF Command
    <3>5. command' = [d EXCEPT !.direct = FALSE]
      BY <2>4, <3>2, <3>3 DEF FallsBack
    <3> QED
      BY <3>4, <3>5
  <2>5. ASSUME PartDone PROVE command' \in Command
    <3>1. PICK left \in SUBSET Parts : left = command.missing \ {Next1}
      BY <2>1 DEF Command
    <3>2. [command EXCEPT !.at = "sending", !.missing = left] \in Command
      BY <2>1, <2>s DEF Command
    <3>3. PICK c \in Command : c = [command EXCEPT !.at = "sending", !.missing = left]
      BY <3>2
    <3>4. [c EXCEPT !.attempt = 1] \in Command
      BY DEF Command
    <3>5. command' = [c EXCEPT !.attempt = 1]
      BY <2>5, <3>1, <3>3 DEF PartDone
    <3> QED
      BY <3>4, <3>5
  <2> QED
    BY <1>c, <2>1, <2>2, <2>3, <2>4, <2>5, RetryTyped, BreaksTyped DEF Returns
<1>2. ASSUME NEW n \in ClipNames, Begin(n) PROVE Rest
  <2>1. plan' \in PlanSet /\ UNCHANGED <<files, sync, remote>>
    BY <1>2, PlanTyped DEF Begin, Typed
  <2>2. files[n] \in Contents /\ plan.mixed \in BOOLEAN
    BY <1>2 DEF Begin, Typed, PlanSet
  <2>3. PICK id \in ClipIds : id = [name |-> n, of |-> files[n]]
    BY <2>2, ContentsAreNat
  <2>4. CASE AlreadyThere(records[id])
    BY <1>2, <2>1, <2>3, <2>4, <1>a DEF Begin
  <2>5. CASE ~AlreadyThere(records[id])
    <3>1. /\ command' = [at |-> "hashing", id |-> id, copy |-> plan.mixed, direct |-> FALSE,
                         again |-> FALSE, missing |-> {}, attempt |-> 1, staged |-> Nothing]
          /\ records' = WithRecord(id, [NoRecord EXCEPT !.status = "queued"])
      BY <1>2, <2>3, <2>5 DEF Begin
    <3>2. command' \in Command
      BY <2>2, <3>1, NothingTyped DEF Command, Steps
    <3>3. [NoRecord EXCEPT !.status = "queued"] \in Record
      BY <1>b DEF NoRecord, Record
    <3>4. records' \in [ClipIds -> Record]
      BY <3>1, <3>3, WithRecordTyped DEF Typed
    <3> QED
      BY <2>1, <3>2, <3>4, <1>a
  <2> QED
    BY <2>4, <2>5
<1>3. ASSUME NEW n \in ClipNames, NEW m \in ClipNames, Rename(n, m) PROVE Rest
  <2>1. plan' \in PlanSet /\ UNCHANGED <<command, records, sync, remote>>
    BY <1>3, PlanTyped DEF Rename, Typed
  <2>2. files' \in [ClipNames -> Contents \cup {0}]
    BY <1>3 DEF Rename, Typed
  <2> QED
    BY <2>1, <2>2, <1>a
<1>4. ASSUME Hash PROVE Rest
  BY <1>4, <1>a, <1>b, <1>c DEF Hash, At, Steps
<1>5. ASSUME Create PROVE Rest
  <2>1. command.at = "creating" /\ UNCHANGED <<files, sync>>
    BY <1>5 DEF Create, At
  <2>2. command \in Command /\ plan.direct \in BOOLEAN /\ command.again \in BOOLEAN
    BY <2>1, <1>c DEF Typed, PlanSet, Command
  <2>3. PICK e \in BOOLEAN : e = (plan.direct /\ ~command.again)
    BY <2>2
  <2>4. Id \in ClipIds /\ Server \in Upload
    BY <2>1, ActiveTyped
  <2>5. Opened \in Upload
    <3>1. NoUpload \in Upload
      BY NothingTyped DEF NoUpload, Upload
    <3> QED
      BY <2>4, <3>1 DEF Opened, Upload
  <2>6. remote' \in [ClipIds -> Upload]
    BY <1>5, <2>4, <2>5 DEF Create, Typed
  <2>7. \/ command' = [command EXCEPT !.at = "asking", !.direct = e] /\ NoFault /\ UNCHANGED records
        \/ command' = [command EXCEPT !.at = "asking"] /\ Fault /\ UNCHANGED records
        \/ Breaks
    BY <1>5, <2>3 DEF Create
  <2>8. /\ [command EXCEPT !.at = "asking", !.direct = e] \in Command
        /\ [command EXCEPT !.at = "asking"] \in Command
    BY <2>2 DEF Command, Steps
  <2> QED
    BY <2>1, <2>6, <2>7, <2>8, <1>a, <1>c
<1>6. ASSUME AskProgress PROVE Rest
  <2>1. command.at = "asking" /\ UNCHANGED <<files, sync, remote>>
    BY <1>6 DEF AskProgress, At
  <2>2. command \in Command
    BY <2>1, <1>c
  <2>3. PICK step \in Steps :
          step = IF plan.single /\ Server.status = "completed" THEN "uploaded" ELSE "sending"
    BY DEF Steps
  <2>4. PICK lacking \in SUBSET Parts :
          lacking = {k \in Parts : Server.status # "completed" /\ Server.parts[k] = Nothing}
    OBVIOUS
  <2>5. \/ Breaks
        \/ /\ NoFault /\ UNCHANGED records
           /\ command' = [command EXCEPT !.at = step, !.missing = lacking]
    BY <1>6, <2>3, <2>4 DEF AskProgress
  <2>6. [command EXCEPT !.at = step, !.missing = lacking] \in Command
    BY <2>2 DEF Command
  <2> QED
    BY <2>1, <2>5, <2>6, <1>a, <1>c
<1>7. ASSUME PutWhole PROVE Rest
  <2>1. command.at = "sending" /\ UNCHANGED <<files, sync>>
    BY <1>7 DEF PutWhole, At
  <2>2. (Goes("uploaded") /\ NoFault /\ UNCHANGED records) \/ Breaks
    BY <1>7 DEF PutWhole
  <2>3. /\ command' \in Command \cup {Idle} /\ plan' \in PlanSet
        /\ records' \in [ClipIds -> Record]
    BY <2>1, <2>2, <1>a, <1>c DEF Steps
  <2>4. Id \in ClipIds
    BY <2>1, ActiveTyped
  <2>5. [k \in Parts |-> Slice(k)] \in [Parts -> Slices]
    BY <2>1, SliceTyped, ActiveTyped, PartsAreNat
  <2>6. [status |-> "completed", clip |-> "processing", parts |-> [k \in Parts |-> Slice(k)]]
          \in Upload
    BY <2>5 DEF Upload
  <2>7. remote' \in [ClipIds -> Upload]
    BY <1>7, <2>4, <2>6 DEF PutWhole, Typed
  <2> QED
    BY <2>1, <2>3, <2>7, <1>a
<1>8. ASSUME PutProxy PROVE Rest
  <2>1. command.at = "sending" /\ command.missing # {} /\ UNCHANGED <<files, sync>>
    BY <1>8 DEF PutProxy, At
  <2>2. UNCHANGED remote \/ Stored(Slice(Next1))
    BY <1>8 DEF PutProxy
  <2>3. \/ PartDone /\ NoFault /\ UNCHANGED records
        \/ Fault /\ Retry
        \/ Breaks
    BY <1>8 DEF PutProxy
  <2>4. /\ command' \in Command \cup {Idle} /\ plan' \in PlanSet
        /\ records' \in [ClipIds -> Record]
    BY <2>1, <2>3, <1>a, <1>c
  <2>5. Slice(Next1) \in Slices
    BY <2>1, SliceTyped, ActiveTyped
  <2>6. remote' \in [ClipIds -> Upload]
    BY <2>1, <2>2, <2>5, StoredTyped, <1>a
  <2> QED
    BY <2>1, <2>4, <2>6, <1>a
<1>9. ASSUME PutDirect PROVE Rest
  <2>1. command.at = "sending" /\ command.missing # {} /\ UNCHANGED <<files, sync, remote>>
    BY <1>9 DEF PutDirect, At
  <2>2. command \in Command /\ Slice(Next1) \in Slices
    BY <2>1, SliceTyped, ActiveTyped
  <2>3. [command EXCEPT !.at = "acking", !.staged = Slice(Next1)] \in Command
    BY <2>2 DEF Command, Steps
  <2> QED
    BY <1>9, <2>1, <2>3, <1>a, <1>c DEF PutDirect
<1>10. ASSUME Acknowledge PROVE Rest
  <2>1. command.at = "acking" /\ UNCHANGED <<files, sync>>
    BY <1>10 DEF Acknowledge, At
  <2>2. \/ PartDone /\ NoFault /\ UNCHANGED records
        \/ Fault /\ FallsBack /\ UNCHANGED records
        \/ Breaks
    BY <1>10 DEF Acknowledge
  <2>3. /\ command' \in Command \cup {Idle} /\ plan' \in PlanSet
        /\ records' \in [ClipIds -> Record]
    BY <2>1, <2>2, <1>a, <1>c
  <2>4. command.staged \in Slices /\ (UNCHANGED remote \/ Stored(command.staged))
    BY <1>10, <2>1, <1>c DEF Acknowledge, Command
  <2>5. remote' \in [ClipIds -> Upload]
    BY <2>1, <2>4, StoredTyped, <1>a
  <2> QED
    BY <2>1, <2>3, <2>5, <1>a
<1>11. ASSUME NoneLeft PROVE Rest
  BY <1>11, <1>a, <1>c DEF NoneLeft, At, Steps
<1>12. ASSUME Complete PROVE Rest
  <2>1. command.at = "completing" /\ UNCHANGED <<files, sync>>
    BY <1>12 DEF Complete, At
  <2>2. (Goes("uploaded") /\ NoFault /\ UNCHANGED records) \/ Breaks
    BY <1>12 DEF Complete
  <2>3. /\ command' \in Command \cup {Idle} /\ plan' \in PlanSet
        /\ records' \in [ClipIds -> Record]
    BY <2>1, <2>2, <1>a, <1>c DEF Steps
  <2>4. PICK u \in Upload : u = remote[Id] /\ Id \in ClipIds
    BY <2>1, ActiveTyped DEF Server
  <2>5. [u EXCEPT !.status = "completed", !.clip = "processing"] \in Upload
    BY DEF Upload
  <2>6. \/ UNCHANGED remote
        \/ remote' = [remote EXCEPT
                          ![Id] = [u EXCEPT !.status = "completed", !.clip = "processing"]]
    BY <1>12, <2>4 DEF Complete, Typed
  <2>7. remote' \in [ClipIds -> Upload]
    BY <2>4, <2>5, <2>6 DEF Typed
  <2> QED
    BY <2>1, <2>3, <2>7, <1>a
<1>13. ASSUME NoteUploaded PROVE Rest
  BY <1>13, <1>a, <1>b, <1>c DEF NoteUploaded, At, Steps
<1>14. ASSUME Poll PROVE Rest
  <2>1. command.at = "polling" /\ UNCHANGED <<files, sync, remote>>
    BY <1>14 DEF Poll, At
  <2>2. \/ NoFault /\ Goes("verifying") /\ Recorded("uploaded", TRUE)
        \/ NoFault /\ Returns("uploaded", TRUE)
        \/ Fault /\ Returns("uploaded_processing", TRUE)
        \/ NoFault /\ Returns("failed", TRUE)
        \/ NoFault /\ Returns("uploaded_processing", TRUE)
    BY <1>14 DEF Poll
  <2> QED
    BY <2>1, <2>2, <1>a, <1>b, <1>c DEF Steps
<1>15. ASSUME Verify PROVE Rest
  <2>1. command.at = "verifying" /\ UNCHANGED <<files, sync, remote>>
    BY <1>15 DEF Verify, At
  <2>2. \/ NoFault /\ Goes("wiping") /\ UNCHANGED records
        \/ NoFault /\ Returns("uploaded_processing", TRUE)
        \/ Fault /\ Returns("uploaded_processing", TRUE)
    BY <1>15 DEF Verify
  <2> QED
    BY <2>1, <2>2, <1>a, <1>b, <1>c DEF Steps
<1>16. ASSUME Wipe PROVE Rest
  <2>1. command.at = "wiping" /\ command' = Idle /\ UNCHANGED <<records, sync, remote>>
    BY <1>16 DEF Wipe, At
  <2>2. files' \in [ClipNames -> Contents \cup {0}] /\ plan' \in PlanSet
    BY <1>16, <1>a DEF Wipe, Typed
  <2> QED
    BY <2>1, <2>2, <1>a
<1>17. ASSUME NEW id \in ClipIds, SyncBegin(id) PROVE Rest
  <2>1. plan' \in PlanSet /\ UNCHANGED <<files, command, records, remote>>
    BY <1>17, PlanTyped DEF SyncBegin, Typed
  <2>2. sync' \in [at : {"asking"}, id : ClipIds, record : Record]
    BY <1>17 DEF SyncBegin, Typed
  <2> QED
    BY <2>1, <2>2, <1>a
<1>18. ASSUME NEW id \in ClipIds, ServerProcesses(id) PROVE Rest
  <2>1. plan' \in PlanSet /\ UNCHANGED <<files, command, records, sync>>
    BY <1>18, <1>a DEF ServerProcesses
  <2>2. PICK u \in Upload : u = remote[id]
    BY DEF Typed
  <2>3. [u EXCEPT !.clip = "ready"] \in Upload /\ [u EXCEPT !.clip = "failed"] \in Upload
    BY DEF Upload
  <2>4. \/ remote' = [remote EXCEPT ![id] = [u EXCEPT !.clip = "ready"]]
        \/ remote' = [remote EXCEPT ![id] = [u EXCEPT !.clip = "failed"]]
    BY <1>18, <2>2 DEF ServerProcesses, Typed
  <2>5. remote' \in [ClipIds -> Upload]
    BY <2>3, <2>4 DEF Typed
  <2> QED
    BY <2>1, <2>5, <1>a
<1>19. ASSUME NEW id \in ClipIds, RemoveRemote(id) PROVE Rest
  <2>1. plan' \in PlanSet /\ UNCHANGED <<files, command, records, sync>>
    BY <1>19, PlanTyped DEF RemoveRemote, Typed
  <2>2. PICK u \in Upload : u = remote[id]
    BY DEF Typed
  <2>3. [u EXCEPT !.clip = "gone"] \in Upload
    BY DEF Upload
  <2>4. remote' = [remote EXCEPT ![id] = [u EXCEPT !.clip = "gone"]]
    BY <1>19, <2>2 DEF RemoveRemote, Typed
  <2>5. remote' \in [ClipIds -> Upload]
    BY <2>3, <2>4 DEF Typed
  <2> QED
    BY <2>1, <2>5, <1>a
<1>20. ASSUME SyncAnswered PROVE Rest
  <2>1. /\ UNCHANGED <<files, plan, command, remote>> /\ sync' = Idle
        /\ sync \in [at : {"asking"}, id : ClipIds, record : Record]
    BY <1>20 DEF SyncAnswered, Typed
  <2>2. sync.id \in ClipIds /\ sync.record \in Record
    BY <2>1
  <2>3. [sync.record EXCEPT !.missing = TRUE] \in Record
    BY <2>2 DEF Record
  <2>4. \A status \in {"uploaded", "uploaded_processing"} :
          [status |-> status, remote |-> TRUE, missing |-> FALSE] \in Record
    BY DEF Record, Statuses
  <2>5. NoRecord \in Record
    BY DEF NoRecord, Record, Statuses
  <2>6. \/ \E status \in {"uploaded", "uploaded_processing"} :
             records' = WithRecord(sync.id, [status |-> status, remote |-> TRUE, missing |-> FALSE])
        \/ records' = records
        \/ records' = [i \in ClipIds |-> IF i.name = sync.id.name THEN NoRecord ELSE records[i]]
        \/ records' = WithRecord(sync.id, [sync.record EXCEPT !.missing = TRUE])
    BY <1>20 DEF SyncAnswered
  <2>7. \A r \in Record : WithRecord(sync.id, r) \in [ClipIds -> Record]
    BY <2>2, WithRecordTyped DEF Typed
  <2>8. records' \in [ClipIds -> Record]
    <3>1. records \in [ClipIds -> Record]
      BY DEF Typed
    <3>2. [i \in ClipIds |-> IF i.name = sync.id.name THEN NoRecord ELSE records[i]]
          \in [ClipIds -> Record]
      BY <2>5, <3>1
    <3>3. WithRecord(sync.id, [sync.record EXCEPT !.missing = TRUE]) \in [ClipIds -> Record]
      BY <2>3, <2>7
    <3>4. \A status \in {"uploaded", "uploaded_processing"} :
             WithRecord(sync.id, [status |-> status, remote |-> TRUE, missing |-> FALSE])
             \in [ClipIds -> Record]
      BY <2>4, <2>7
    <3> QED
      BY <2>6, <3>1, <3>2, <3>3, <3>4
  <2> QED
    BY <2>1, <2>8, <1>a
<1>21. ASSUME Kill PROVE Rest
  BY <1>21, <1>a, PlanTyped DEF Kill, Typed
<1>22. Step
  BY DEF CloudNext
<1> QED
  BY <1>0, <1>2, <1>3, <1>4, <1>5, <1>6, <1>7, <1>8, <1>9, <1>10, <1>11, <1>12, <1>13, <1>14,
     <1>15, <1>16, <1>17, <1>18, <1>19, <1>20, <1>21, <1>22 DEF Step

-----------------------------------------------------------------------------
(* The upload.                                                             *)

\* No part of a clip is mistaken for one that has not arrived: contents are not 0.
LEMMA PieceIsSomething ==
    ASSUME CloudAssumption, NEW id \in ClipIds, NEW k
    PROVE  Piece(id.of, k) # Nothing
  BY ContentsAreNat DEF Piece, Nothing

LEMMA SliceIsPiece ==
    ASSUME SourceKept, command.at \in Sending, NEW k
    PROVE  Slice(k) = Piece(Id.of, k)
<1>1. (IF command.copy THEN Id.of ELSE files[Id.name]) = Id.of
  BY DEF SourceKept
<1> QED
  BY <1>1 DEF Slice, Piece

\* The upload of the command's clip with one more part.
LEMMA StoredSound ==
    ASSUME CloudAssumption, Typed, PiecesTrue, command.at # "off",
           NEW slice, slice = Piece(Id.of, Next1), Stored(slice)
    PROVE  /\ \A id \in ClipIds : Sound(id.of, remote'[id])
           /\ \A k \in Parts : Server.parts[k] # Nothing => remote'[Id].parts[k] # Nothing
           /\ Next1 \in Parts => remote'[Id].parts[Next1] # Nothing
<1>1. Id \in ClipIds /\ Server \in Upload /\ Server = remote[Id]
  BY ActiveTyped DEF Server
<1>2. PICK u \in Upload : u = remote[Id]
  BY <1>1
<1>3. PICK v : v = [u EXCEPT !.parts[Next1] = slice]
  OBVIOUS
<1>4. /\ v.status = u.status
      /\ \A k \in Parts : v.parts[k] = IF k = Next1 THEN slice ELSE u.parts[k]
  BY <1>3 DEF Upload
<1>5. /\ remote'[Id] = v
      /\ \A id \in ClipIds : id # Id => remote'[id] = remote[id]
  BY <1>1, <1>2, <1>3 DEF Stored, Typed
<1>6. Sound(Id.of, u)
  BY <1>1, <1>2 DEF PiecesTrue
<1>7. Sound(Id.of, v)
  BY <1>4, <1>6 DEF Sound
<1>8. \A id \in ClipIds : Sound(id.of, remote'[id])
  BY <1>5, <1>7 DEF PiecesTrue
<1>9. slice # Nothing
  BY <1>1, PieceIsSomething
<1> QED
  BY <1>1, <1>2, <1>4, <1>5, <1>8, <1>9

\* What the steps do to the server's uploads.
LEMMA PiecesStep ==
    ASSUME CloudAssumption, Typed, UploadInv, Step
    PROVE  \A id \in ClipIds : Sound(id.of, remote'[id])
<1> USE CloudAssumption, Typed
<1> DEFINE Goal == \A id \in ClipIds : Sound(id.of, remote'[id])
<1>a. PiecesTrue /\ SourceKept /\ SentSoFar
  BY DEF UploadInv
<1>b. UNCHANGED remote => Goal
  BY <1>a DEF PiecesTrue
<1>c. ASSUME NEW id \in ClipIds, NEW u, Sound(id.of, u), remote' = [remote EXCEPT ![id] = u]
      PROVE  Goal
  BY <1>a, <1>c DEF PiecesTrue, Typed
<1>d. ASSUME NEW id \in ClipIds, NEW stage, remote' = [remote EXCEPT ![id].clip = stage]
      PROVE  Goal
  <2>1. PICK u \in Upload : u = remote[id]
    BY DEF Typed
  <2>2. PICK v : v = [u EXCEPT !.clip = stage]
    OBVIOUS
  <2>3. v.status = u.status /\ v.parts = u.parts
    BY <2>2 DEF Upload
  <2>4. Sound(id.of, v)
    BY <1>a, <2>1, <2>3 DEF PiecesTrue, Sound
  <2>5. remote' = [remote EXCEPT ![id] = v]
    BY <1>d, <2>1, <2>2 DEF Typed
  <2> QED
    BY <1>c, <2>4, <2>5
<1>1. ASSUME Create PROVE Goal
  <2>1. command.at = "creating"
    BY <1>1 DEF Create, At
  <2>2. Id \in ClipIds /\ Server = remote[Id]
    BY <2>1, ActiveTyped DEF Server
  <2>3. UNCHANGED remote \/ remote' = [remote EXCEPT ![Id] = Opened]
    BY <1>1 DEF Create
  <2>4. Sound(Id.of, [NoUpload EXCEPT !.status = "open"])
    BY DEF Sound, NoUpload
  <2>5. Sound(Id.of, Opened)
    BY <1>a, <2>2, <2>4 DEF Opened, PiecesTrue
  <2> QED
    BY <1>b, <1>c, <2>2, <2>3, <2>5
<1>2. ASSUME PutWhole PROVE Goal
  <2>1. command.at = "sending" /\ command.at \in Sending
    BY <1>2 DEF PutWhole, At, Sending
  <2>2. Id \in ClipIds
    BY <2>1, ActiveTyped
  <2>3. PICK u : u = [status |-> "completed", clip |-> "processing",
                      parts |-> [k \in Parts |-> Slice(k)]]
    OBVIOUS
  <2>4. UNCHANGED remote \/ remote' = [remote EXCEPT ![Id] = u]
    BY <1>2, <2>3 DEF PutWhole
  <2>5. \A k \in Parts : u.parts[k] = Piece(Id.of, k)
    BY <1>a, <2>1, <2>3, SliceIsPiece
  <2>6. Sound(Id.of, u)
    BY <2>5 DEF Sound
  <2> QED
    BY <1>b, <1>c, <2>2, <2>4, <2>6
<1>3. ASSUME PutProxy PROVE Goal
  <2>1. command.at = "sending" /\ command.at \in Sending /\ command.at # "off"
    BY <1>3 DEF PutProxy, At, Sending
  <2>2. UNCHANGED remote \/ Stored(Slice(Next1))
    BY <1>3 DEF PutProxy
  <2>3. Slice(Next1) = Piece(Id.of, Next1)
    BY <1>a, <2>1, SliceIsPiece
  <2> QED
    BY <1>a, <1>b, <2>1, <2>2, <2>3, StoredSound
<1>4. ASSUME Acknowledge PROVE Goal
  <2>1. command.at = "acking" /\ command.at # "off"
    BY <1>4 DEF Acknowledge, At
  <2>2. UNCHANGED remote \/ Stored(command.staged)
    BY <1>4 DEF Acknowledge
  <2>3. command.staged = Piece(Id.of, Next1)
    BY <1>a, <2>1 DEF SentSoFar, Sent, Id, Next1
  <2> QED
    BY <1>a, <1>b, <2>1, <2>2, <2>3, StoredSound
<1>5. ASSUME Complete PROVE Goal
  <2>1. command.at = "completing" /\ command.at # "off"
    BY <1>5 DEF Complete, At
  <2>2. Id \in ClipIds /\ Server = remote[Id]
    BY <2>1, ActiveTyped DEF Server
  <2>3. PICK u \in Upload : u = remote[Id]
    BY <2>2 DEF Typed
  <2>4. PICK v : v = [u EXCEPT !.status = "completed", !.clip = "processing"]
    OBVIOUS
  <2>5. UNCHANGED remote \/ remote' = [remote EXCEPT ![Id] = v]
    BY <1>5, <2>2, <2>3, <2>4 DEF Complete, Typed
  <2>6. \A k \in Parts : u.parts[k] # Nothing
    BY <1>a, <2>1, <2>2, <2>3 DEF SentSoFar, Sent
  <2>7. Sound(Id.of, u)
    BY <1>a, <2>2, <2>3 DEF PiecesTrue
  <2>8. v.parts = u.parts
    BY <2>4 DEF Upload
  <2>9. Sound(Id.of, v)
    BY <2>6, <2>7, <2>8 DEF Sound
  <2> QED
    BY <1>b, <1>c, <2>2, <2>5, <2>9
<1>6. ASSUME NEW id \in ClipIds, ServerProcesses(id) \/ RemoveRemote(id) PROVE Goal
  BY <1>6, <1>d DEF ServerProcesses, RemoveRemote
<1>7. ASSUME UNCHANGED remote PROVE Goal
  BY <1>7, <1>b
<1>8. \/ Create \/ PutWhole \/ PutProxy \/ Acknowledge \/ Complete
      \/ \E id \in ClipIds : ServerProcesses(id) \/ RemoveRemote(id)
      \/ UNCHANGED remote
  BY DEF Step, Begin, Rename, Hash, AskProgress, PutDirect, NoneLeft, NoteUploaded, Poll, Verify,
         Wipe, SyncBegin, SyncAnswered, Kill
<1> QED
  BY <1>1, <1>2, <1>3, <1>4, <1>5, <1>6, <1>7, <1>8

\* A command that sends after a step is the one it was, but for a few of its fields.
LEMMA CommandStep ==
    ASSUME CloudAssumption, Typed, UploadInv, Step
    PROVE  \/ command'.at \in {"off", "hashing", "uploaded", "polling", "verifying", "wiping"}
           \/ /\ command.at # "off" /\ command'.id = Id /\ command'.copy = command.copy
              /\ Sent(command', remote'[Id])
              /\ IF command.at = "hashing" THEN Slice(1).of = Id.of /\ UNCHANGED files
                 ELSE command.at \in Sending
<1> USE CloudAssumption, Typed
<1> DEFINE Past == {"off", "hashing", "uploaded", "polling", "verifying", "wiping"}
           Goal == \/ command'.at \in Past
                   \/ /\ command.at # "off" /\ command'.id = Id /\ command'.copy = command.copy
                      /\ Sent(command', remote'[Id])
                      /\ IF command.at = "hashing" THEN Slice(1).of = Id.of /\ UNCHANGED files
                         ELSE command.at \in Sending
<1>a. PiecesTrue /\ SourceKept /\ Sent(command, Server)
  BY DEF UploadInv, SentSoFar
<1>b. command' = Idle => Goal
  BY DEF Idle
<1>c. /\ Breaks => Goal
      /\ \A status, known : Returns(status, known) => Goal
  BY <1>b DEF Breaks, Returns
<1>d. command.at \notin Past => command.at \in Sending /\ command.at # "off"
  BY DEF Typed, Command, Steps, Sending, Idle
<1>e. ASSUME UNCHANGED command,
             command.at \notin Past => remote'[Id].parts = Server.parts
      PROVE  Goal
  <2>1. command'.at = command.at /\ command'.id = Id /\ command'.copy = command.copy
    BY <1>e DEF Id
  <2>2. command.at \notin Past => Sent(command', remote'[Id])
    BY <1>a, <1>e DEF Sent
  <2>3. command.at \notin Past => command.at # "hashing"
    OBVIOUS
  <2> QED
    BY <1>d, <2>1, <2>2, <2>3
<1>f. UNCHANGED <<command, remote>> => Goal
  BY <1>e DEF Server
<1>1. ASSUME NEW n \in ClipNames, Begin(n) PROVE Goal
  <2>1. CASE UNCHANGED command
    BY <1>1, <1>f, <2>1 DEF Begin
  <2>2. CASE command'.at = "hashing"
    BY <2>2
  <2> QED
    BY <1>1, <2>1, <2>2 DEF Begin
<1>2. ASSUME NEW id \in ClipIds, ServerProcesses(id) \/ RemoveRemote(id) PROVE Goal
  <2>1. UNCHANGED command
    BY <1>2 DEF ServerProcesses, RemoveRemote
  <2>2. PICK stage : remote' = [remote EXCEPT ![id].clip = stage]
    BY <1>2 DEF ServerProcesses, RemoveRemote
  <2>3. ASSUME command.at \notin Past PROVE remote'[Id].parts = Server.parts
    <3>1. Id \in ClipIds /\ Server \in Upload
      BY <1>d, <2>3, ActiveTyped
    <3>2. remote[id] \in Upload
      BY DEF Typed
    <3> QED
      BY <2>2, <3>1, <3>2 DEF Server, Typed, Upload
  <2> QED
    BY <1>e, <2>1, <2>3
<1>3. ASSUME Hash PROVE Goal
  <2>1. CASE Slice(1).of = Id.of
    <3>1. command.at = "hashing" /\ UNCHANGED files /\ command' = [command EXCEPT !.at = "creating"]
      BY <1>3, <2>1 DEF Hash, At, Goes
    <3>2. /\ command'.at = "creating" /\ command'.id = Id /\ command'.copy = command.copy
      BY <3>1, ActiveTyped DEF Command, Id
    <3>3. Sent(command', remote'[Id])
      BY <3>2 DEF Sent
    <3> QED
      BY <2>1, <3>1, <3>2, <3>3
  <2>2. CASE Slice(1).of # Id.of
    BY <1>3, <1>c, <2>2 DEF Hash
  <2> QED
    BY <2>1, <2>2
<1>g. ASSUME command.at \in Sending,
             command'.at \in {"creating", "asking"}, command'.id = Id, command'.copy = command.copy
      PROVE  Goal
  <2>1. Sent(command', remote'[Id])
    BY <1>g DEF Sent
  <2> QED
    BY <1>g, <2>1 DEF Sending
<1>h. ASSUME command.at \in Sending, command'.id = Id, command'.copy = command.copy,
             Sent(command', remote'[Id])
      PROVE  Goal
  BY <1>h DEF Sending
<1>4. ASSUME Create PROVE Goal
  <2>1. command.at = "creating" /\ command.at \in Sending
    BY <1>4 DEF Create, At, Sending
  <2>2. command \in Command
    BY <2>1, ActiveTyped
  <2>3. \/ command' = [command EXCEPT !.at = "asking", !.direct = plan.direct /\ ~command.again]
        \/ command' = [command EXCEPT !.at = "asking"]
        \/ Breaks
    BY <1>4 DEF Create
  <2>4. CASE ~Breaks
    <3>1. command'.at = "asking" /\ command'.id = Id /\ command'.copy = command.copy
      BY <2>2, <2>3, <2>4 DEF Command, Id
    <3> QED
      BY <1>g, <2>1, <3>1
  <2> QED
    BY <1>c, <2>4
<1>5. ASSUME AskProgress PROVE Goal
  <2>1. command.at = "asking" /\ command.at \in Sending /\ UNCHANGED remote
    BY <1>5 DEF AskProgress, At, Sending
  <2>2. command \in Command /\ Id \in ClipIds /\ Server = remote[Id]
    BY <2>1, ActiveTyped DEF Server
  <2>3. CASE Breaks
    BY <1>c, <2>3
  <2>4. CASE ~Breaks
    <3>1. /\ command'.at \in {"uploaded", "sending"} /\ command'.id = Id
          /\ command'.copy = command.copy
          /\ command'.missing = {k \in Parts : Server.status # "completed"
                                               /\ Server.parts[k] = Nothing}
      BY <1>5, <2>2, <2>4 DEF AskProgress, Command, Id
    <3>2. \A k \in Parts \ command'.missing : Server.parts[k] # Nothing
      <4>1. \A k \in Parts : Server.status = "completed" => Server.parts[k] # Nothing
        BY <1>a, <2>2, PieceIsSomething DEF PiecesTrue, Sound
      <4> QED
        BY <3>1, <4>1
    <3>3. Sent(command', remote'[Id])
      BY <2>1, <2>2, <3>1, <3>2 DEF Sent
    <3> QED
      BY <1>h, <2>1, <3>1, <3>3
  <2> QED
    BY <2>3, <2>4
\* The part that follows is there, whoever stored it, and nothing else goes.
<1>i. ASSUME command.at \in {"sending", "acking"}, command.missing # {},
             UNCHANGED remote \/ Stored(Piece(Id.of, Next1))
      PROVE  /\ \A k \in Parts : Server.parts[k] # Nothing => remote'[Id].parts[k] # Nothing
             /\ Stored(Piece(Id.of, Next1)) => remote'[Id].parts[Next1] # Nothing
  <2>1. command.at # "off"
    BY <1>i
  <2>2. Next1 \in Parts
    BY <1>i, <2>1, ActiveTyped
  <2> QED
    BY <1>a, <1>i, <2>1, <2>2, StoredSound DEF Server
<1>j. ASSUME command.at \in {"sending", "acking"}, command.missing # {},
             PartDone, Stored(Piece(Id.of, Next1))
      PROVE  Goal
  <2>1. command \in Command
    BY <1>j, ActiveTyped
  <2>2. /\ command'.at = "sending" /\ command'.id = Id /\ command'.copy = command.copy
        /\ command'.missing = command.missing \ {Next1}
    BY <1>j, <2>1 DEF PartDone, Command, Id
  <2>3. Sent(command', remote'[Id])
    BY <1>a, <1>i, <1>j, <2>2 DEF Sent
  <2> QED
    BY <1>h, <1>j, <2>2, <2>3 DEF Sending
<1>k. ASSUME command.at = "sending", command.missing # {}, Retry,
             UNCHANGED remote \/ Stored(Piece(Id.of, Next1))
      PROVE  Goal
  <2>1. CASE command' = [command EXCEPT !.attempt = @ + 1]
    <3>1. /\ command'.at = "sending" /\ command'.id = Id /\ command'.copy = command.copy
          /\ command'.missing = command.missing
      BY <1>k, <2>1, ActiveTyped DEF Command, Id
    <3>2. Sent(command', remote'[Id])
      BY <1>a, <1>i, <1>k, <3>1 DEF Sent
    <3> QED
      BY <1>h, <1>k, <3>1, <3>2 DEF Sending
  <2> QED
    BY <1>c, <1>k, <2>1 DEF Retry
<1>l. ASSUME command.at \in {"sending", "acking"}, FallsBack PROVE Goal
  <2>1. command \in Command /\ command.at \in Sending
    BY <1>l, ActiveTyped DEF Sending
  <2>2. command'.at = "creating" /\ command'.id = Id /\ command'.copy = command.copy
    BY <1>l, <2>1 DEF FallsBack, Command, Id
  <2> QED
    BY <1>g, <2>1, <2>2
<1>6. ASSUME PutProxy PROVE Goal
  <2>1. command.at = "sending" /\ command.missing # {} /\ command.at \in Sending
    BY <1>6 DEF PutProxy, At, Sending
  <2>2. Slice(Next1) = Piece(Id.of, Next1)
    BY <1>a, <2>1, SliceIsPiece
  <2>3. \/ Stored(Piece(Id.of, Next1)) /\ PartDone
        \/ Retry /\ (UNCHANGED remote \/ Stored(Piece(Id.of, Next1)))
        \/ Breaks
    BY <1>6, <2>2 DEF PutProxy
  <2> QED
    BY <1>c, <1>j, <1>k, <2>1, <2>3
<1>7. ASSUME PutDirect PROVE Goal
  <2>1. command.at = "sending" /\ command.missing # {} /\ command.at \in Sending /\ UNCHANGED remote
    BY <1>7 DEF PutDirect, At, Sending
  <2>2. Slice(Next1) = Piece(Id.of, Next1) /\ command \in Command
    BY <1>a, <2>1, SliceIsPiece, ActiveTyped
  <2>3. CASE command' = [command EXCEPT !.at = "acking", !.staged = Slice(Next1)]
    <3>1. /\ command'.at = "acking" /\ command'.id = Id /\ command'.copy = command.copy
          /\ command'.missing = command.missing /\ command'.staged = Piece(Id.of, Next1)
      BY <2>2, <2>3 DEF Command, Id
    <3>2. Sent(command', remote'[Id])
      BY <1>a, <2>1, <3>1 DEF Sent, Next1, Server
    <3> QED
      BY <1>h, <2>1, <3>1, <3>2
  <2> QED
    BY <1>7, <1>c, <1>k, <1>l, <2>1, <2>3 DEF PutDirect
<1>8. ASSUME Acknowledge PROVE Goal
  <2>1. command.at = "acking"
    BY <1>8 DEF Acknowledge, At
  <2>2. command.missing # {} /\ command.staged = Piece(Id.of, Next1)
    BY <1>a, <2>1 DEF Sent, Id, Next1
  <2>3. (Stored(Piece(Id.of, Next1)) /\ PartDone) \/ FallsBack \/ Breaks
    BY <1>8, <2>2 DEF Acknowledge
  <2> QED
    BY <1>c, <1>j, <1>l, <2>1, <2>2, <2>3
<1>9. ASSUME NoneLeft PROVE Goal
  <2>1. /\ command.at = "sending" /\ command.missing = {} /\ UNCHANGED remote
        /\ command' = [command EXCEPT !.at = "completing"]
    BY <1>9 DEF NoneLeft, At, Goes
  <2>2. /\ command'.at = "completing" /\ command'.id = Id /\ command'.copy = command.copy
        /\ command'.missing = {}
    BY <2>1, ActiveTyped DEF Command, Id
  <2>3. Sent(command', remote'[Id])
    BY <1>a, <2>1, <2>2 DEF Sent, Server
  <2> QED
    BY <1>h, <2>1, <2>2, <2>3 DEF Sending
<1>m. ASSUME command.at # "off", NEW step \in Past, Goes(step) PROVE Goal
  BY <1>m, ActiveTyped DEF Goes, Command
<1>10. ASSUME PutWhole \/ Complete \/ NoteUploaded \/ Poll \/ Verify \/ Wipe \/ Kill PROVE Goal
  <2>1. \/ command.at # "off" /\ \E step \in Past : Goes(step)
        \/ \E status, known : Returns(status, known)
        \/ command' = Idle
    BY <1>10 DEF PutWhole, Complete, NoteUploaded, Poll, Verify, Wipe, Kill, At, Breaks
  <2> QED
    BY <1>b, <1>c, <1>m, <2>1
<1>11. ASSUME \/ \E n \in ClipNames, m \in ClipNames : Rename(n, m)
              \/ \E id \in ClipIds : SyncBegin(id)
              \/ SyncAnswered
       PROVE  Goal
  BY <1>11, <1>f DEF Rename, SyncBegin, SyncAnswered
<1> QED
  BY <1>1, <1>2, <1>3, <1>4, <1>5, <1>6, <1>7, <1>8, <1>9, <1>10, <1>11 DEF Step

LEMMA SourceStep ==
    ASSUME CloudAssumption, Typed, UploadInv, Step
    PROVE  SourceKept'
<1> USE CloudAssumption, Typed
<1> SUFFICES ASSUME command'.at \in Sending
             PROVE  command'.copy \/ files'[command'.id.name] = command'.id.of
  BY DEF SourceKept, Id
<1>1. /\ command.at # "off" /\ command'.id = Id /\ command'.copy = command.copy
      /\ IF command.at = "hashing" THEN Slice(1).of = Id.of /\ UNCHANGED files
         ELSE command.at \in Sending
  BY CommandStep DEF Sending
<1>2. command.copy \/ files[Id.name] = Id.of
  <2>1. CASE command.at = "hashing"
    BY <1>1, <2>1 DEF Slice
  <2>2. CASE command.at # "hashing"
    BY <1>1, <2>2 DEF UploadInv, SourceKept
  <2> QED
    BY <2>1, <2>2
<1>3. CASE UNCHANGED files
  BY <1>1, <1>2, <1>3
<1>4. CASE ~UNCHANGED files
  <2>1. command' # Idle
    BY DEF Idle, Sending
  <2>2. PICK n \in ClipNames, m \in ClipNames : Rename(n, m)
    BY <1>4, <2>1 DEF Step, Begin, Hash, Create, AskProgress, PutWhole, PutProxy, PutDirect,
       Acknowledge, NoneLeft, Complete, NoteUploaded, Poll, Verify, Wipe, SyncBegin,
       ServerProcesses, RemoveRemote, SyncAnswered, Kill
  <2>3. command.at \in Sending
    BY <1>1, <1>4
  <2>4. Id.name \in ClipNames /\ Id.of # 0
    BY <1>1, ActiveTyped, ContentsAreNat
  <2>5. ASSUME ~command.copy PROVE files'[Id.name] = files[Id.name]
    <3>1. Id.name # n
      BY <2>2, <2>3, <2>5 DEF Rename, Leased
    <3>2. Id.name # m
      BY <1>2, <2>2, <2>4, <2>5 DEF Rename
    <3> QED
      BY <2>2, <2>4, <3>1, <3>2 DEF Rename, Typed
  <2> QED
    BY <1>1, <1>2, <2>5
<1> QED
  BY <1>3, <1>4

LEMMA UploadStep ==
    ASSUME CloudAssumption, Typed, UploadInv, Step
    PROVE  UploadInv'
<1>1. PiecesTrue'
  BY PiecesStep DEF PiecesTrue
<1>2. SourceKept'
  BY SourceStep
<1>3. SentSoFar'
  <2>1. Sent(command', remote'[command'.id])
    <3>1. CASE command'.at \in {"off", "hashing", "uploaded", "polling", "verifying", "wiping"}
      BY <3>1 DEF Sent
    <3> QED
      BY <3>1, CommandStep
  <2> QED
    BY <2>1 DEF SentSoFar, Server, Id
<1> QED
  BY <1>1, <1>2, <1>3 DEF UploadInv

-----------------------------------------------------------------------------
(* The records.                                                            *)

LEMMA WithRecordReadied ==
    ASSUME Typed, UploadedMeansReady, NEW id \in ClipIds, NEW r,
           r.status = "uploaded" => id \in readied
    PROVE  \A i \in ClipIds : WithRecord(id, r)[i].status = "uploaded" => i \in readied
  BY DEF WithRecord, UploadedMeansReady, NoRecord

LEMMA RecordStep ==
    ASSUME CloudAssumption, Typed, RecordInv, CloudNext
    PROVE  RecordInv'
<1> USE CloudAssumption, Typed
<1>1. readied' = readied \cup {id \in ClipIds : remote'[id].clip = "ready"} /\ Step
  BY DEF CloudNext
<1>a. /\ \A id \in ClipIds : remote[id].clip = "ready" => id \in readied
      /\ UploadedMeansReady
      /\ sync # Idle /\ sync.record.status = "uploaded" => sync.id \in readied
  BY DEF RecordInv
<1>b. \A id \in ClipIds : (remote[id].clip = "ready")' => id \in readied'
  BY <1>1
<1> DEFINE Goal == \A id \in ClipIds : records'[id].status = "uploaded" => id \in readied
<1>c. UNCHANGED records => Goal
  BY <1>a DEF UploadedMeansReady
<1>d. ASSUME command.at # "off", NEW status, NEW known,
             Recorded(status, known) \/ Returns(status, known),
             status = "uploaded" => Server.clip = "ready"
      PROVE  Goal
  <2>1. Id \in ClipIds
    BY <1>d, ActiveTyped
  <2>2. PICK r : r = [status |-> status, remote |-> known, missing |-> FALSE]
    OBVIOUS
  <2>3. records' = WithRecord(Id, r)
    BY <1>d, <2>2 DEF Returns, Recorded
  <2>4. r.status = "uploaded" => Id \in readied
    BY <1>a, <1>d, <2>1, <2>2 DEF Server
  <2> QED
    BY <1>a, <2>1, <2>3, <2>4, WithRecordReadied
<1>2. ASSUME NEW n \in ClipNames, Begin(n) PROVE Goal
  <2>1. files[n] \in Contents
    BY <1>2 DEF Begin, Typed
  <2>2. PICK id \in ClipIds : id = [name |-> n, of |-> files[n]]
    BY <2>1, ContentsAreNat
  <2>3. PICK r : r = [NoRecord EXCEPT !.status = "queued"]
    OBVIOUS
  <2>4. r.status # "uploaded"
    BY <2>3 DEF NoRecord
  <2>5. UNCHANGED records \/ records' = WithRecord(id, r)
    BY <1>2, <2>2, <2>3 DEF Begin
  <2> QED
    BY <1>a, <1>c, <2>4, <2>5, WithRecordReadied
<1>3. ASSUME \/ Hash \/ Create \/ AskProgress \/ PutWhole \/ PutProxy \/ PutDirect
             \/ Acknowledge \/ NoneLeft \/ Complete \/ Wipe
      PROVE  Goal
  <2>1. command.at # "off" /\ (UNCHANGED records \/ Returns("failed", FALSE))
    BY <1>3 DEF Hash, Create, AskProgress, PutWhole, PutProxy, PutDirect, Acknowledge, NoneLeft,
       Complete, Wipe, At, Breaks, Retry
  <2> QED
    BY <1>c, <1>d, <2>1
<1>4. ASSUME NoteUploaded \/ Poll \/ Verify PROVE Goal
  <2>1. /\ command.at # "off"
        /\ \/ UNCHANGED records
           \/ \E status \in {"processing", "uploaded_processing", "failed"} :
                 Recorded(status, TRUE) \/ Returns(status, TRUE)
           \/ Server.clip = "ready" /\ (Recorded("uploaded", TRUE) \/ Returns("uploaded", TRUE))
    BY <1>4 DEF NoteUploaded, Poll, Verify, At, AcceptsReady
  <2> QED
    BY <1>c, <1>d, <2>1
<1>5. ASSUME SyncAnswered PROVE Goal
  <2>1. sync # Idle /\ sync.id \in ClipIds /\ sync.record \in Record
    BY <1>5 DEF SyncAnswered, Typed
  <2>2. PICK r : r = [status |-> IF remote[sync.id].clip = "ready" THEN "uploaded"
                                 ELSE "uploaded_processing", remote |-> TRUE, missing |-> FALSE]
    OBVIOUS
  <2>3. PICK q : q = [sync.record EXCEPT !.missing = TRUE]
    OBVIOUS
  <2>4. r.status = "uploaded" => sync.id \in readied
    BY <1>a, <2>1, <2>2
  <2>5. q.status = "uploaded" => sync.id \in readied
    BY <1>a, <2>1, <2>3 DEF Record
  <2>6. \/ records' = WithRecord(sync.id, r)
        \/ UNCHANGED records
        \/ records' = [i \in ClipIds |-> IF i.name = sync.id.name THEN NoRecord ELSE records[i]]
        \/ records' = WithRecord(sync.id, q)
    BY <1>5, <2>2, <2>3 DEF SyncAnswered
  <2>7. CASE records' = [i \in ClipIds |-> IF i.name = sync.id.name THEN NoRecord ELSE records[i]]
    BY <1>a, <2>7 DEF UploadedMeansReady, NoRecord
  <2> QED
    BY <1>a, <1>c, <2>1, <2>4, <2>5, <2>6, <2>7, WithRecordReadied
<1>6. ASSUME \/ \E n \in ClipNames, m \in ClipNames : Rename(n, m)
             \/ \E id \in ClipIds : SyncBegin(id) \/ ServerProcesses(id) \/ RemoveRemote(id)
             \/ Kill
      PROVE  Goal
  BY <1>6, <1>c DEF Rename, SyncBegin, ServerProcesses, RemoveRemote, Kill
<1>7. Goal
  BY <1>1, <1>2, <1>3, <1>4, <1>5, <1>6 DEF Step
<1>8. UploadedMeansReady'
  BY <1>1, <1>7 DEF UploadedMeansReady
<1>9. ASSUME sync' # Idle, sync'.record.status = "uploaded"
      PROVE  sync'.id \in readied'
  <2>1. CASE UNCHANGED sync
    BY <1>1, <1>9, <1>a, <2>1
  <2>2. CASE \E id \in ClipIds : SyncBegin(id)
    <3>1. PICK id \in ClipIds : SyncBegin(id)
      BY <2>2
    <3>2. sync'.id = id /\ sync'.record = records[id]
      BY <3>1 DEF SyncBegin
    <3> QED
      BY <1>1, <1>9, <1>a, <3>2 DEF UploadedMeansReady
  <2> QED
    BY <1>1, <1>9, <2>1, <2>2 DEF Step, Begin, Rename, Hash, Create, AskProgress, PutWhole,
       PutProxy, PutDirect, Acknowledge, NoneLeft, Complete, NoteUploaded, Poll, Verify, Wipe,
       ServerProcesses, RemoveRemote, SyncAnswered, Kill
<1> QED
  BY <1>b, <1>8, <1>9 DEF RecordInv

-----------------------------------------------------------------------------
(* The parts of a clip lie end to end.                                     *)

LEMMA PartsTile ==
    ASSUME CloudAssumption, NEW of \in Nat
    PROVE  /\ \A k \in Parts : Piece(of, k).offset =
                 IF k = 1 THEN 0 ELSE Piece(of, k - 1).offset + Piece(of, k - 1).length
           /\ Max(Parts) \in Parts
           /\ Piece(of, Max(Parts)).offset + Piece(of, Max(Parts)).length = FileSize
<1> DEFINE P == PartSize
           F == FileSize
           K == (F + P - 1) \div P
<1>1. P \in Nat /\ F \in Nat /\ P >= 1 /\ F >= 1
  BY DEF CloudAssumption
<1>2. K \in Nat /\ K >= 1 /\ P * K <= F + P - 1 /\ F + P - 1 < P * K + P
  BY <1>1
<1>3. Parts = 1 .. K
  BY DEF Parts
<1> HIDE DEF K, P, F
<1>4. \A j \in 1 .. K : P * j <= P * K
  BY <1>1, <1>2
<1>5. \A j \in 1 .. K : (j - 1) * P = P * j - P /\ (j - 1) * P \in Int
  BY <1>1, <1>2
<1>6. \A j \in 1 .. K : Piece(of, j).length = IF P <= F - (j - 1) * P THEN P ELSE F - (j - 1) * P
  BY <1>1, <1>5, MinOfTwo DEF Piece, P, F
<1>7. ASSUME NEW k \in 1 .. K, k # 1
      PROVE  (k - 1) * P = (k - 1 - 1) * P + Piece(of, k - 1).length
  <2>1. k - 1 \in 1 .. K
    BY <1>2, <1>7
  <2>2. (k - 1) * P = (k - 1 - 1) * P + P
    BY <1>1, <1>7
  <2>3. (k - 1) * P <= F
    BY <1>1, <1>2, <1>4, <1>5, <1>7
  <2> QED
    BY <1>1, <1>5, <1>6, <2>1, <2>2, <2>3
<1>8. Max(Parts) = K
  BY <1>2, <1>3 DEF Max
<1>9. (K - 1) * P + Piece(of, K).length = F
  BY <1>1, <1>2, <1>5, <1>6
<1>10. (1 - 1) * P = 0
  BY <1>1
<1> QED
  BY <1>2, <1>3, <1>7, <1>8, <1>9, <1>10 DEF Piece, P, F

LEMMA UploadWhole ==
    ASSUME CloudAssumption, PiecesTrue
    PROVE  UploadIsWhole
<1> SUFFICES ASSUME NEW id \in ClipIds, remote[id].status = "completed"
             PROVE  /\ \A k \in Parts : remote[id].parts[k].of = id.of
                    /\ \A k \in Parts : remote[id].parts[k].offset =
                          IF k = 1 THEN 0
                          ELSE remote[id].parts[k - 1].offset + remote[id].parts[k - 1].length
                    /\ remote[id].parts[Max(Parts)].offset + remote[id].parts[Max(Parts)].length
                          = FileSize
  BY DEF UploadIsWhole
<1>1. \A k \in Parts : remote[id].parts[k] = Piece(id.of, k)
  BY DEF PiecesTrue, Sound
<1>2. id.of \in Nat
  BY ContentsAreNat
<1>3. \A k \in Parts : k # 1 => k - 1 \in Parts
  BY PartsAreNat DEF Parts, CloudAssumption
<1>4. \A k \in Parts : Piece(id.of, k).of = id.of
  BY DEF Piece
<1> QED
  BY <1>1, <1>2, <1>3, <1>4, PartsTile

-----------------------------------------------------------------------------
LEMMA CloudInitially ==
    ASSUME CloudAssumption, CloudInit
    PROVE  CloudInv
<1>1. FirstFiles \in [ClipNames -> Contents \cup {0}]
  BY DEF CloudAssumption, Contents
<1>2. NoUpload \in Upload /\ NoRecord \in Record
  BY NothingTyped DEF NoUpload, Upload, NoRecord, Record, Statuses
<1>3. Typed
  BY <1>1, <1>2 DEF Typed, CloudInit, CloudAssumption
<1>4. \A id \in ClipIds : Sound(id.of, NoUpload)
  BY DEF Sound, NoUpload
<1>5. UploadInv
  BY <1>4 DEF UploadInv, PiecesTrue, SourceKept, SentSoFar, Sent, CloudInit, Idle, Sending
<1>6. RecordInv
  BY DEF RecordInv, UploadedMeansReady, CloudInit, NoUpload, NoRecord
<1> QED
  BY <1>3, <1>5, <1>6 DEF CloudInv

LEMMA CloudStep ==
    ASSUME CloudAssumption, CloudInv, [CloudNext]_cloudVars
    PROVE  CloudInv'
<1>1. CASE CloudNext
  <2>1. Step
    BY <1>1 DEF CloudNext
  <2> QED
    BY <1>1, <2>1, TypedStep, UploadStep, RecordStep DEF CloudInv
<1>2. CASE UNCHANGED cloudVars
  BY <1>2 DEF CloudInv, cloudVars, Typed, UploadInv, PiecesTrue, SourceKept, SentSoFar, Id, Server,
              RecordInv, UploadedMeansReady
<1> QED
  BY <1>1, <1>2

\* However its parts were sent (upload_single, put_proxy_part, put_presigned_part and
\* ack_direct_part), retried, resumed after a kill or started over, an upload the server
\* completed is the clip's own bytes from the first to the last; and no record says uploaded of
\* a clip the server has never got ready (existing_uploaded_record keeps such a clip from being
\* sent again).
THEOREM UploadsStayTrue ==
    ASSUME CloudAssumption
    PROVE  CloudSpec => []UploadsAreTrue
<1>1. CloudInit => CloudInv
  BY CloudInitially
<1>2. CloudInv /\ [CloudNext]_cloudVars => CloudInv'
  BY CloudStep
<1>3. CloudInv => UploadsAreTrue
  BY UploadWhole DEF CloudInv, UploadInv, RecordInv, UploadsAreTrue
<1> QED
  BY <1>1, <1>2, <1>3, PTL DEF CloudSpec

(***************************************************************************)
(* Posters.  Whoever asks for one is answered, however often askers go     *)
(* away and ffmpeg fails, and what is taken for fresh shows the clip.      *)
(***************************************************************************)

Image == [of : Nat, time : Nat]
WorkerState == {"queued", "looking", "reading", "read", "written", "over", "sent", "done"}
Worker == [path : PosterClips, at : WorkerState, owner : {NoView}, of : Nat, temp : Image]
Viewer == [at : {"away", "missed", "waiting", "answered"}, path : PosterClips \cup {0},
           flight : Nat]

PosterTyped ==
    /\ clip \in [PosterClips -> Image] /\ poster \in [PosterClips -> Image]
    /\ clock \in Nat
    /\ flights \in [PosterClips -> Nat]
    /\ \E n \in Nat : worker \in [1 .. n -> Worker]
    /\ view \in [Views -> Viewer]
    /\ overtaken \in SUBSET PosterClips

\* A view that has missed knows its clip, one that waits has a task, and a flight in the map
\* is the task of its clip and not over.
FlightsFly ==
    /\ \A v \in Views : /\ view[v].at = "missed" => view[v].path \in PosterClips
                        /\ view[v].at = "waiting" => view[v].flight \in DOMAIN worker
    /\ \A p \in PosterClips : flights[p] # 0 =>
          flights[p] \in DOMAIN worker /\ PathOf(flights[p]) = p /\ worker[flights[p]].at # "done"

\* No file is from the future, and what a worker reads and has written is its clip.
TimesTrue ==
    \A p \in PosterClips : clip[p].time <= clock /\ poster[p].time <= clock
WorkersTrue ==
    \A f \in DOMAIN worker : PathOf(f) \notin overtaken =>
        /\ worker[f].at \in {"reading", "read", "written"} => worker[f].of = clip[PathOf(f)].of
        /\ worker[f].at = "written" => worker[f].temp.of = clip[PathOf(f)].of
TempsTrue == \A f \in DOMAIN worker : worker[f].temp.time <= clock

PosterInv ==
    /\ PosterTyped /\ FlightsFly /\ TimesTrue /\ WorkersTrue /\ TempsTrue
    /\ FreshPosterShowsClip

-----------------------------------------------------------------------------
LEMMA PosterInitInv == PosterInit => PosterInv
<1> SUFFICES ASSUME PosterInit PROVE PosterInv
  OBVIOUS
<1>1. worker \in [1 .. 0 -> Worker] /\ DOMAIN worker = {}
  BY DEF PosterInit
<1>2. PosterTyped
  <2>1. \E n \in Nat : worker \in [1 .. n -> Worker]
    BY <1>1
  <2> QED
    BY <2>1 DEF PosterInit, PosterTyped, Image, Viewer, NoPoster, Away
<1>3. FlightsFly /\ TimesTrue /\ WorkersTrue /\ TempsTrue
  BY <1>1 DEF PosterInit, FlightsFly, TimesTrue, WorkersTrue, TempsTrue, Away, NoPoster
<1> QED
  BY <1>2, <1>3 DEF PosterInit, PosterInv, FreshPosterShowsClip, Fresh, NoPoster

\* What setting fields of a task leaves of it.
LEMMA PlaceSet ==
    ASSUME NEW task \in Worker, NEW place \in WorkerState, NEW w, w = [task EXCEPT !.at = place]
    PROVE  /\ w \in Worker /\ w.at = place
            /\ w.path = task.path /\ w.of = task.of /\ w.temp = task.temp
  BY DEF Worker

\* One task moves on, and the rest stands still.
LEMMA OneMoves ==
    ASSUME PosterInv, NEW f \in DOMAIN worker, NEW w \in Worker, w.path = PathOf(f),
           worker' = [worker EXCEPT ![f] = w],
           UNCHANGED <<clip, overtaken>>, clock' \in Nat, clock' >= clock,
           w.temp.time <= clock',
           w.path \notin overtaken =>
              /\ w.at \in {"reading", "read", "written"} => w.of = clip[w.path].of
              /\ w.at = "written" => w.temp.of = clip[w.path].of
    PROVE  /\ DOMAIN worker' = DOMAIN worker
           /\ \A g \in DOMAIN worker : worker[g].path = worker'[g].path
           /\ \A g \in DOMAIN worker : g # f => worker'[g] = worker[g]
           /\ worker'[f] = w
           /\ \E n \in Nat : worker' \in [1 .. n -> Worker]
           /\ WorkersTrue' /\ TempsTrue'
<1>1. PICK n \in Nat : worker \in [1 .. n -> Worker]
  BY DEF PosterInv, PosterTyped
<1>2. /\ worker' \in [1 .. n -> Worker] /\ worker'[f] = w
      /\ \A g \in DOMAIN worker : g # f => worker'[g] = worker[g]
  BY <1>1
<1>3. DOMAIN worker' = DOMAIN worker
  BY <1>1, <1>2
<1>4. WorkersTrue'
  BY <1>1, <1>2, <1>3 DEF PosterInv, WorkersTrue, PathOf
<1>5. TempsTrue'
  <2> SUFFICES ASSUME NEW g \in DOMAIN worker PROVE worker'[g].temp.time <= clock'
    BY <1>3 DEF TempsTrue
  <2>1. CASE g = f
    BY <2>1, <1>2
  <2>2. CASE g # f
    <3>1. worker[g].temp.time <= clock /\ worker[g].temp.time \in Nat /\ clock \in Nat
      BY <1>1 DEF PosterInv, TempsTrue, PosterTyped, Worker, Image
    <3> QED
      BY <3>1, <2>2, <1>2
  <2> QED
    BY <2>1, <2>2
<1> QED
  BY <1>1, <1>2, <1>3, <1>4, <1>5 DEF PathOf

LEMMA ViewsOnly ==
    ASSUME PosterInv, UNCHANGED <<clip, poster, clock, flights, worker, overtaken>>,
           view' \in [Views -> Viewer],
           \A v \in Views : /\ view'[v].at = "missed" => view'[v].path \in PosterClips
                            /\ view'[v].at = "waiting" => view'[v].flight \in DOMAIN worker
    PROVE  PosterInv'
<1>1. PosterTyped'
  BY DEF PosterInv, PosterTyped
<1>2. FlightsFly'
  BY DEF PosterInv, FlightsFly, PathOf
<1>3. TimesTrue' /\ WorkersTrue' /\ TempsTrue' /\ FreshPosterShowsClip'
  BY DEF PosterInv, TimesTrue, WorkersTrue, TempsTrue, FreshPosterShowsClip, Fresh, PathOf
<1> QED
  BY <1>1, <1>2, <1>3 DEF PosterInv

LEMMA AskStep ==
    ASSUME PosterInv, NEW v \in Views, NEW p \in PosterClips, Ask(v, p)
    PROVE  PosterInv'
<1>1. /\ view \in [Views -> Viewer] /\ FlightsFly
      /\ UNCHANGED <<clip, poster, clock, flights, worker, overtaken>>
  BY DEF PosterInv, PosterTyped, Ask
<1>2. PICK x \in Viewer : view' = [view EXCEPT ![v] = x] /\ x.at # "waiting"
                          /\ (x.at = "missed" => x.path \in PosterClips)
  <2>1. /\ [Away EXCEPT !.at = "answered"] \in Viewer
        /\ [Away EXCEPT !.at = "missed", !.path = p] \in Viewer
    BY DEF Away, Viewer
  <2> QED
    BY <2>1 DEF Ask, Away
<1> QED
  BY <1>1, <1>2, ViewsOnly DEF FlightsFly

LEMMA JoinStep ==
    ASSUME PosterInv, NEW v \in Views, Join(v)
    PROVE  PosterInv'
<1> DEFINE p == view[v].path
<1>1. /\ view \in [Views -> Viewer] /\ FlightsFly /\ p \in PosterClips
      /\ UNCHANGED <<clip, poster, clock, overtaken>>
  BY DEF PosterInv, PosterTyped, FlightsFly, Join
<1>2. CASE flights[p] # 0
  <2>1. /\ view' = [view EXCEPT ![v].at = "waiting", ![v].flight = flights[p]]
        /\ UNCHANGED <<flights, worker>>
    BY <1>2 DEF Join
  <2>2. flights[p] \in Nat /\ flights[p] \in DOMAIN worker
    BY <1>1, <1>2 DEF PosterInv, PosterTyped, FlightsFly
  <2>3. view' \in [Views -> Viewer] /\ view'[v].at = "waiting" /\ view'[v].flight = flights[p]
        /\ \A u \in Views : u # v => view'[u] = view[u]
    BY <1>1, <2>1, <2>2 DEF Viewer
  <2> QED
    BY <1>1, <2>1, <2>2, <2>3, ViewsOnly DEF FlightsFly
<1>3. CASE flights[p] = 0
  <2>1. PICK n \in Nat : worker \in [1 .. n -> Worker]
    BY DEF PosterInv, PosterTyped
  <2>2. Cardinality(DOMAIN worker) = n
    <3>1. DOMAIN worker = 1 .. n /\ Cardinality(1 .. n) = n
      BY <2>1, FS_Interval
    <3> QED
      BY <3>1
  <2>3. /\ flights' = [flights EXCEPT ![p] = n + 1]
        /\ worker' = [i \in 1 .. n + 1 |-> IF i = n + 1 THEN SpawnedTask(v, p) ELSE worker[i]]
        /\ view' = [view EXCEPT ![v].at = "waiting", ![v].flight = n + 1]
    BY <1>3, <2>2 DEF Join
  <2>4. PICK w : /\ w = SpawnedTask(v, p) /\ w \in Worker /\ w.path = p /\ w.at = "queued"
                 /\ w.temp.time = 0
    <3>1. NoPoster \in Image /\ NoPoster.time = 0
      BY DEF NoPoster, Image
    <3>2. /\ SpawnedTask(v, p) \in Worker /\ SpawnedTask(v, p).path = p
          /\ SpawnedTask(v, p).at = "queued" /\ SpawnedTask(v, p).temp = NoPoster
      BY <1>1, <3>1 DEF SpawnedTask, Task, Worker, WorkerState
    <3> QED
      BY <3>1, <3>2
  <2>5. /\ worker' \in [1 .. n + 1 -> Worker] /\ worker'[n + 1] = w
        /\ \A i \in 1 .. n : worker'[i] = worker[i]
        /\ DOMAIN worker' = 1 .. n + 1 /\ DOMAIN worker = 1 .. n
    BY <2>1, <2>3, <2>4
  <2>6. view' \in [Views -> Viewer] /\ view'[v].at = "waiting" /\ view'[v].flight = n + 1
        /\ \A u \in Views : u # v => view'[u] = view[u]
    <3>1. PICK f \in Nat : f = n + 1
      BY <2>1
    <3>2. view' = [view EXCEPT ![v].at = "waiting", ![v].flight = f]
      BY <2>3, <3>1
    <3>3. view' \in [Views -> Viewer] /\ view'[v].at = "waiting" /\ view'[v].flight = f
          /\ \A u \in Views : u # v => view'[u] = view[u]
      BY <1>1, <3>2 DEF Viewer
    <3> QED
      BY <3>1, <3>3
  <2>7. PosterTyped'
    <3>1. \E m \in Nat : worker' \in [1 .. m -> Worker]
      BY <2>5
    <3> QED
      BY <1>1, <2>3, <2>6, <3>1 DEF PosterInv, PosterTyped
  <2>8. FlightsFly'
    <3>1. \A u \in Views : view'[u].at = "missed" => view'[u].path \in PosterClips
      BY <1>1, <2>6 DEF FlightsFly
    <3>2. \A u \in Views : view'[u].at = "waiting" => view'[u].flight \in 1 .. n + 1
      BY <1>1, <2>5, <2>6 DEF FlightsFly
    <3>3. flights \in [PosterClips -> Nat]
      BY DEF PosterInv, PosterTyped
    <3>4. ASSUME NEW q \in PosterClips, flights'[q] # 0
          PROVE  flights'[q] \in 1 .. n + 1 /\ worker'[flights'[q]].path = q
                 /\ worker'[flights'[q]].at # "done"
      <4>1. CASE q = p
        BY <4>1, <3>3, <2>3, <2>4, <2>5
      <4>2. CASE q # p
        BY <4>2, <3>3, <3>4, <2>3, <2>5, <1>1 DEF FlightsFly, PathOf
      <4> QED
        BY <4>1, <4>2
    <3> QED
      BY <3>1, <3>2, <3>4, <2>5 DEF FlightsFly, PathOf
  <2>9. TimesTrue' /\ WorkersTrue' /\ FreshPosterShowsClip'
    BY <1>1, <2>4, <2>5 DEF PosterInv, TimesTrue, WorkersTrue, FreshPosterShowsClip, Fresh, PathOf
  <2>10. TempsTrue'
    <3>1. clock \in Nat /\ \A i \in 1 .. n : worker[i].temp.time <= clock
      BY <2>5 DEF PosterInv, TempsTrue, PosterTyped
    <3> SUFFICES ASSUME NEW i \in 1 .. n + 1 PROVE worker'[i].temp.time <= clock
      BY <1>1, <2>5 DEF TempsTrue
    <3>2. CASE i = n + 1
      BY <3>1, <3>2, <2>4, <2>5
    <3>3. CASE i # n + 1
      BY <3>1, <3>3, <2>1, <2>5
    <3> QED
      BY <3>2, <3>3
  <2> QED
    BY <2>7, <2>8, <2>9, <2>10 DEF PosterInv
<1> QED
  BY <1>2, <1>3

LEMMA AnswerStep ==
    ASSUME PosterInv, NEW v \in Views, Answer(v)
    PROVE  PosterInv'
<1>1. /\ view \in [Views -> Viewer] /\ FlightsFly
      /\ UNCHANGED <<clip, poster, clock, flights, worker, overtaken>>
  BY DEF PosterInv, PosterTyped, Answer
<1>2. PICK x \in Viewer : view' = [view EXCEPT ![v] = x] /\ x.at = "answered"
  <2>1. [Away EXCEPT !.at = "answered"] \in Viewer
    BY DEF Away, Viewer
  <2> QED
    BY <2>1 DEF Answer, Away
<1> QED
  BY <1>1, <1>2, ViewsOnly DEF FlightsFly

LEMMA LeaveStep ==
    ASSUME PosterAssumption, PosterInv, NEW v \in Views, Leave(v)
    PROVE  PosterInv'
<1>1. PICK n \in Nat : worker \in [1 .. n -> Worker]
  BY DEF PosterInv, PosterTyped
<1>2. worker' = worker
  BY <1>1 DEF Leave, PosterAssumption, Worker
<1>3. /\ view \in [Views -> Viewer] /\ FlightsFly
      /\ UNCHANGED <<clip, poster, clock, flights, overtaken>>
  BY DEF PosterInv, PosterTyped, Leave
<1>4. Away \in Viewer /\ Away.at = "away" /\ view' = [view EXCEPT ![v] = Away]
  BY DEF Away, Viewer, Leave
<1> QED
  BY <1>2, <1>3, <1>4, ViewsOnly DEF FlightsFly

-----------------------------------------------------------------------------
\* A task that moves on without touching a file.
LEMMA WorkerOnly ==
    ASSUME PosterInv, NEW f \in DOMAIN worker, NEW w \in Worker, w.path = PathOf(f),
           worker' = [worker EXCEPT ![f] = w],
           UNCHANGED <<clip, poster, view, overtaken>>, clock' \in Nat, clock' >= clock,
           flights' \in [PosterClips -> Nat],
           \A p \in PosterClips : flights'[p] \in {0, flights[p]},
           w.at = "done" => \A p \in PosterClips : flights'[p] # f,
           w.temp.time <= clock',
           w.path \notin overtaken =>
              /\ w.at \in {"reading", "read", "written"} => w.of = clip[w.path].of
              /\ w.at = "written" => w.temp.of = clip[w.path].of
    PROVE  PosterInv'
<1>1. /\ DOMAIN worker' = DOMAIN worker
      /\ \A g \in DOMAIN worker : worker[g].path = worker'[g].path
      /\ \A g \in DOMAIN worker : g # f => worker'[g] = worker[g]
      /\ worker'[f] = w
      /\ \E n \in Nat : worker' \in [1 .. n -> Worker]
      /\ WorkersTrue' /\ TempsTrue'
  BY OneMoves
<1>2. PosterTyped'
  BY <1>1 DEF PosterInv, PosterTyped
<1>3. FlightsFly'
  <2>1. \A v \in Views : /\ view'[v].at = "missed" => view'[v].path \in PosterClips
                         /\ view'[v].at = "waiting" => view'[v].flight \in DOMAIN worker'
    BY <1>1 DEF PosterInv, FlightsFly
  <2>2. ASSUME NEW p \in PosterClips, flights'[p] # 0
        PROVE  /\ flights'[p] \in DOMAIN worker' /\ worker'[flights'[p]].path = p
               /\ worker'[flights'[p]].at # "done"
    <3>1. /\ flights'[p] = flights[p] /\ flights[p] \in DOMAIN worker
          /\ worker[flights[p]].path = p /\ worker[flights[p]].at # "done"
      BY <2>2 DEF PosterInv, FlightsFly, PathOf
    <3> QED
      BY <1>1, <3>1
  <2> QED
    BY <2>1, <2>2 DEF FlightsFly, PathOf
<1>4. TimesTrue'
  BY DEF PosterInv, PosterTyped, TimesTrue, Image
<1>5. FreshPosterShowsClip'
  BY DEF PosterInv, FreshPosterShowsClip, Fresh
<1> QED
  BY <1>1, <1>2, <1>3, <1>4, <1>5 DEF PosterInv

\* Of a step of this task that changes nothing but where it is.
LEMMA MovesTo ==
    ASSUME PosterInv, NEW f \in DOMAIN worker, NEW place \in WorkerState, WorkerAt(f, place),
           place # "done", place # "written",
           place \in {"reading", "read"} => worker[f].at \in {"reading", "read"},
           UNCHANGED <<clip, poster, clock, flights, view, overtaken>>
    PROVE  PosterInv'
<1>1. /\ worker[f] \in Worker /\ clock \in Nat /\ flights \in [PosterClips -> Nat]
      /\ worker[f].temp.time <= clock
  BY DEF PosterInv, PosterTyped, TempsTrue
<1>2. PICK w : w = [worker[f] EXCEPT !.at = place]
  OBVIOUS
<1>3. /\ w \in Worker /\ w.path = PathOf(f) /\ w.at = place
      /\ w.of = worker[f].of /\ w.temp = worker[f].temp
  BY <1>1, <1>2, PlaceSet DEF PathOf
<1>4. worker' = [worker EXCEPT ![f] = w]
  BY <1>2 DEF WorkerAt
<1>5. w.path \notin overtaken =>
         /\ w.at \in {"reading", "read", "written"} => w.of = clip[w.path].of
         /\ w.at = "written" => w.temp.of = clip[w.path].of
  BY <1>3 DEF PosterInv, WorkersTrue
<1>6. /\ clock' \in Nat /\ clock' >= clock /\ flights' \in [PosterClips -> Nat]
      /\ \A p \in PosterClips : flights'[p] \in {0, flights[p]}
      /\ w.at = "done" => \A p \in PosterClips : flights'[p] # f
      /\ w.temp.time <= clock'
  BY <1>1, <1>3
<1> QED
  BY <1>3, <1>4, <1>5, <1>6, WorkerOnly

LEMMA SmallSteps ==
    ASSUME PosterInv, NEW f \in DOMAIN worker,
           Acquire(f) \/ ChildExits(f) \/ Fail(f) \/ SendResult(f)
    PROVE  PosterInv'
<1>1. CASE Acquire(f)
  BY <1>1, MovesTo DEF Acquire, WorkerState
<1>2. CASE ChildExits(f)
  BY <1>2, MovesTo DEF ChildExits, WorkerState, WorkerIs
<1>3. CASE Fail(f)
  BY <1>3, MovesTo DEF Fail, WorkerState
<1>4. CASE SendResult(f)
  BY <1>4, MovesTo DEF SendResult, WorkerState
<1> QED
  BY <1>1, <1>2, <1>3, <1>4

LEMMA LookStep ==
    ASSUME PosterInv, NEW f \in DOMAIN worker, Look(f)
    PROVE  PosterInv'
<1>1. /\ worker[f] \in Worker /\ clock \in Nat /\ flights \in [PosterClips -> Nat]
      /\ worker[f].temp.time <= clock /\ clip \in [PosterClips -> Image]
      /\ UNCHANGED <<clip, poster, clock, flights, view, overtaken>>
  BY DEF PosterInv, PosterTyped, TempsTrue, Look
<1>2. PICK place \in {"over", "reading"} :
         worker' = [worker EXCEPT ![f].at = place, ![f].of = clip[PathOf(f)].of]
  BY DEF Look
<1>3. PICK w : w = [worker[f] EXCEPT !.at = place, !.of = clip[PathOf(f)].of]
  OBVIOUS
<1>4. PathOf(f) \in PosterClips /\ clip[PathOf(f)].of \in Nat /\ place \in WorkerState
  BY <1>1 DEF Worker, PathOf, WorkerState, Image
<1>5. /\ w \in Worker /\ w.path = PathOf(f) /\ w.at = place
      /\ w.of = clip[w.path].of /\ w.temp = worker[f].temp
  <2>1. PICK task \in Worker : task = worker[f]
    BY <1>1
  <2>2. PICK seen \in Nat : seen = clip[PathOf(f)].of
    BY <1>4
  <2>3. w = [task EXCEPT !.at = place, !.of = seen]
    BY <1>3, <2>1, <2>2
  <2>4. /\ w \in Worker /\ w.path = task.path /\ w.at = place /\ w.of = seen
        /\ w.temp = task.temp
    BY <1>4, <2>3 DEF Worker
  <2> QED
    BY <2>1, <2>2, <2>4 DEF PathOf
<1>6. worker' = [worker EXCEPT ![f] = w]
  BY <1>2, <1>3
<1>7. /\ clock' \in Nat /\ clock' >= clock /\ flights' \in [PosterClips -> Nat]
      /\ \A p \in PosterClips : flights'[p] \in {0, flights[p]}
      /\ w.at = "done" => \A p \in PosterClips : flights'[p] # f
      /\ w.temp.time <= clock'
  BY <1>1, <1>5
<1> QED
  BY <1>1, <1>5, <1>6, <1>7, WorkerOnly

LEMMA WriteTempStep ==
    ASSUME PosterInv, NEW f \in DOMAIN worker, WriteTemp(f)
    PROVE  PosterInv'
<1>1. /\ worker[f] \in Worker /\ clock \in Nat /\ flights \in [PosterClips -> Nat]
      /\ clock' = clock + 1 /\ worker[f].at = "read"
      /\ UNCHANGED <<clip, poster, flights, view, overtaken>>
  BY DEF PosterInv, PosterTyped, WriteTemp, WorkerIs
<1>2. PICK image : image = [of |-> worker[f].of, time |-> clock']
  OBVIOUS
<1>3. worker[f].of \in Nat /\ clock' \in Nat
  BY <1>1 DEF Worker
<1>4. image \in Image /\ image.of = worker[f].of /\ image.time = clock'
  BY <1>2, <1>3 DEF Image
<1>5. PICK w : w = [worker[f] EXCEPT !.at = "written", !.temp = image]
  OBVIOUS
<1>6. /\ w \in Worker /\ w.path = PathOf(f) /\ w.temp = image /\ w.at = "written"
      /\ w.of = worker[f].of
  <2>1. "written" \in WorkerState
    BY DEF WorkerState
  <2>2. PICK task \in Worker : task = worker[f]
    BY <1>1
  <2>3. w = [task EXCEPT !.at = "written", !.temp = image]
    BY <1>5, <2>2
  <2>4. /\ w \in Worker /\ w.path = task.path /\ w.at = "written" /\ w.of = task.of
        /\ w.temp = image
    BY <1>4, <2>1, <2>3 DEF Worker
  <2> QED
    BY <2>2, <2>4 DEF PathOf
<1>7. worker' = [worker EXCEPT ![f] = w]
  BY <1>2, <1>5 DEF WriteTemp
<1>8. w.path \notin overtaken => w.of = clip[w.path].of /\ w.temp.of = clip[w.path].of
  BY <1>1, <1>4, <1>6 DEF PosterInv, WorkersTrue
<1>9. /\ clock' \in Nat /\ clock' >= clock /\ flights' \in [PosterClips -> Nat]
      /\ \A p \in PosterClips : flights'[p] \in {0, flights[p]}
      /\ w.at = "done" => \A p \in PosterClips : flights'[p] # f
      /\ w.temp.time <= clock'
  BY <1>1, <1>3, <1>4, <1>6
<1> QED
  BY <1>1, <1>6, <1>7, <1>8, <1>9, WorkerOnly

LEMMA ForgetStep ==
    ASSUME PosterInv, NEW f \in DOMAIN worker, Forget(f)
    PROVE  PosterInv'
<1>1. /\ worker[f] \in Worker /\ clock \in Nat /\ flights \in [PosterClips -> Nat]
      /\ worker[f].temp.time <= clock /\ FlightsFly
      /\ UNCHANGED <<clip, poster, clock, view, overtaken>>
  BY DEF PosterInv, PosterTyped, TempsTrue, Forget
<1>2. PICK w : w = [worker[f] EXCEPT !.at = "done"]
  OBVIOUS
<1>3. /\ w \in Worker /\ w.path = PathOf(f) /\ w.at = "done" /\ w.temp = worker[f].temp
      /\ worker' = [worker EXCEPT ![f] = w]
  <2>1. worker' = [worker EXCEPT ![f] = w]
    BY <1>2 DEF Forget, WorkerAt
  <2> QED
    BY <1>1, <1>2, <2>1, PlaceSet DEF PathOf, WorkerState
<1>4. /\ flights' \in [PosterClips -> Nat]
      /\ \A p \in PosterClips : flights'[p] \in {0, flights[p]}
      /\ PathOf(f) \in PosterClips =>
            flights'[PathOf(f)] = (IF flights[PathOf(f)] = f THEN 0 ELSE flights[PathOf(f)])
  BY <1>1 DEF Forget
<1>5. PICK n \in Nat : worker \in [1 .. n -> Worker]
  BY DEF PosterInv, PosterTyped
<1>6. \A p \in PosterClips : flights'[p] # f
  BY <1>1, <1>4, <1>5 DEF FlightsFly
<1>7. /\ clock' \in Nat /\ clock' >= clock /\ w.temp.time <= clock'
      /\ w.at \notin {"reading", "read", "written"}
  BY <1>1, <1>3
<1> QED
  BY <1>1, <1>3, <1>4, <1>6, <1>7, WorkerOnly

LEMMA PublishStep ==
    ASSUME PosterInv, NEW f \in DOMAIN worker, Publish(f)
    PROVE  PosterInv'
<1>1. /\ worker[f] \in Worker /\ clock \in Nat /\ clock' = clock /\ worker[f].at = "written"
      /\ worker[f].temp.time <= clock /\ FlightsFly
      /\ poster \in [PosterClips -> Image]
      /\ UNCHANGED <<clip, flights, view, overtaken>>
  BY DEF PosterInv, PosterTyped, TempsTrue, Publish, WorkerIs
<1>2. PICK w : w = [worker[f] EXCEPT !.at = "over"]
  OBVIOUS
<1>3. /\ w \in Worker /\ w.path = PathOf(f) /\ w.at = "over" /\ w.temp = worker[f].temp
      /\ worker' = [worker EXCEPT ![f] = w]
  <2>1. worker' = [worker EXCEPT ![f] = w]
    BY <1>2 DEF Publish, WorkerAt
  <2> QED
    BY <1>1, <1>2, <2>1, PlaceSet DEF PathOf, WorkerState
<1>4. /\ DOMAIN worker' = DOMAIN worker
      /\ \A g \in DOMAIN worker : worker[g].path = worker'[g].path
      /\ \A g \in DOMAIN worker : g # f => worker'[g] = worker[g]
      /\ worker'[f] = w
      /\ \E n \in Nat : worker' \in [1 .. n -> Worker]
      /\ WorkersTrue' /\ TempsTrue'
  <2>1. /\ clock' \in Nat /\ clock' >= clock /\ w.temp.time <= clock'
        /\ w.at \notin {"reading", "read", "written"}
    BY <1>1, <1>3
  <2> QED
    BY <1>1, <1>3, <2>1, OneMoves
<1>5. PathOf(f) \in PosterClips /\ poster' = [poster EXCEPT ![PathOf(f)] = worker[f].temp]
      /\ worker[f].temp \in Image
  BY <1>1 DEF Worker, PathOf, Publish
<1>6. PosterTyped'
  BY <1>1, <1>4, <1>5 DEF PosterInv, PosterTyped
<1>7. FlightsFly'
  BY <1>1, <1>3, <1>4 DEF FlightsFly, PathOf
<1>8. TimesTrue'
  BY <1>1, <1>5 DEF PosterInv, TimesTrue
<1>9. PathOf(f) \notin overtaken => worker[f].temp.of = clip[PathOf(f)].of
  BY <1>1 DEF PosterInv, WorkersTrue
<1>10. FreshPosterShowsClip'
  BY <1>1, <1>5, <1>9 DEF PosterInv, FreshPosterShowsClip, Fresh
<1> QED
  BY <1>4, <1>6, <1>7, <1>8, <1>10 DEF PosterInv

-----------------------------------------------------------------------------
\* A clip that was replaced is younger than its poster, or has none, and a task that has
\* begun to read the one before is overtaken.
LEMMA ReplacedStep ==
    ASSUME PosterInv, NEW p \in PosterClips, NEW time \in Nat, NEW image \in Image,
           Replaced(p, time, image), time <= clock + 1,
           image.time <= clock, image.of = 0 \/ image.time < time
    PROVE  PosterInv'
<1>1. /\ clock \in Nat /\ clock' = clock + 1 /\ FlightsFly
      /\ clip \in [PosterClips -> Image] /\ poster \in [PosterClips -> Image]
      /\ clip' = [clip EXCEPT ![p] = [of |-> clock', time |-> time]]
      /\ poster' = [poster EXCEPT ![p] = image]
      /\ overtaken \in SUBSET PosterClips
      /\ overtaken' \in SUBSET PosterClips /\ overtaken \subseteq overtaken'
      /\ UNCHANGED <<flights, worker, view>>
  BY DEF PosterInv, PosterTyped, Replaced
<1>2. [of |-> clock', time |-> time] \in Image
  BY <1>1 DEF Image
<1>3. PosterTyped'
  <2>1. clip' \in [PosterClips -> Image] /\ poster' \in [PosterClips -> Image]
    BY <1>1, <1>2
  <2>2. clock' \in Nat
    BY <1>1
  <2>3. /\ flights' \in [PosterClips -> Nat] /\ \E n \in Nat : worker' \in [1 .. n -> Worker]
        /\ view' \in [Views -> Viewer]
    BY <1>1 DEF PosterInv, PosterTyped
  <2> QED
    BY <1>1, <2>1, <2>2, <2>3 DEF PosterTyped
<1>4. FlightsFly'
  BY <1>1 DEF FlightsFly, PathOf
<1>5. TimesTrue'
  BY <1>1, <1>2 DEF PosterInv, TimesTrue, Image
<1>6. TempsTrue'
  <2>1. PICK n \in Nat : worker \in [1 .. n -> Worker]
    BY DEF PosterInv, PosterTyped
  <2>2. \A f \in DOMAIN worker : worker[f].temp.time \in Nat
    BY <2>1 DEF Worker, Image
  <2> QED
    BY <1>1, <2>2 DEF PosterInv, TempsTrue
<1>7. WorkersTrue'
  <2> SUFFICES ASSUME NEW f \in DOMAIN worker, PathOf(f) \notin overtaken',
                      worker[f].at \in {"reading", "read", "written"}
               PROVE  /\ worker[f].of = clip'[PathOf(f)].of
                      /\ worker[f].at = "written" => worker[f].temp.of = clip'[PathOf(f)].of
    BY <1>1 DEF WorkersTrue, PathOf
  <2>1. PathOf(f) # p
    BY DEF Replaced
  <2> QED
    BY <1>1, <2>1 DEF PosterInv, WorkersTrue
<1>8. FreshPosterShowsClip'
  BY <1>1, <1>2 DEF PosterInv, FreshPosterShowsClip, Fresh, Image
<1> QED
  BY <1>3, <1>4, <1>5, <1>6, <1>7, <1>8 DEF PosterInv

LEMMA ClipSteps ==
    ASSUME PosterInv, NEW p \in PosterClips, Overwrite(p) \/ RenameOnto(p)
    PROVE  PosterInv'
<1>1. clock \in Nat /\ poster[p] \in Image /\ poster[p].time <= clock /\ poster[p].time \in Nat
  BY DEF PosterInv, PosterTyped, TimesTrue, Image
<1>2. CASE Overwrite(p)
  <2>1. Replaced(p, clock + 1, poster[p])
    BY <1>2 DEF Overwrite
  <2>2. /\ clock + 1 \in Nat /\ clock + 1 <= clock + 1
        /\ poster[p].of = 0 \/ poster[p].time < clock + 1
    BY <1>1
  <2> QED
    BY <1>1, <2>1, <2>2, ReplacedStep
<1>3. CASE RenameOnto(p)
  <2>1. PICK time \in 1 .. clock : Replaced(p, time, NoPoster)
    BY <1>3 DEF RenameOnto
  <2>2. NoPoster \in Image /\ NoPoster.time = 0 /\ NoPoster.of = 0
    BY DEF NoPoster, Image
  <2>3. time \in Nat /\ time <= clock + 1 /\ NoPoster.time <= clock
    BY <1>1, <2>2
  <2> QED
    BY <2>1, <2>2, <2>3, ReplacedStep
<1> QED
  BY <1>2, <1>3

-----------------------------------------------------------------------------
LEMMA PosterInvStep ==
    ASSUME PosterAssumption, PosterInv, [PosterNext]_posterVars
    PROVE  PosterInv'
<1>1. CASE UNCHANGED posterVars
  BY <1>1, ViewsOnly DEF posterVars, PosterInv, PosterTyped, FlightsFly
<1>2. CASE \E v \in Views : (\E p \in PosterClips : Ask(v, p)) \/ Join(v) \/ Answer(v) \/ Leave(v)
  BY <1>2, AskStep, JoinStep, AnswerStep, LeaveStep
<1>3. CASE \E f \in DOMAIN worker : \/ Acquire(f) \/ Look(f) \/ ChildExits(f) \/ Fail(f)
                                    \/ WriteTemp(f) \/ Publish(f) \/ SendResult(f) \/ Forget(f)
  BY <1>3, SmallSteps, LookStep, WriteTempStep, PublishStep, ForgetStep
<1>4. CASE \E p \in PosterClips : Overwrite(p) \/ RenameOnto(p)
  BY <1>4, ClipSteps
<1> QED
  BY <1>1, <1>2, <1>3, <1>4 DEF PosterNext

\* Whatever views come and go and whichever clips are replaced, a poster taken for fresh is of
\* the clip that is there, and nobody waits for a task that was dropped (clip_poster,
\* PosterExtractionCoordinator::run, ensure_poster).
THEOREM PostersStayTrue == PosterSpec => []PostersAreTrue
<1>1. PosterInit => PosterInv
  BY PosterInitInv
<1>2. PosterInv /\ [PosterNext]_posterVars => PosterInv'
  BY PosterInvStep, PosterAssumption
<1>3. PosterInv => PostersAreTrue
  <2> SUFFICES ASSUME PosterInv PROVE NobodyStranded
    BY DEF PosterInv, PostersAreTrue
  <2>1. PICK n \in Nat : worker \in [1 .. n -> Worker]
    BY DEF PosterInv, PosterTyped
  <2>2. \A f \in DOMAIN worker : worker[f].at # "dropped"
    BY <2>1 DEF Worker, WorkerState
  <2> QED
    BY <2>2 DEF PosterInv, FlightsFly, NobodyStranded
<1> QED
  BY <1>1, <1>2, <1>3, PTL DEF PosterSpec

(***************************************************************************)
(* Sharing.  What the newest copy put on the clipboard stays there, and a  *)
(* clip the user was told of holds the range he was told.                  *)
(***************************************************************************)

CopyJob == [generation : Nat, what : Selections \cup {Original}, tries : Nat,
            tmp : {NoContent, "whole", "part"}, newest : BOOLEAN,
            at : {"look", "export", "publish", "check", "copy"}]

CopyTyped(job) ==
    /\ job \in CopyJob /\ job.newest = TRUE
    /\ job.at \in {"look", "export", "publish"} => job.what \in Selections
    /\ job.at = "publish" => job.tmp = "whole"

\* What the newest copy put on the clipboard is there, a copy past its check was the newest
\* when it was checked, and the cache holds whole exports only.
CopiesTrue ==
    /\ copyGeneration \in Nat
    /\ exports \in [Selections -> {NoContent, "whole"}]
    /\ \A job \in copies : CopyTyped(job)
    /\ ~met => (latest # NoContent => clipboard = latest)
    /\ clipboard[2] \in {NoContent, "whole"}

SavedNames == Titles \X CopyNumbers

SavingTyped(job) ==
    /\ job = [id |-> job.id, range |-> job.range, tmp |-> job.tmp, target |-> job.target,
              at |-> job.at]
    /\ job.range \in Ranges /\ job.tmp \in CopyNumbers
    /\ job.at = "rename" => job.target \in SavedNames

\* The temporary file of a clip that was cut holds its range.
TempKept(job) == job.at # "trim" => halfSaved[job.tmp] \in {NoContent, job.range}

\* The name a clip has chosen is nobody's yet.
NameFree(job) == job.at = "rename" => \A t \in promised : t[1] # job.target

SavingsTrue ==
    /\ saved \in [SavedNames -> Ranges \cup {NoContent}]
    /\ halfSaved \in [CopyNumbers -> Ranges \cup {NoContent}]
    /\ \A job \in savings : SavingTyped(job)
    /\ promised \subseteq SavedNames \X Ranges
    /\ ~met => \A job \in savings : TempKept(job) /\ NameFree(job)
    /\ ~met => \A t \in promised : saved[t[1]] = t[2]

SharingInv == CopiesTrue /\ SavingsTrue

-----------------------------------------------------------------------------
LEMMA SharingInitInv == SharingInit => SharingInv
  BY DEF SharingInit, SharingInv, CopiesTrue, SavingsTrue, SavedNames

\* The steps of copies leave the clips alone, and the other way round.
LEMMA CopiesAlone ==
    ASSUME SharingInv, CopiesTrue', met => met', UNCHANGED <<savings, saved, halfSaved, promised>>
    PROVE  SharingInv'
  BY DEF SharingInv, SavingsTrue, SavingTyped, TempKept, NameFree

LEMMA ClipsAlone ==
    ASSUME SharingInv, SavingsTrue', met => met',
           UNCHANGED <<copyGeneration, copies, exports, clipboard, latest>>
    PROVE  SharingInv'
  BY DEF SharingInv, CopiesTrue

LEMMA AskCopySteps ==
    ASSUME SharingInv,
           CancelCopies \/ \E what \in Selections \cup {Original} : BeginCopy(what)
    PROVE  SharingInv'
<1>1. /\ UNCHANGED <<exports, clipboard, savings, saved, halfSaved, promised, met>>
      /\ copyGeneration' = copyGeneration + 1 /\ copyGeneration \in Nat /\ latest' = NoContent
  BY DEF CancelCopies, BeginCopy, SharingInv, CopiesTrue
<1>2. \A job \in copies' : CopyTyped(job)
  <2>1. CASE CancelCopies
    BY <2>1 DEF CancelCopies, SharingInv, CopiesTrue
  <2>2. CASE \E what \in Selections \cup {Original} : BeginCopy(what)
    <3>1. PICK what \in Selections \cup {Original} : BeginCopy(what)
      BY <2>2
    <3> DEFINE new == [generation |-> copyGeneration + 1, what |-> what, tries |-> 0,
                       tmp |-> NoContent, newest |-> TRUE,
                       at |-> IF what = Original THEN "check" ELSE "look"]
    <3>2. copies' = copies \cup {new}
      BY <3>1 DEF BeginCopy
    <3>3. CopyTyped(new)
      BY <1>1 DEF CopyTyped, CopyJob
    <3> QED
      BY <3>2, <3>3 DEF SharingInv, CopiesTrue
  <2> QED
    BY <2>1, <2>2
<1>3. CopiesTrue'
  BY <1>1, <1>2 DEF SharingInv, CopiesTrue, CopyTyped
<1> QED
  BY <1>1, <1>3, CopiesAlone

\* A copy goes on to another state, or ends, without touching a file.
LEMMA CopyBecomes ==
    ASSUME SharingInv, NEW job \in copies, NEW next, CopyTyped(next),
           Becomes(job, next) \/ Ends(job),
           UNCHANGED <<copyGeneration, clipboard, latest, met, savings, saved, halfSaved,
                        promised>>,
           exports' \in [Selections -> {NoContent, "whole"}]
    PROVE  SharingInv'
<1>1. CopiesTrue'
  BY DEF SharingInv, CopiesTrue, CopyTyped, Becomes, Ends
<1> QED
  BY <1>1, CopiesAlone

LEMMA TriedOnce ==
    ASSUME NEW job, CopyTyped(job)
    PROVE  CopyTyped([job EXCEPT !.tries = @ + 1])
<1>1. job \in CopyJob /\ job.tries + 1 \in Nat
  BY DEF CopyTyped, CopyJob
<1> QED
  BY <1>1 DEF CopyTyped, CopyJob

LEMMA CopySteps ==
    ASSUME SharingInv, NEW job \in copies,
           \/ LookUp(job)
           \/ \E outcome \in {"succeeds", "fails", "times out", "cancelled"} :
                  TryEncoder(job, outcome)
           \/ \E replaced \in BOOLEAN : PublishExport(job, replaced)
           \/ Check(job) \/ CopyFails(job)
    PROVE  SharingInv'
<1>1. CopyTyped(job) /\ job \in CopyJob /\ exports \in [Selections -> {NoContent, "whole"}]
  BY DEF SharingInv, CopiesTrue, CopyTyped
<1>2. CASE LookUp(job)
  <2>1. PICK place \in {"export", "check"} : Becomes(job, [job EXCEPT !.at = place])
    BY <1>2 DEF LookUp
  <2>2. CopyTyped([job EXCEPT !.at = place])
    BY <1>1, <1>2 DEF LookUp, CopyTyped, CopyJob
  <2> QED
    BY <1>1, <1>2, <2>1, <2>2, CopyBecomes DEF LookUp, CopyChanges
<1>3. CASE \E outcome \in {"succeeds", "fails", "times out", "cancelled"} : TryEncoder(job, outcome)
  <2>1. PICK outcome \in {"succeeds", "fails", "times out", "cancelled"} : TryEncoder(job, outcome)
    BY <1>3
  <2>2. CASE outcome = "succeeds"
    <3>1. Becomes(job, [job EXCEPT !.at = "publish", !.tmp = "whole"])
      BY <2>1, <2>2 DEF TryEncoder, Succeeds
    <3>2. CopyTyped([job EXCEPT !.at = "publish", !.tmp = "whole"])
      BY <1>1, <2>1 DEF TryEncoder, CopyTyped, CopyJob
    <3> QED
      BY <1>1, <2>1, <3>1, <3>2, CopyBecomes DEF TryEncoder, CopyChanges
  <2>3. CASE outcome # "succeeds"
    <3>1. Ends(job) \/ Becomes(job, [job EXCEPT !.tries = @ + 1])
      BY <2>1, <2>3 DEF TryEncoder, Succeeds
    <3>2. CopyTyped([job EXCEPT !.tries = @ + 1])
      BY <1>1, TriedOnce
    <3> QED
      BY <1>1, <2>1, <3>1, <3>2, CopyBecomes DEF TryEncoder, CopyChanges
  <2> QED
    BY <2>2, <2>3
<1>4. CASE \E replaced \in BOOLEAN : PublishExport(job, replaced)
  <2>1. job.at = "publish" /\ Becomes(job, [job EXCEPT !.at = "check"])
    BY <1>4 DEF PublishExport
  <2>2. CopyTyped([job EXCEPT !.at = "check"])
    BY <1>1 DEF CopyTyped, CopyJob
  <2>3. exports' \in [Selections -> {NoContent, "whole"}]
    BY <1>1, <1>4, <2>1 DEF PublishExport, CopyTyped
  <2> QED
    BY <1>4, <2>1, <2>2, <2>3, CopyBecomes DEF PublishExport, CopyChanges
<1>5. CASE Check(job)
  <2>1. Becomes(job, [job EXCEPT !.at = "copy", !.newest = TRUE]) \/ Ends(job)
    BY <1>5 DEF Check, Active
  <2>2. CopyTyped([job EXCEPT !.at = "copy", !.newest = TRUE])
    BY <1>1 DEF CopyTyped, CopyJob
  <2> QED
    BY <1>1, <1>5, <2>1, <2>2, CopyBecomes DEF Check, CopyChanges
<1>6. CASE CopyFails(job)
  BY <1>1, <1>6, CopyBecomes DEF CopyFails, CopyChanges
<1> QED
  BY <1>2, <1>3, <1>4, <1>5, <1>6

\* A copy reaches the clipboard as the newest, or has been cancelled after its check.
LEMMA CopyStep ==
    ASSUME SharingInv, NEW job \in copies, Copy(job)
    PROVE  SharingInv'
<1> DEFINE held == <<job.what, IF job.what = Original THEN "whole" ELSE exports[job.what]>>
<1>1. /\ job.newest = TRUE /\ job.what \in Selections \cup {Original}
      /\ exports \in [Selections -> {NoContent, "whole"}]
  BY DEF SharingInv, CopiesTrue, CopyTyped, CopyJob
<1>2. held[2] \in {NoContent, "whole"}
  BY <1>1
<1>3. /\ clipboard' = held /\ latest' = (IF Cancelled(job) THEN latest ELSE held)
      /\ met' = (met \/ (job.newest /\ Cancelled(job))) /\ copies' \subseteq copies
      /\ UNCHANGED <<copyGeneration, exports, savings, saved, halfSaved, promised>>
  BY DEF Copy, Ends, CopyChanges
<1> HIDE DEF held
<1>4. ~met' => ~Cancelled(job) /\ ~met
  BY <1>1, <1>3
<1>5. CopiesTrue'
  <2>1. \A one \in copies' : CopyTyped(one)
    BY <1>3 DEF SharingInv, CopiesTrue
  <2>2. ~met' => latest' = clipboard'
    BY <1>3, <1>4
  <2> QED
    BY <1>1, <1>2, <1>3, <2>1, <2>2 DEF SharingInv, CopiesTrue, CopyTyped
<1> QED
  BY <1>3, <1>4, <1>5, CopiesAlone

-----------------------------------------------------------------------------
LEMMA BeginClipStep ==
    ASSUME SharingInv, NEW range \in Ranges, BeginClip(range)
    PROVE  SharingInv'
<1>1. PICK s \in CopyNumbers :
         savings' = savings \cup {[id |-> sharing.clips, range |-> range, tmp |-> s,
                                   target |-> NoContent, at |-> "trim"]}
  BY DEF BeginClip, FirstFree
<1>2. UNCHANGED <<saved, halfSaved, promised, met, copyGeneration, copies, exports, clipboard,
                  latest>>
  BY DEF BeginClip, ClipChanges
<1>3. PICK new : new = [id |-> sharing.clips, range |-> range, tmp |-> s, target |-> NoContent,
                        at |-> "trim"]
  OBVIOUS
<1>4. SavingTyped(new) /\ new.at = "trim"
  BY <1>3 DEF SavingTyped
<1>5. savings' = savings \cup {new}
  BY <1>1, <1>3
<1>6. SavingsTrue'
  BY <1>2, <1>4, <1>5 DEF SharingInv, SavingsTrue, SavingTyped, TempKept, NameFree
<1> QED
  BY <1>2, <1>6, ClipsAlone

LEMMA TrimSteps ==
    ASSUME SharingInv, NEW job \in savings, Trim(job) \/ TrimFails(job)
    PROVE  SharingInv'
<1>1. /\ SavingTyped(job) /\ job.at = "trim" /\ job.range \in Ranges /\ job.tmp \in CopyNumbers
      /\ halfSaved \in [CopyNumbers -> Ranges \cup {NoContent}]
      /\ \A other \in savings : SavingTyped(other)
  BY DEF Trim, TrimFails, SharingInv, SavingsTrue, SavingTyped
<1>2. UNCHANGED <<saved, promised, copyGeneration, copies, exports, clipboard, latest>>
  BY DEF Trim, TrimFails, ClipChanges
<1>3. CASE Trim(job)
  <2>1. PICK next : next = [job EXCEPT !.at = "target"]
    OBVIOUS
  <2>2. SavingTyped(next) /\ next.at = "target" /\ next.tmp = job.tmp /\ next.range = job.range
    BY <1>1, <2>1 DEF SavingTyped
  <2>3. /\ savings' = (savings \ {job}) \cup {next}
        /\ halfSaved' = [halfSaved EXCEPT ![job.tmp] = job.range]
        /\ met' = (met \/ \E other \in savings \ {job} : other.tmp = job.tmp /\ other.at # "trim")
    BY <1>3, <2>1 DEF Trim
  <2>4. ~met' => ~met /\ \A other \in savings \ {job} : other.at # "trim" => other.tmp # job.tmp
    BY <2>3
  <2>5. ASSUME ~met', NEW other \in savings' PROVE TempKept(other)' /\ NameFree(other)'
    <3>1. CASE other = next
      BY <1>1, <2>2, <2>3, <3>1 DEF TempKept, NameFree
    <3>2. CASE other # next
      BY <1>1, <1>2, <2>3, <2>4, <2>5, <3>2
         DEF SharingInv, SavingsTrue, SavingTyped, TempKept, NameFree
    <3> QED
      BY <3>1, <3>2
  <2>6. halfSaved' \in [CopyNumbers -> Ranges \cup {NoContent}]
    BY <1>1, <2>3
  <2>7. \A other \in savings' : SavingTyped(other)'
    BY <1>1, <2>2, <2>3 DEF SavingTyped
  <2>8. SavingsTrue'
    BY <1>2, <2>4, <2>5, <2>6, <2>7 DEF SharingInv, SavingsTrue
  <2> QED
    BY <1>2, <2>4, <2>8, ClipsAlone
<1>4. CASE TrimFails(job)
  <2>1. /\ savings' = savings \ {job} /\ met' = met
        /\ halfSaved' = [halfSaved EXCEPT ![job.tmp] = NoContent]
    BY <1>4 DEF TrimFails
  <2>2. SavingsTrue'
    BY <1>1, <1>2, <2>1 DEF SharingInv, SavingsTrue, SavingTyped, TempKept, NameFree
  <2> QED
    BY <1>2, <2>1, <2>2, ClipsAlone
<1> QED
  BY <1>3, <1>4

LEMMA ChooseTargetStep ==
    ASSUME SharingAssumption, SharingInv, NEW job \in savings, ChooseTarget(job)
    PROVE  SharingInv'
<1>1. /\ SavingTyped(job) /\ job.at = "target" /\ job.range \in Ranges
      /\ \A other \in savings : SavingTyped(other)
      /\ job.range[2] \in Titles
  BY DEF ChooseTarget, SharingInv, SavingsTrue, SavingTyped, Titles
<1>2. PICK s \in CopyNumbers :
         /\ savings' = (savings \ {job}) \cup
                         {[job EXCEPT !.at = "rename", !.target = <<job.range[2], s>>]}
         /\ saved[<<job.range[2], s>>] = NoContent
  BY DEF ChooseTarget, FreeName, FirstFree
<1>3. /\ UNCHANGED <<saved, halfSaved, promised, met, copyGeneration, copies, exports, clipboard>>
      /\ UNCHANGED latest
  BY DEF ChooseTarget, ClipChanges
<1>4. PICK target \in SavedNames : target = <<job.range[2], s>>
  BY <1>1 DEF SavedNames
<1>5. PICK next : next = [job EXCEPT !.at = "rename", !.target = target]
  OBVIOUS
<1>6. /\ SavingTyped(next) /\ next.tmp = job.tmp /\ next.range = job.range
      /\ next.target = target
  BY <1>1, <1>5 DEF SavingTyped
<1>7. savings' = (savings \ {job}) \cup {next} /\ saved[target] = NoContent
  BY <1>2, <1>4, <1>5
<1>8. ~met => \A t \in promised : t[1] # target
  <2> SUFFICES ASSUME ~met, NEW t \in promised PROVE t[1] # target
    OBVIOUS
  <2>1. saved[t[1]] = t[2] /\ t[2] \in Ranges
    BY DEF SharingInv, SavingsTrue
  <2> QED
    BY <1>7, <2>1 DEF SharingAssumption
<1>9. ASSUME ~met, NEW other \in savings' PROVE TempKept(other)' /\ NameFree(other)'
  BY <1>1, <1>3, <1>6, <1>7, <1>8, <1>9 DEF SharingInv, SavingsTrue, TempKept, NameFree
<1>10. SavingsTrue'
  BY <1>1, <1>3, <1>6, <1>7, <1>9 DEF SharingInv, SavingsTrue, SavingTyped
<1> QED
  BY <1>3, <1>10, ClipsAlone

LEMMA RenameClipStep ==
    ASSUME SharingInv, NEW job \in savings, RenameClip(job)
    PROVE  SharingInv'
<1>1. /\ job.at = "rename" /\ job.range \in Ranges /\ job.tmp \in CopyNumbers
      /\ job.target \in SavedNames /\ savings' = savings \ {job}
      /\ UNCHANGED <<copyGeneration, copies, exports, clipboard, latest>>
  BY DEF RenameClip, SharingInv, SavingsTrue, SavingTyped, ClipChanges
<1>2. CASE halfSaved[job.tmp] = NoContent
  <2>1. UNCHANGED <<saved, halfSaved, promised, met>>
    BY <1>2 DEF RenameClip
  <2>2. SavingsTrue'
    BY <1>1, <2>1 DEF SharingInv, SavingsTrue, SavingTyped, TempKept, NameFree
  <2> QED
    BY <1>1, <2>1, <2>2, ClipsAlone
<1>3. CASE halfSaved[job.tmp] # NoContent
  <2>1. /\ saved' = [saved EXCEPT ![job.target] = halfSaved[job.tmp]]
        /\ halfSaved' = [halfSaved EXCEPT ![job.tmp] = NoContent]
        /\ promised' = promised \cup {<<job.target, job.range>>}
        /\ met' = (met \/ \E other \in savings \ {job} : other.target = job.target)
    BY <1>3 DEF RenameClip
  <2>2. /\ saved \in [SavedNames -> Ranges \cup {NoContent}]
        /\ halfSaved \in [CopyNumbers -> Ranges \cup {NoContent}]
        /\ promised \subseteq SavedNames \X Ranges
    BY DEF SharingInv, SavingsTrue
  <2>3. ~met' => ~met /\ \A other \in savings' : other.target # job.target
    BY <1>1, <2>1
  <2>4. ~met => halfSaved[job.tmp] = job.range /\ \A t \in promised : t[1] # job.target
    BY <1>1, <1>3 DEF SharingInv, SavingsTrue, TempKept, NameFree
  <2>5. /\ saved' \in [SavedNames -> Ranges \cup {NoContent}]
        /\ halfSaved' \in [CopyNumbers -> Ranges \cup {NoContent}]
        /\ promised' \subseteq SavedNames \X Ranges
    BY <1>1, <2>1, <2>2
  <2>6. ASSUME ~met', NEW other \in savings' PROVE TempKept(other)' /\ NameFree(other)'
    <3>1. /\ TempKept(other) /\ NameFree(other)
          /\ other.target # job.target /\ other.tmp \in CopyNumbers
      BY <1>1, <2>3, <2>6 DEF SharingInv, SavingsTrue, SavingTyped
    <3> QED
      BY <1>1, <2>1, <2>2, <3>1 DEF TempKept, NameFree
  <2>7. ASSUME ~met', NEW t \in promised' PROVE saved'[t[1]] = t[2]
    <3>1. CASE t \in promised
      <4>1. saved[t[1]] = t[2] /\ t[1] # job.target /\ t[1] \in SavedNames
        BY <2>2, <2>3, <2>4, <2>7, <3>1 DEF SharingInv, SavingsTrue
      <4> QED
        BY <2>1, <2>2, <4>1
    <3>2. CASE t = <<job.target, job.range>>
      BY <1>1, <2>1, <2>2, <2>3, <2>4, <2>7, <3>2
    <3> QED
      BY <2>1, <3>1, <3>2
  <2>8. SavingsTrue'
    BY <1>1, <2>5, <2>6, <2>7 DEF SharingInv, SavingsTrue, SavingTyped
  <2> QED
    BY <1>1, <2>3, <2>8, ClipsAlone
<1> QED
  BY <1>2, <1>3

LEMMA DeleteClipStep ==
    ASSUME SharingInv, NEW name \in DOMAIN saved, DeleteClip(name)
    PROVE  SharingInv'
<1>1. /\ saved' = [saved EXCEPT ![name] = NoContent]
      /\ promised' = {t \in promised : t[1] # name}
      /\ UNCHANGED <<savings, halfSaved, met, copyGeneration, copies, exports, clipboard, latest>>
  BY DEF DeleteClip, ClipChanges
<1>2. /\ saved \in [SavedNames -> Ranges \cup {NoContent}]
      /\ promised \subseteq SavedNames \X Ranges
  BY DEF SharingInv, SavingsTrue
<1>3. saved' \in [SavedNames -> Ranges \cup {NoContent}]
  BY <1>1, <1>2
<1>4. ~met => \A t \in promised' : saved'[t[1]] = t[2]
  BY <1>1, <1>2 DEF SharingInv, SavingsTrue
<1>5. SavingsTrue'
  BY <1>1, <1>3, <1>4 DEF SharingInv, SavingsTrue, SavingTyped, TempKept, NameFree
<1> QED
  BY <1>1, <1>5, ClipsAlone

\* Whatever copies and clips are asked for, cancelled or fail in whichever order, the clipboard
\* holds what the newest copy put there, whole, and every clip the user was told of is there
\* with its range, unless two commands have met between a check and its use
\* (ClipboardExportState, clipboard_share_path_with_exporter, export_clip_file).
THEOREM SharedStaysAsTold == SharingSpec => []SharedAsTold
<1>1. SharingInit => SharingInv
  BY SharingInitInv
<1>2. SharingInv /\ [SharingNext]_sharingVars => SharingInv'
  <2>1. SharingInv /\ UNCHANGED sharingVars => SharingInv'
    BY DEF SharingInv, CopiesTrue, SavingsTrue, SavingTyped, CopyTyped, TempKept, NameFree,
           sharingVars
  <2> QED
    BY <2>1, SharingAssumption, AskCopySteps, CopySteps, CopyStep, BeginClipStep, TrimSteps,
       ChooseTargetStep, RenameClipStep, DeleteClipStep DEF SharingNext
<1>3. SharingInv => SharedAsTold
  BY DEF SharingInv, CopiesTrue, SavingsTrue, SharedAsTold
<1> QED
  BY <1>1, <1>2, <1>3, PTL DEF SharingSpec
=============================================================================
