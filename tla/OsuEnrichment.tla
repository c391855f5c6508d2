--------------------------- MODULE OsuEnrichment ---------------------------
(***************************************************************************)
(* The plays of an osu! session (osu_enrichment.rs, the pass of            *)
(* osu_api.rs, the renaming of library.rs).  A saved session gets a        *)
(* pending record beside it and, from the window titles seen while it was  *)
(* recorded, provisional plays in its markers.  A pass reads the records   *)
(* of the folder, asks osu! for the recent scores, writes the plays of     *)
(* each recording into its markers and takes the record away, or keeps it  *)
(* for a later pass.  All of it happens in files that the user renames     *)
(* and deletes meanwhile, a rename being several steps of its own, and     *)
(* the program may be killed between any two.                              *)
(* The module follows only sessions of osu!; times are whole numbers.      *)
(* What undoes a rename does not fail in turn.                             *)
(***************************************************************************)
EXTENDS Integers, Sequences, FiniteSets

LOCAL INSTANCE SequencesExt

CONSTANTS
    Names,          \* names of clips in one session folder
    Recordings,     \* the sessions recorded, each saved at most once
    NameOf,         \* [Recordings -> Names]: the name each is saved under
    Span,           \* [Recordings -> [from, to]]: when each was recorded
    Sightings,      \* window titles as the detector meets them: [at, song],
                    \*   the song None in the menus
    ScoreLog,       \* the player's scores by the end of the play:
                    \*   [ended, started, length, passed, song]
    MaxTitles,      \* title events kept
    TitleSlack,     \* seconds around a recording in which titles count
    Skew,           \* tolerated difference of the two clocks
    Padding,        \* length of the results screen
    LengthSlack, FallbackLookback,  \* how far back a title may lie
    PageSize, Ceiling, StopSlack,   \* the pages asked for
    Errands,        \* [passes, renames, deletions, faults, crashes]: bounds
    None

VARIABLES
    clips,      \* name -> the recording in that MP4, or None
    records,    \* name -> the pending record beside it, or None
    asides,     \* names whose record a rename has set aside (the backup)
    staged,     \* names for which a rename has a record staged
    plays,      \* name -> plays in the markers file, or None without one
    saving,     \* the save event being handled
    pass,       \* the enrichment pass that holds the folder's lease
    rename,     \* the rename under way
    published,  \* how many scores of the log osu! knows
    errands,    \* what is left of Errands
    excused,    \* history: recordings whose files two activities changed at once
    forgone     \* history: recordings whose record was never written, or was quarantined

vars == <<clips, records, asides, staged, plays, saving, pass, rename,
          published, errands, excused, forgone>>

Idle == [at |-> "idle"]
Listed(s) == SubSeq(s, 1, Len(s))
LeastOf(S) == CHOOSE x \in S : \A y \in S : x <= y
MostOf(S) == CHOOSE x \in S : \A y \in S : x >= y

(***************************************************************************)
(* Titles and scores become plays                                          *)
(***************************************************************************)
\* One title more in the detector's list: a repetition of the last is not
\* kept, and neither are the oldest beyond the limit.
RecordTitle(log, seen) ==
    LET grown == Append(log, seen) IN
    CASE log # <<>> /\ Last(log).song = seen.song -> log
      [] Len(grown) > MaxTitles ->
            SubSeq(grown, Len(grown) - MaxTitles + 1, Len(grown))
      [] OTHER -> grown

TitleLog == FoldLeft(RecordTitle, <<>>, Sightings)

\* The titles that go into a record.
TitlesOf(r) ==
    SelectSeq(TitleLog, LAMBDA t : /\ t.at >= Span[r].from - TitleSlack
                                   /\ t.at <= Span[r].to + TitleSlack)

Duration(r) == Span[r].to - Span[r].from
Clamp(value, r) == MostOf({0, LeastOf({value, Duration(r)})})

\* A title lasts until the next one or the end of the recording.
TitlePlay(r, i) ==
    LET titles == TitlesOf(r)
        later == {titles[j].at : j \in {k \in i + 1 .. Len(titles) :
                                            titles[k].at > titles[i].at}}
        until == IF later = {} THEN Span[r].to ELSE LeastOf(later)
    IN  [song |-> titles[i].song,
         start |-> Clamp(titles[i].at - Span[r].from, r),
         end |-> Clamp(until - Span[r].from, r)]

TitlePlays(r) ==
    SelectSeq(Listed([i \in 1 .. Len(TitlesOf(r)) |-> TitlePlay(r, i)]),
              LAMBDA p : p.song # None /\ p.start < p.end)

\* When the play of a score began: as osu! says, else at the latest fitting
\* title, else its length before the end; failing that the score is a point.
MatchingTitles(score, r) ==
    LET back == IF score.length = None THEN FallbackLookback
                                       ELSE score.length + LengthSlack
    IN  {t \in ToSet(TitlesOf(r)) :
            /\ t.song = score.song
            /\ t.at >= score.ended - back
            /\ t.at <= score.ended + Skew}

ScoreStart(score, r) ==
    CASE score.started # None ->
            [at |-> score.started, derived |-> FALSE, point |-> FALSE]
      [] score.started = None /\ MatchingTitles(score, r) # {} ->
            [at |-> MostOf({t.at : t \in MatchingTitles(score, r)}),
             derived |-> TRUE, point |-> FALSE]
      [] OTHER ->
            IF score.passed /\ score.length # None
            THEN [at |-> score.ended - score.length,
                  derived |-> TRUE, point |-> FALSE]
            ELSE [at |-> score.ended, derived |-> TRUE, point |-> TRUE]

Touches(score, r) ==
    /\ score.ended >= Span[r].from - Skew
    /\ ScoreStart(score, r).at <= Span[r].to + Skew

\* One score more: a play whose start is only derived begins no earlier than
\* the one before it ended.
MapScore(mapped, score, r) ==
    LET began == ScoreStart(score, r)
        padded == score.ended - Span[r].from
                    + (IF score.passed /\ ~began.point THEN Padding ELSE 0)
        start == Clamp(began.at - Span[r].from, r)
        moved == IF began.derived /\ ~began.point
                 THEN MostOf({start, mapped.last}) ELSE start
        end == IF began.point THEN moved
                              ELSE MostOf({Clamp(padded, r), moved})
    IN  IF ~Touches(score, r) THEN mapped
        ELSE [plays |-> Append(mapped.plays,
                               [song |-> score.song, start |-> moved,
                                end |-> end]),
              last |-> MostOf({mapped.last, end})]

\* The plays of a recording among the scores, which come newest first.
ScorePlays(scores, r) ==
    FoldRight(LAMBDA score, mapped : MapScore(mapped, score, r),
              scores, [plays |-> <<>>, last |-> 0]).plays

\* The pages of recent scores asked for: until one is not full, reaches back
\* before the earliest recording, or the ceiling is reached.
Fetched(earliest) ==
    LET recent == Reverse(SubSeq(ScoreLog, 1, published))
        Ends(k) == \/ k >= Len(recent)
                   \/ k >= Ceiling
                   \/ recent[k].ended < earliest - StopSlack
        pages == {k \in {PageSize * i : i \in 1 .. published + 1} : Ends(k)}
    IN  SubSeq(recent, 1, LeastOf({LeastOf(pages), Len(recent)}))

(***************************************************************************)
(* Files                                                                   *)
(***************************************************************************)
\* A record as a save leaves it, and as an attempt that found nothing or
\* failed leaves it (the delay until the next attempt depends on both).
NewRecord(r, n) == [of |-> r, path |-> n, status |-> "pending", tried |-> FALSE]
Retried(record) == [record EXCEPT !.status = "pending", !.tried = TRUE]
Failed(record) == [record EXCEPT !.status = "failed", !.tried = TRUE]

\* A record never tried is due at once, another after its delay.
RetryDue(record, late) == ~record.tried \/ late

\* A record is believed only beside the MP4 it names.
Valid(n) == clips[n] # None /\ records[n].path = n

\* A file beside a clip is replaced whole or not at all, through a temporary
\* file of its own.
Written(beside, n, content) == [beside EXCEPT ![n] = content]

HasRecord == {n \in Names : records[n] # None}

WithPlays(source, r, list) == [of |-> r, source |-> source, list |-> list]

\* No rename has this clip in hand, and it is still where the job found it.
Untouched(n, r) ==
    /\ clips[n] = r
    /\ ~(rename.at # "idle" /\ n \in {rename.from, rename.to})

\* Two activities at one clip: nothing is promised for the recordings met.
Met(n, r) == IF Untouched(n, r) THEN {} ELSE {r, clips[n]} \ {None}

Spend(what) == errands[what] > 0 /\ errands' = [errands EXCEPT ![what] = @ - 1]
Fail(times) == errands.faults >= times /\ errands' = [errands EXCEPT !.faults = @ - times]

Init ==
    /\ clips = [n \in Names |-> None]
    /\ records = [n \in Names |-> None]
    /\ asides = {} /\ staged = {}
    /\ plays = [n \in Names |-> None]
    /\ saving = Idle /\ pass = Idle /\ rename = Idle
    /\ published = 0
    /\ errands \in Errands
    /\ excused = {} /\ forgone = {}

(***************************************************************************)
(* A session is saved                                                      *)
(***************************************************************************)
\* The recorder finishes a session; its Saved event is being handled.
SessionSaved(r) ==
    /\ saving = Idle
    /\ \A n \in Names : clips[n] # r
    /\ r \notin excused
    /\ clips' = [clips EXCEPT ![NameOf[r]] = r]
    /\ saving' = [at |-> "record", name |-> NameOf[r], of |-> r]
    /\ UNCHANGED <<records, asides, staged, plays, pass, rename, published,
                   errands, excused, forgone>>

\* When the record cannot be written a warning is logged and the plays are forgone.
QueueRecord ==
    /\ saving.at = "record"
    /\ \/ /\ records' = Written(records, saving.name, NewRecord(saving.of, saving.name))
          /\ saving' = [saving EXCEPT !.at = "titles"]
          /\ UNCHANGED <<errands, forgone>>
       \/ /\ Spend("faults")
          /\ saving' = Idle
          /\ forgone' = forgone \cup {saving.of}
          /\ UNCHANGED records
    /\ UNCHANGED <<clips, asides, staged, plays, pass, rename, published, excused>>

WriteTitlePlays ==
    /\ saving.at = "titles"
    /\ LET n == saving.name
           r == saving.of
           overtaken == \/ records[n] = None
                        \/ pass.at = "removing" /\ pass.jobs[1].name = n
       IN  \/ /\ plays' = IF TitlePlays(r) = <<>> THEN plays
                          ELSE Written(plays, n, WithPlays("title", r, TitlePlays(r)))
              /\ excused' = IF overtaken THEN excused \cup {r} ELSE excused
              /\ UNCHANGED errands
           \/ /\ TitlePlays(r) # <<>> /\ Spend("faults")
              /\ UNCHANGED <<plays, excused>>
    /\ saving' = Idle
    /\ UNCHANGED <<clips, records, asides, staged, pass, rename, published, forgone>>

(***************************************************************************)
(* A pass over the folder                                                  *)
(***************************************************************************)
\* Records that cannot be believed are quarantined, and so is one that could not be inspected,
\* resolved or read just now (misread); one that cannot even be moved is passed over (stuck).
\* The due ones of the others are the pass's jobs.  Without credentials the pass goes no
\* further, and while another holds the lease it does not begin.
Discover ==
    /\ pass.at = "idle" /\ errands.passes > 0
    /\ \E configured \in BOOLEAN, late \in BOOLEAN, misread \in SUBSET HasRecord :
        LET valid   == {n \in HasRecord : Valid(n)}
            found   == valid \ misread
            before(m, n) == Span[records[m].of].from < Span[records[n].of].from
            due     == {n \in found : configured /\ RetryDue(records[n], late)}
            jobs    == SetToSortSeq(due, before)
        IN  /\ misread \subseteq valid
            /\ \E stuck \in SUBSET (HasRecord \ found) :
                LET failures == Cardinality(misread) + Cardinality(stuck) IN
                /\ failures <= errands.faults
                /\ errands' = [errands EXCEPT !.passes = @ - 1, !.faults = @ - failures]
                /\ records' = [n \in Names |->
                                    IF n \in found \cup stuck THEN records[n] ELSE None]
                /\ forgone' = forgone \cup {records[n].of : n \in misread \ stuck}
            /\ excused' = excused \cup
                    {records[n].of : n \in {m \in HasRecord \ valid :
                        rename.at # "idle" /\ m \in {rename.from, rename.to}}}
            /\ pass' = IF due = {} THEN Idle
                       ELSE [at |-> "fetching",
                             jobs |-> Listed([i \in 1 .. Len(jobs) |->
                                        [name |-> jobs[i],
                                         record |-> records[jobs[i]]]])]
    /\ UNCHANGED <<clips, asides, staged, plays, saving, rename, published>>

FetchSucceeds ==
    /\ pass.at = "fetching"
    /\ pass' = [at |-> "applying", jobs |-> pass.jobs,
                scores |-> Fetched(Span[pass.jobs[1].record.of].from)]
    /\ UNCHANGED <<clips, records, asides, staged, plays, saving, rename,
                   published, errands, excused, forgone>>

\* Every job is put off, with the record as it was discovered, if it can be written.
FetchFails ==
    /\ pass.at = "fetching"
    /\ \E unmarked \in SUBSET ToSet(pass.jobs) :
        LET marked   == ToSet(pass.jobs) \ unmarked
            JobAt(n) == CHOOSE job \in marked : job.name = n
        IN  /\ Fail(1 + Cardinality(unmarked))
            /\ records' = [n \in Names |->
                    IF \E job \in marked : job.name = n THEN Retried(JobAt(n).record)
                    ELSE records[n]]
            /\ excused' = excused \cup UNION {Met(job.name, job.record.of) : job \in marked}
    /\ pass' = Idle
    /\ UNCHANGED <<clips, asides, staged, plays, saving, rename, published, forgone>>

Job == pass.jobs[1]
NextJob == IF Len(pass.jobs) = 1 THEN Idle
           ELSE [pass EXCEPT !.at = "applying", !.jobs = Tail(@)]
ExcuseJob == excused' = excused \cup Met(Job.name, Job.record.of)

\* The attempt has failed: the record says so, if it can be written.
MarkFailed ==
    \/ Fail(1) /\ records' = Written(records, Job.name, Failed(Job.record))
    \/ Fail(2) /\ UNCHANGED records

\* The first step of a job: plays found go into the markers; without them, or when one of these
\* writes fails, the record is put off.
ApplyScores ==
    /\ pass.at = "applying"
    /\ LET found == ScorePlays(pass.scores, Job.record.of) IN
        \/ /\ found = <<>>
           /\ \/ records' = Written(records, Job.name, Retried(Job.record)) /\ UNCHANGED errands
              \/ MarkFailed
           /\ pass' = NextJob
           /\ UNCHANGED plays
        \/ /\ found # <<>>
           /\ plays' = Written(plays, Job.name,
                               WithPlays("api", Job.record.of, found))
           /\ pass' = [pass EXCEPT !.at = "removing"]
           /\ UNCHANGED <<records, errands>>
        \/ /\ found # <<>>
           /\ MarkFailed
           /\ pass' = NextJob
           /\ UNCHANGED plays
    /\ ExcuseJob
    /\ UNCHANGED <<clips, asides, staged, saving, rename, published, forgone>>

\* The second: the record is no longer needed.
RemoveRecord ==
    /\ pass.at = "removing"
    /\ \/ records' = [records EXCEPT ![Job.name] = None] /\ UNCHANGED errands
       \/ MarkFailed
    /\ pass' = NextJob
    /\ ExcuseJob
    /\ UNCHANGED <<clips, asides, staged, plays, saving, rename, published, forgone>>

(***************************************************************************)
(* Renaming a clip                                                         *)
(***************************************************************************)
\* Mutant: the record keeps the old path of its clip.
StagedUnchanged(record, to) == record

\* The record as it will lie beside the renamed clip.
StagedRecord(record, to) == [record EXCEPT !.path = to]

RenameStarts(from, to) ==
    /\ rename = Idle
    /\ from # to /\ clips[from] # None /\ clips[to] = None
    \* not while its Saved event is being handled, a moment before the user
    \* sees the clip
    /\ saving.at # "idle" => saving.name \notin {from, to}
    \* the name of a session still to come is nobody's choice
    /\ \A r \in Recordings : NameOf[r] = to => \E n \in Names : clips[n] = r
    /\ ~(plays[from] # None /\ plays[to] # None)
    /\ records[from] # None =>
            records[to] = None /\ to \notin staged /\ from \notin asides
    /\ Spend("renames")
    /\ rename' = [at |-> "clip", from |-> from, to |-> to,
                  record |-> IF records[from] = None THEN None
                             ELSE StagedRecord(records[from], to)]
    /\ staged' = IF records[from] = None THEN staged ELSE staged \cup {to}
    \* a stray file at the new name is about another recording
    /\ excused' = IF plays[to] = None /\ records[to] = None THEN excused
                  ELSE excused \cup {clips[from]}
    /\ UNCHANGED <<clips, records, asides, plays, saving, pass, published, forgone>>

Swap(f, x, y) == [f EXCEPT ![y] = f[x], ![x] = None]
Unstaged == staged \ {rename.to}

MoveClip ==
    /\ rename.at = "clip"
    /\ \/ /\ clips' = Swap(clips, rename.from, rename.to)
          /\ rename' = [rename EXCEPT !.at = "markers"]
          /\ UNCHANGED <<staged, errands>>
       \/ /\ Spend("faults")
          /\ rename' = Idle
          /\ staged' = Unstaged
          /\ UNCHANGED clips
    /\ UNCHANGED <<records, asides, plays, saving, pass, published, excused, forgone>>

MoveMarkers ==
    /\ rename.at = "markers"
    /\ \/ /\ plays' = IF plays[rename.from] = None THEN plays
                      ELSE Swap(plays, rename.from, rename.to)
          /\ rename' = [rename EXCEPT !.at =
                            IF rename.record = None THEN "metadata" ELSE "aside"]
          /\ UNCHANGED <<clips, staged, errands>>
       \/ /\ plays[rename.from] # None
          /\ Spend("faults")
          /\ clips' = Swap(clips, rename.to, rename.from)
          /\ rename' = Idle
          /\ staged' = Unstaged
          /\ UNCHANGED plays
    /\ UNCHANGED <<records, asides, saving, pass, published, excused, forgone>>

\* The clip and its markers go back to the old name.
FilesBack ==
    /\ clips' = Swap(clips, rename.to, rename.from)
    /\ plays' = IF plays[rename.to] = None THEN plays
                ELSE Swap(plays, rename.to, rename.from)

\* The record steps aside for the staged one; when it is gone, or cannot be
\* moved, the whole rename is undone.
SetAside ==
    /\ rename.at = "aside"
    /\ \/ /\ records[rename.from] # None
          /\ records' = [records EXCEPT ![rename.from] = None]
          /\ asides' = asides \cup {rename.from}
          /\ rename' = [rename EXCEPT !.at = "install"]
          /\ UNCHANGED <<clips, plays, staged, errands>>
       \/ /\ IF records[rename.from] = None THEN UNCHANGED errands
                                            ELSE Spend("faults")
          /\ FilesBack
          /\ rename' = Idle
          /\ staged' = Unstaged
          /\ UNCHANGED <<records, asides>>
    /\ UNCHANGED <<saving, pass, published, excused, forgone>>

OldRecord == StagedRecord(rename.record, rename.from)

Install ==
    /\ rename.at = "install"
    /\ \/ /\ records' = [records EXCEPT ![rename.to] = rename.record]
          /\ rename' = [rename EXCEPT !.at = "metadata"]
          /\ UNCHANGED <<clips, plays, asides, errands>>
       \/ /\ Spend("faults")
          /\ records' = [records EXCEPT ![rename.from] = OldRecord]
          /\ asides' = asides \ {rename.from}
          /\ FilesBack
          /\ rename' = Idle
    /\ staged' = Unstaged
    /\ UNCHANGED <<saving, pass, published, excused, forgone>>

\* The last step that can fail; the backup goes when it has not.
RenameEnds ==
    /\ rename.at = "metadata"
    /\ \/ /\ asides' = asides \ {rename.from}
          /\ UNCHANGED <<clips, plays, records, errands>>
       \/ /\ Spend("faults")
          /\ FilesBack
          /\ IF rename.record = None THEN UNCHANGED <<records, asides>>
             ELSE /\ records' = [records EXCEPT
                        ![rename.to] = None,
                        ![rename.from] = IF @ = None THEN OldRecord ELSE @]
                  /\ asides' = IF records[rename.from] = None
                               THEN asides \ {rename.from} ELSE asides
    /\ rename' = Idle
    /\ UNCHANGED <<staged, saving, pass, published, excused, forgone>>

Delete(n) ==
    /\ rename = Idle
    /\ clips[n] # None
    /\ saving.at # "idle" => saving.name # n
    /\ Spend("deletions")
    /\ excused' = excused \cup {clips[n]}
    /\ clips' = [clips EXCEPT ![n] = None]
    /\ records' = [records EXCEPT ![n] = None]
    /\ plays' = [plays EXCEPT ![n] = None]
    /\ UNCHANGED <<asides, staged, saving, pass, rename, published, forgone>>

(***************************************************************************)
(* The program is killed; osu! learns of a score                           *)
(***************************************************************************)
\* A session whose record was not yet written stays without one, and a rename
\* cut short after its first move leaves the clip without its record.
Crash ==
    /\ Spend("crashes")
    /\ forgone' = forgone \cup (IF saving.at = "record" THEN {saving.of} ELSE {})
    /\ excused' = excused \cup
            (IF rename.at \in {"markers", "aside", "install"}
             THEN {clips[rename.to]} ELSE {})
    /\ saving' = Idle /\ pass' = Idle /\ rename' = Idle
    /\ UNCHANGED <<clips, records, asides, staged, plays, published>>

Publish ==
    /\ published < Len(ScoreLog)
    /\ published' = published + 1
    /\ UNCHANGED <<clips, records, asides, staged, plays, saving, pass,
                   rename, errands, excused, forgone>>

Next ==
    \/ \E r \in Recordings : SessionSaved(r)
    \/ QueueRecord
    \/ WriteTitlePlays
    \/ Discover
    \/ FetchSucceeds
    \/ FetchFails
    \/ ApplyScores
    \/ RemoveRecord
    \/ \E from, to \in Names : RenameStarts(from, to)
    \/ MoveClip
    \/ MoveMarkers
    \/ SetAside
    \/ Install
    \/ RenameEnds
    \/ \E n \in Names : Delete(n)
    \/ Crash
    \/ Publish

Spec == Init /\ [][Next]_vars

(***************************************************************************)
(* Properties                                                              *)
(***************************************************************************)
\* The clip is still owed its plays: a record that the next pass will believe
\* lies beside it, or the activity in hand will put it there.
Owed(n) ==
    \/ records[n] # None /\ records[n].of = clips[n] /\ records[n].path = n
    \/ saving.at = "record" /\ saving.name = n
    \/ rename.at # "idle" /\ n \in {rename.from, rename.to}

\* The clip has plays that osu! reported, each within the clip.
Enriched(n) ==
    /\ plays[n] # None /\ plays[n].source = "api" /\ plays[n].list # <<>>
    /\ \A i \in DOMAIN plays[n].list :
            LET p == plays[n].list[i] IN
            0 <= p.start /\ p.start <= p.end /\ p.end <= Duration(plays[n].of)

\* PlaysReachTheirClip: whatever passes find or miss, whichever requests and writes fail, however
\* the clip is renamed and wherever the program is killed, the plays a session of osu! shows are
\* of its own recording, and it has its plays or a record that a later pass will believe, unless
\* they are forgone.  Forgone are the plays of a session whose record could not be written, or
\* was not yet when the program was killed, which nothing tries again, and of one whose record a
\* pass could not read for a moment, which it quarantines for good.  Nothing is promised for a
\* session that two activities changed at the same time, or whose rename a crash cut in two.
PlaysReachTheirClip ==
    \A n \in Names : clips[n] # None /\ clips[n] \notin excused =>
        /\ Owed(n) \/ Enriched(n) \/ clips[n] \in forgone
        /\ plays[n] # None => plays[n].of = clips[n] \/ rename.at # "idle"
=============================================================================
