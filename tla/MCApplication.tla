--------------------------- MODULE MCApplication ---------------------------
(***************************************************************************)
(* The application's machines on small instances, side by side: one        *)
(* behaviour is of one of them, its focus, while the others stand still.   *)
(* A configuration says which ones it checks.                              *)
(***************************************************************************)
EXTENDS CloudUpload, SessionRecovery, ReviewTimeline, ReviewSeek, PosterExtraction, ClipSharing,
        SettingsSave, FfmpegInstall, WindowLifecycle, TLC

CONSTANTS Focus,                   \* the machines that are run
          None, one, two,
          a, b, c, ar, br, au, bu  \* names, of files for the most part

VARIABLES focus,
          mp4, sidecars, gcLock, collector, request, upload, active, budget, spent,
          options, faults, at, after, payload, clips, kept, session, fresh, baseline,
          announced, shown, created,
          review, jobs, cache, errand,
          wall, game, poller, lookups, keeper, listed, mistaken, polled,
          named, pendings, asides, staged, displayed, storing, pass, renaming, published,
          tasks, astrays, forgone,
          fetchedAt, cloudFiles, temps, leases, fetches, played, unseen, fetchesLeft

mediaVars == <<mp4, sidecars, gcLock, collector, request, upload, active, budget, spent>>
recorderVars == <<options, faults, at, after, payload, clips, kept, session, fresh,
                  baseline, announced, shown, created>>
audioVars == <<review, jobs, cache, errand>>
markersVars == <<wall, game, poller, lookups, keeper, listed, mistaken, polled>>
osuVars == <<named, pendings, asides, staged, displayed, storing, pass, renaming, published,
             tasks, astrays, forgone>>
cacheVars == <<fetchedAt, cloudFiles, temps, leases, fetches, played, unseen, fetchesLeft>>
applicationVars == <<focus, mediaVars, recorderVars, sessionVars, settingsVars, windowVars,
                     posterVars, cloudVars, seekVars, audioVars, timelineVars, sharingVars,
                     markersVars, osuVars, installVars, cacheVars>>

Budget(requests, uploads, collections, failures) ==
    [requests |-> requests, uploads |-> uploads, collections |-> collections,
     failures |-> failures]

Media == INSTANCE MediaFiles WITH
    Names <- {a, b, c}, NoName <- None,
    FirstClips <- (a :> 1 @@ b :> 2 @@ c :> 0),
    FirstParts <- <<{"markers", "meta", "osu"}, {"markers", "poster"}>>,
    MediaQuota <- 1, Collectors <- {one, two}, Uploads <- {"upload"},
    Budgets <- {Budget(2, 1, 0, 1), Budget(2, 0, 1, 0), Budget(1, 1, 2, 0), Budget(1, 1, 1, 1)}

Listed(id, bytes, leased) == [id |-> id, bytes |-> bytes, leased |-> leased]

Service == INSTANCE RecorderService WITH
    Quota <- 5, Reserve <- 2, SaveReserve <- 1, Payloads <- {0, 2},
    OptionChoices <- [auto : BOOLEAN, full : BOOLEAN],
    FaultChoices <- {{}, {"collect"}, {"begin", "save", "finish", "step", "init", "metadata"},
                     {"status", "add"}},
    FirstLibraries <- {<<Listed(1, 2, FALSE), Listed(2, 1, FALSE)>>,
                       <<Listed(1, 1, TRUE), Listed(2, 3, FALSE)>>},
    NoBytes <- None, MaxFiles <- 4, MaxSession <- 3

\* Of SessionRecovery: the names a session tries, and those its file is recovered as.
SessionNames == <<a, b>>
RecoveredNames == a :> <<a, ar, au>> @@ b :> <<b, br, bu>>
                  @@ ar :> <<ar>> @@ br :> <<br>> @@ au :> <<au>> @@ bu :> <<bu>>

ASSUME RecoveryConstants == RecoveryAssumption

Keys(keys, startup) == [keys |-> keys, startup |-> startup]

Allowance(saves, captures, connects, calls, failures, kills) ==
    [saves |-> saves, captures |-> captures, connects |-> connects, calls |-> calls,
     failures |-> failures, kills |-> kills]

\* Of SettingsSave.
AppSettings == {Keys(a, FALSE), Keys(b, TRUE), Keys(b, FALSE)}
AppAtFirst  == Keys(a, FALSE)
SettingsAllowances ==
    {Allowance(1, 1, 1, 1, 2, 1), Allowance(2, 1, 0, 0, 3, 0), Allowance(0, 0, 2, 2, 2, 0),
     Allowance(1, 0, 2, 1, 1, 1), Allowance(0, 0, 3, 2, 1, 0)}

Wish(opens, closes, minimizes, natives, saves, failures) ==
    [opens |-> opens, closes |-> closes, minimizes |-> minimizes, natives |-> natives,
     saves |-> saves, failures |-> failures]

\* Of WindowLifecycle.
WindowWishes ==
    {Wish(2, 1, 0, 1, 0, 1), Wish(3, 2, 0, 0, 0, 0), Wish(2, 2, 1, 0, 0, 1),
     Wish(1, 1, 1, 0, 1, 0),
     Wish(1, 0, 1, 1, 2, 1)}

Plan(flags, uploads, renames, syncs, errors, kills, removals) ==
    [single |-> "single" \in flags, direct |-> "direct" \in flags, mixed |-> "mixed" \in flags,
     public |-> "public" \in flags, wipe |-> "wipe" \in flags,
     uploads |-> uploads, renames |-> renames, syncs |-> syncs, faults |-> errors,
     kills |-> kills, removals |-> removals]

\* Of CloudUpload.
LocalFiles == a :> 1 @@ b :> 2 @@ c :> 0
CloudPlans ==
    {Plan({"direct"}, 2, 0, 0, 3, 1, 0), Plan({"direct", "wipe"}, 1, 2, 1, 2, 0, 0),
     Plan({"single", "public"}, 2, 1, 1, 2, 1, 0), Plan({"mixed", "wipe"}, 2, 2, 0, 1, 0, 0),
     Plan({"public"}, 2, 0, 2, 1, 0, 1), Plan({"wipe"}, 2, 2, 0, 1, 1, 1)}

\* The whole clip is sent and deleted after it, with two renames meanwhile.
WipePlan == {Plan({"wipe"}, 1, 2, 0, 0, 0, 0)}

ASSUME CloudConstants == CloudAssumption

Errand(opens, toggles, renames, failures) ==
    [opens |-> opens, toggles |-> toggles, renames |-> renames, failures |-> failures]

Audio == INSTANCE ReviewAudio WITH
    page <- review, AudioClips <- {a, b}, TracksOf <- (a :> {"output", "process", "mic"} @@ b :> {"output", "mic"}),
    Output <- "output", Process <- "process", NewPath <- c, NoClip <- None, CacheLimit <- 2,
    Errands <- {Errand(1, 3, 0, 0), Errand(1, 2, 1, 0), Errand(1, 1, 1, 1), Errand(2, 1, 0, 1)}

\* Of ReviewTimeline: clips of unknown, wrong and right length.
ClipLengths == {<<0, 4>>, <<5, 4>>, <<1, 1>>}

ASSUME TimelineConstants == TimelineAssumption

\* Of ClipSharing.
ClipRanges     == {<<1, one>>, <<2, one>>}
CopyNames      == 0..2
SharingErrands ==
    {[copies |-> 3, clips |-> 0, faults |-> 2], [copies |-> 0, clips |-> 3, faults |-> 2],
     [copies |-> 1, clips |-> 2, faults |-> 1]}

Watch(located, happenings, pauses, failures, losses) ==
    [located |-> located, events |-> happenings, pauses |-> pauses,
     failures |-> failures, losses |-> losses]

League == INSTANCE LeagueMarkers WITH
    left <- polled, Grace <- 1, Absence <- 2, MaxAttempts <- 2, NoValue <- None, MaxWall <- 3,
    MaxMatches <- 2, MaxEvents <- 2,
    Errands <- {Watch(TRUE, 1, 0, 1, 0), Watch(FALSE, 2, 0, 0, 0),
                Watch(FALSE, 1, 1, 0, 0), Watch(FALSE, 1, 0, 0, 1)}

Chores(n) ==
    [passes |-> n[1], renames |-> n[2], deletions |-> n[3], faults |-> n[4], crashes |-> n[5]]

Osu == INSTANCE OsuEnrichment WITH
    clips <- named, records <- pendings, plays <- displayed, saving <- storing, rename <- renaming, errands <- tasks,
    excused <- astrays, Names <- {a, b, c}, Recordings <- {ar, br}, NameOf <- (ar :> a @@ br :> b),
    Span <- (ar :> [from |-> 2, to |-> 6] @@ br :> [from |-> 9, to |-> 13]),
    Sightings <- <<[at |-> 1, song |-> 1], [at |-> 3, song |-> 1], [at |-> 4, song |-> 2],
                   [at |-> 5, song |-> None], [at |-> 12, song |-> 3]>>,
    ScoreLog <- <<[ended |-> 0, started |-> None, length |-> 1, passed |-> TRUE, song |-> 4],
                  [ended |-> 5, started |-> None, length |-> 2, passed |-> TRUE, song |-> 2],
                  [ended |-> 7, started |-> 5, length |-> 2, passed |-> FALSE, song |-> 1],
                  [ended |-> 12, started |-> None, length |-> None, passed |-> TRUE, song |-> 5]>>,
    MaxTitles <- 3, TitleSlack <- 1, Skew <- 1, Padding <- 1, LengthSlack <- 1, FallbackLookback <- 3,
    PageSize <- 1, Ceiling <- 3, StopSlack <- 1,
    Errands <- {Chores(<<1, 1, 0, 1, 1>>), Chores(<<1, 2, 0, 0, 0>>), Chores(<<2, 0, 1, 1, 0>>),
                Chores(<<1, 0, 0, 2, 0>>)}

Duty(n) ==
    [installs |-> n[1], cancels |-> n[2], reloads |-> n[3], faults |-> n[4], kills |-> n[5],
     damages |-> n[6]]

\* Of FfmpegInstall.
InstallDuties ==
    {Duty(<<2, 1, 0, 1, 0, 0>>), Duty(<<2, 0, 0, 1, 1, 1>>), Duty(<<2, 1, 1, 0, 0, 0>>)}

Fetches(asks, ticks, failures, kills) ==
    [asks |-> asks, ticks |-> ticks, faults |-> failures, kills |-> kills]

Cache == INSTANCE CloudCache WITH
    now <- fetchedAt, files <- cloudFiles, playing <- played, tasks <- fetches, left <- fetchesLeft,
    Folder <- <<a, b, c>>, SizeOf <- (a :> 1 @@ b :> 2 @@ c :> 3),
    Expected <- (a :> 0 @@ b :> 3 @@ c :> 3), MaxBytes <- 2, Quota <- 2, Disk <- 4, Floor <- 1,
    Lease <- 1, MaxAge <- 2, TempMaxAge <- 1, MaxTime <- 3, Tasks <- {ar, br},
    Bounds <- {Fetches(4, 1, 0, 0), Fetches(3, 2, 0, 0), Fetches(3, 0, 1, 0),
               Fetches(2, 1, 0, 1)}

-----------------------------------------------------------------------------
Init ==
    /\ focus \in Focus
    /\ RecoveryInit /\ TimelineInit
    /\ PosterInit /\ SeekInit
    /\ CloudInit /\ (focus # "cloud" => plan = CHOOSE p \in Plans : TRUE)
    /\ WindowInit /\ (focus # "window" => wish = CHOOSE w \in Wishes : TRUE)
    /\ SettingsInit /\ (focus # "settings" => left = CHOOSE l \in Allowances : TRUE)
    /\ SharingInit /\ (focus # "sharing" => sharing = CHOOSE e \in Errands : TRUE)
    /\ InstallInit /\ (focus # "ffmpeg" => /\ duties = CHOOSE d \in Duties : TRUE
                                          /\ runtime = CHOOSE r \in Runtimes : TRUE)
    /\ IF focus = "media" THEN Media!Init ELSE
       /\ mp4 = "still" /\ sidecars = "still" /\ gcLock = "still"
       /\ collector = "still" /\ request = "still" /\ upload = "still"
       /\ active = "still" /\ budget = "still" /\ spent = "still"
    /\ IF focus = "recorder" THEN Service!Init ELSE
       /\ options = "still" /\ faults = "still" /\ at = "still" /\ after = "still"
       /\ payload = "still" /\ clips = "still" /\ kept = "still"
       /\ session = "still" /\ fresh = "still" /\ baseline = "still"
       /\ announced = "still" /\ shown = "still" /\ created = "still"
    /\ IF focus = "audio" THEN Audio!Init ELSE
       /\ review = "still" /\ jobs = "still" /\ cache = "still" /\ errand = "still"
    /\ IF focus = "markers" THEN League!Init ELSE
       /\ wall = "still" /\ game = "still" /\ poller = "still" /\ lookups = "still"
       /\ keeper = "still" /\ listed = "still" /\ mistaken = "still"
       /\ polled = "still"
    /\ IF focus = "osu" THEN Osu!Init ELSE
       /\ named = "still" /\ pendings = "still" /\ asides = "still"
       /\ staged = "still" /\ displayed = "still" /\ storing = "still"
       /\ pass = "still" /\ renaming = "still" /\ published = "still"
       /\ tasks = "still" /\ astrays = "still" /\ forgone = "still"
    /\ IF focus = "cache" THEN Cache!Init ELSE
       /\ fetchedAt = "still" /\ cloudFiles = "still" /\ temps = "still"
       /\ leases = "still" /\ fetches = "still" /\ played = "still"
       /\ unseen = "still" /\ fetchesLeft = "still"

Next ==
    /\ UNCHANGED focus
    /\ IF focus = "media" THEN Media!Next ELSE UNCHANGED mediaVars
    /\ IF focus = "recorder" THEN Service!Next ELSE UNCHANGED recorderVars
    /\ IF focus = "session" THEN RecoveryNext ELSE UNCHANGED sessionVars
    /\ IF focus = "settings" THEN SettingsNext ELSE UNCHANGED settingsVars
    /\ IF focus = "window" THEN WindowNext ELSE UNCHANGED windowVars
    /\ IF focus = "poster" THEN PosterNext ELSE UNCHANGED posterVars
    /\ IF focus = "cloud" THEN CloudNext ELSE UNCHANGED cloudVars
    /\ IF focus = "review" THEN SeekNext ELSE UNCHANGED seekVars
    /\ IF focus = "audio" THEN Audio!Next ELSE UNCHANGED audioVars
    /\ IF focus = "timeline" THEN TimelineNext ELSE UNCHANGED timelineVars
    /\ IF focus = "sharing" THEN SharingNext ELSE UNCHANGED sharingVars
    /\ IF focus = "markers" THEN League!Next ELSE UNCHANGED markersVars
    /\ IF focus = "osu" THEN Osu!Next ELSE UNCHANGED osuVars
    /\ IF focus = "ffmpeg" THEN InstallNext ELSE UNCHANGED installVars
    /\ IF focus = "cache" THEN Cache!Next ELSE UNCHANGED cacheVars

Spec == Init /\ [][Next]_applicationVars

-----------------------------------------------------------------------------
(* The properties of the machines that are instances, when in focus; those *)
(* of the modules extended here are their own.                             *)

FolderIsKept == focus = "media" => Media!FolderIsKept
QuotaIsKept == focus = "recorder" => Service!QuotaIsKept
RecordedSurvives == [][focus = "recorder" => Service!NothingVanishes]_applicationVars
HeardAsShown == focus = "audio" => Audio!HeardAsShown
MarkersFollowMatch == focus = "markers" => League!MarkersFollowMatch
PlaysReachTheirClip == focus = "osu" => Osu!PlaysReachTheirClip
CacheIsTrue == focus = "cache" => Cache!CacheIsTrue
=============================================================================
