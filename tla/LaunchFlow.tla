----------------------------- MODULE LaunchFlow ------------------------------
(***************************************************************************)
(* launch_app and the two places that attribute windows to launches: the   *)
(* compositor's ledger, asked when a window maps and when its app id       *)
(* arrives late, and the correlator of adesk-app-registry, asked by the    *)
(* event pump for the windows the ledger could not attribute. The child    *)
(* runs as soon as it is spawned, so its windows may map before either of  *)
(* them has heard of the launch.                                           *)
(*                                                                         *)
(* Texts are opaque: which of them a launch matches is given by relations, *)
(* so that a window may look like another application's.                   *)
(***************************************************************************)
EXTENDS Naturals, Sequences, FiniteSets

CONSTANTS
    Launches,        \* requests, by the launch id each will take: 1..n
    AppOf,           \* launch |-> the application it starts
    SpawnFails,      \* launches whose process cannot be spawned
    Windows,
    StartedBy,       \* window |-> the launch whose process opens it, or NoLaunch
    ReportsPid,      \* window |-> whether its client has the pid of the spawned process
    AppIdOf,         \* window |-> its first app id, or NoLaunch
    LateAppIdOf,     \* window |-> the app id it may set later
    TitleOf,         \* window |-> its title, or NoLaunch
    AppsMatch,       \* ledger, app_ids_match: << application, app id >>
    TitlesMatch,     \* ledger, title_matches: << application, title >>
    ClassesMatch,    \* correlator, StartupWMClass: << application, app id >>
    TextsMatch,      \* correlator, substring: << application, app id or title >>
    LedgerCap,       \* MAX_PENDING_LAUNCHES
    NoLaunch

Ledger == INSTANCE LaunchLedger WITH None <- NoLaunch

VARIABLES
    stage,       \* per launch_app: "idle", "numbered", "spawned", "recorded", "noted",
                 \* "answered" or "failed"
    window,      \* per window: "none", "mapped" or "handled" by the pump
    appId,       \* per window: the app id it has now
    mappedAs,     \* per window: the app id on its WindowCreated
    correlator,  \* Correlator::pending, by launch id
    expired,     \* launches the correlator's timeout has passed for
    ledger2,     \* the compositor's ledger
    aged,        \* launches whose entry outlived the ledger's timeout
    taken,       \* per window: launch_ids, the launch it has consumed
    claimed,     \* per window: the launch the compositor put on its WindowCreated
    told,        \* per window: the launch the observer and the subscribers were told
    late         \* windows whose own launch the attributor had not heard of when asked

launchVars == << stage, window, appId, mappedAs, correlator, expired, ledger2, aged, taken,
                 claimed, told, late >>

LaunchInit ==
    /\ stage = [l \in Launches |-> "idle"]
    /\ window = [w \in Windows |-> "none"]
    /\ appId = AppIdOf /\ mappedAs = [w \in Windows |-> NoLaunch]
    /\ correlator = {} /\ expired = {} /\ ledger2 = << >> /\ aged = {}
    /\ taken = [w \in Windows |-> NoLaunch] /\ claimed = taken /\ told = taken
    /\ late = {}

Pid(w) == IF ReportsPid[w] THEN StartedBy[w] ELSE NoLaunch    \* the process its client is of

Reach(l, from, to) == stage[l] = from /\ stage' = [stage EXCEPT ![l] = to]

\* Clock and number are taken first: a compositor that cannot answer leaves no process.
QueryAndReserve(l) ==
    /\ Reach(l, "idle", "numbered")
    /\ UNCHANGED << window, appId, mappedAs, correlator, expired, ledger2, aged, taken, claimed,
                    told, late >>

\* AppRegistry::launch. Launch ids are allocated in spawn order, spawn failures included.
Spawn(l) ==
    /\ stage[l] = "numbered" /\ \A k \in 1..(l - 1) : stage[k] \notin {"idle", "numbered"}
    /\ stage' = [stage EXCEPT ![l] = IF l \in SpawnFails THEN "failed" ELSE "spawned"]
    /\ UNCHANGED << window, appId, mappedAs, correlator, expired, ledger2, aged, taken, claimed,
                    told, late >>

RecordLaunch(l) ==
    /\ Reach(l, "spawned", "recorded")
    /\ correlator' = correlator \cup {l}
    /\ UNCHANGED << window, appId, mappedAs, expired, ledger2, aged, taken, claimed, told, late >>

NoteLaunch(l) ==
    /\ Reach(l, "recorded", "noted")
    /\ ledger2' = Ledger!Record(ledger2, Ledger!Pending(l, AppOf[l], l))
    /\ UNCHANGED << window, appId, mappedAs, correlator, expired, aged, taken, claimed, told, late >>

Announce(l) ==
    /\ Reach(l, "noted", "answered")
    /\ UNCHANGED << window, appId, mappedAs, correlator, expired, ledger2, aged, taken, claimed,
                    told, late >>

-----------------------------------------------------------------------------
(* The compositor.                                                         *)

Running(w) == StartedBy[w] \in Launches => stage[StartedBy[w]] \notin {"idle", "numbered", "failed"}

\* The launch the ledger finds for w is consumed and kept with the window.
Attribute(w, launch) ==
    /\ taken' = [taken EXCEPT ![w] = launch]
    /\ ledger2' = IF launch = NoLaunch THEN ledger2 ELSE Ledger!Take(ledger2, launch)

\* w maps: the compositor attributes it if its ledger knows.
MapWindow(w) ==
    /\ Running(w) /\ window[w] = "none"
    /\ window' = [window EXCEPT ![w] = "mapped"]
    /\ mappedAs' = [mappedAs EXCEPT ![w] = appId[w]]
    /\ LET launch == Ledger!Correlate(ledger2, appId[w], Pid(w), TitleOf[w])
       IN  claimed' = [claimed EXCEPT ![w] = launch] /\ Attribute(w, launch)
    /\ late' = IF StartedBy[w] \in Launches /\ stage[StartedBy[w]] \in {"spawned", "recorded"}
               THEN late \cup {<< w, "ledger" >>} ELSE late
    /\ UNCHANGED << stage, appId, correlator, expired, aged, told >>

\* A late app id: a mapped window that has consumed no launch yet is looked up again. It may
\* consume one, but its WindowCreated is out already.
SetAppId(w) ==
    /\ Running(w) /\ appId[w] = AppIdOf[w] /\ LateAppIdOf[w] /= AppIdOf[w]
    /\ appId' = [appId EXCEPT ![w] = LateAppIdOf[w]]
    /\ IF window[w] /= "none" /\ taken[w] = NoLaunch
       THEN Attribute(w, Ledger!Correlate(ledger2, LateAppIdOf[w], Pid(w), TitleOf[w]))
       ELSE UNCHANGED << taken, ledger2 >>
    /\ UNCHANGED << stage, window, mappedAs, correlator, expired, aged, claimed, told, late >>

\* LAUNCH_CORRELATION_TIMEOUT passes for the oldest entry of the ledger.
LedgerAges ==
    /\ \E i \in DOMAIN ledger2 : ledger2[i].fresh
    /\ ledger2' = Ledger!Age(ledger2)
    /\ aged' = aged \cup {ledger2[i].launch : i \in {k \in DOMAIN ledger2 : ledger2[k] /= ledger2'[k]}}
    /\ UNCHANGED << stage, window, appId, mappedAs, correlator, expired, taken, claimed, told, late >>

-----------------------------------------------------------------------------
(* The event pump and its correlator.                                      *)

\* Correlator::best_match: the most recent launch of the tier.
BestMatch(candidates) ==
    IF candidates = {} THEN NoLaunch
    ELSE CHOOSE l \in candidates : \A k \in candidates : k <= l

\* What a WindowCreated shows of its window.
Shown(w) == {mappedAs[w], TitleOf[w]} \ {NoLaunch}

MatchPid(pending, w)   == {l \in pending : Pid(w) = l}
MatchClass(pending, w) == {l \in pending : /\ mappedAs[w] /= NoLaunch
                                           /\ << AppOf[l], mappedAs[w] >> \in ClassesMatch}
MatchText(pending, w)  == {l \in pending : \E t \in Shown(w) : << AppOf[l], t >> \in TextsMatch}

\* The candidates of the first tier that has any.
FirstOf(s, t, u) == IF s /= {} THEN s ELSE IF t /= {} THEN t ELSE u

\* Mutants of Correlated: the class decides before the pid, or the pid alone decides.
CorrelatedByClass(w) ==
    LET pending == correlator \ expired
    IN  BestMatch(FirstOf(MatchClass(pending, w), MatchPid(pending, w), MatchText(pending, w)))

CorrelatedByPid(w) == BestMatch(MatchPid(correlator \ expired, w))

\* Correlator::correlate: the launch stays pending, several windows may belong to it.
Correlated(w) ==
    LET pending == correlator \ expired
    IN  BestMatch(FirstOf(MatchPid(pending, w), MatchClass(pending, w), MatchText(pending, w)))

\* correlate_window: only events the compositor left without a launch are looked up.
HandleCreated(w) ==
    /\ window[w] = "mapped"
    /\ window' = [window EXCEPT ![w] = "handled"]
    /\ told' = [told EXCEPT ![w] = IF claimed[w] = NoLaunch THEN Correlated(w) ELSE claimed[w]]
    /\ late' = IF StartedBy[w] \in correlator THEN late ELSE late \cup {<< w, "correlator" >>}
    /\ UNCHANGED << stage, appId, mappedAs, correlator, expired, ledger2, aged, taken, claimed >>

\* DEFAULT_CORRELATION_TIMEOUT passes for the oldest launch of the correlator.
Expire(l) ==
    /\ l \in correlator \ expired /\ \A k \in correlator \ expired : l <= k
    /\ expired' = expired \cup {l}
    /\ UNCHANGED << stage, window, appId, mappedAs, correlator, ledger2, aged, taken, claimed,
                    told, late >>

LaunchNext ==
    \/ \E l \in Launches :
         QueryAndReserve(l) \/ Spawn(l) \/ RecordLaunch(l) \/ NoteLaunch(l) \/ Announce(l) \/ Expire(l)
    \/ \E w \in Windows : MapWindow(w) \/ SetAppId(w) \/ HandleCreated(w)
    \/ LedgerAges

LaunchSpec == LaunchInit /\ [][LaunchNext]_launchVars

-----------------------------------------------------------------------------
(* Properties.                                                             *)

\* How far each attributor trusts that the window of a WindowCreated belongs to launch l; 0 is
\* no evidence at all.
LedgerTrust(w, l) ==
    IF l \notin Launches THEN 0
    ELSE IF Pid(w) = l THEN 3
    ELSE IF mappedAs[w] /= NoLaunch /\ << AppOf[l], mappedAs[w] >> \in AppsMatch THEN 2
    ELSE IF TitleOf[w] /= NoLaunch /\ << AppOf[l], TitleOf[w] >> \in TitlesMatch THEN 1 ELSE 0

CorrelatorTrust(w, l) ==
    IF l \notin Launches THEN 0
    ELSE IF Pid(w) = l THEN 3
    ELSE IF mappedAs[w] /= NoLaunch /\ << AppOf[l], mappedAs[w] >> \in ClassesMatch THEN 2
    ELSE IF \E t \in Shown(w) : << AppOf[l], t >> \in TextsMatch THEN 1 ELSE 0

\* Why the ledger may not know a launch that was noted: it timed out, another window consumed it,
\* or a full ledger dropped it.
Noted == {l \in Launches : stage[l] \in {"noted", "answered"}}

PushedOut(l) ==
    /\ l \in Noted /\ \A i \in DOMAIN ledger2 : ledger2[i].launch /= l
    /\ Cardinality(Noted) > LedgerCap

LostToLedger(w) ==
    \/ << w, "ledger" >> \in late \/ StartedBy[w] \in aged \/ PushedOut(StartedBy[w])
    \/ \E v \in Windows \ {w} : taken[v] = StartedBy[w]

LostToCorrelator(w) == << w, "correlator" >> \in late \/ StartedBy[w] \in expired

\* An answer never goes beyond the evidence there is, and falls behind the evidence for the
\* launch the window came from only if the attributor had lost that launch.
Justified(w, answer, Trust(_, _), lost) ==
    /\ answer /= NoLaunch => Trust(w, answer) > 0
    /\ answer /= StartedBy[w] => lost \/ Trust(w, StartedBy[w]) <= Trust(w, answer)

\* What the correlation of windows with launches promises (wm.rs:248, correlate.rs:8,
\* event_pump.rs:87), whatever the windows look like: no launch is guessed, a window that looks
\* like another application's is given away only for want of better evidence, and one that is
\* left without a launch had none that either attributor could know.
WindowsFindTheirLaunch ==
    \A w \in Windows :
        /\ window[w] /= "none" => Justified(w, claimed[w], LedgerTrust, LostToLedger(w))
        /\ window[w] = "handled" /\ claimed[w] = NoLaunch
             => Justified(w, told[w], CorrelatorTrust, LostToCorrelator(w))
        /\ window[w] = "handled" /\ claimed[w] /= NoLaunch => told[w] = claimed[w]

\* Does not hold: the ledger consumes the launch with its first window, and claims the second one
\* for a later launch of the application before the correlator is asked. correlate.rs:21: several
\* windows of one launch can correlate.
SecondWindowsFindTheirLaunch ==
    \A w \in Windows : window[w] = "handled" /\ ~LostToCorrelator(w) /\ CorrelatorTrust(w, StartedBy[w]) = 3
                         => told[w] = StartedBy[w]
=============================================================================
