---------------------------- MODULE LaunchLedger ----------------------------
(***************************************************************************)
(* The compositor's list of pending launches (adesk-compositor wm.rs):     *)
(* recorded by NoteLaunch, matched against a window by process id, then    *)
(* application id, then title, and forgotten when matched, when it is older*)
(* than LAUNCH_CORRELATION_TIMEOUT, or when the list is full.  Time is one *)
(* flag per entry: fresh until the timeout passed.  Entries are noted in   *)
(* time order, so the stale ones are always a prefix.                      *)
(***************************************************************************)
EXTENDS Maps

CONSTANTS
  None,           \* an absent application id, title, process id or launch
  AppsMatch,      \* the pairs <<launched, window's>> app_ids_match accepts
  TitlesMatch,    \* the pairs <<launched app id, title>> title_matches accepts
  LedgerCap       \* MAX_PENDING_LAUNCHES

ASSUME LedgerAssumption == LedgerCap \in Nat \ {0}

Pending(launch, app, pid) ==
  [launch |-> launch, app |-> app, pid |-> pid, fresh |-> TRUE]

\* expire: the entries within the timeout.
Expire(ledger) == Sublist(ledger, {i \in 1 .. Len(ledger) : ledger[i].fresh})

\* record: expire, make room, append.
Record(ledger, entry) ==
  LET live == Expire(ledger)
      room == IF Len(live) >= LedgerCap THEN Tail(live) ELSE live
  IN  Append(room, entry)

\* The most recent fresh entry satisfying Match, as a set of at most one.
Latest(ledger, Match(_)) ==
  LET hits == {i \in 1 .. Len(ledger) : ledger[i].fresh /\ Match(ledger[i])}
  IN  {ledger[i].launch : i \in {h \in hits : \A j \in hits : j <= h}}

\* correlate: the tiers in order of trust; None when no tier has a match.
Correlate(ledger, app, pid, title) ==
  LET byPid   == IF pid = None THEN {}
                 ELSE Latest(ledger, LAMBDA e : e.pid = pid)
      byApp   == IF app = None THEN {}
                 ELSE Latest(ledger, LAMBDA e : << e.app, app >> \in AppsMatch)
      byTitle == IF title = None THEN {}
                 ELSE Latest(ledger, LAMBDA e : << e.app, title >> \in TitlesMatch)
      found   == IF byPid # {} THEN byPid ELSE IF byApp # {} THEN byApp ELSE byTitle
  IN  IF found = {} THEN None ELSE CHOOSE l \in found : TRUE

\* Mutant of Take: the launch stays pending.
TakeNothing(ledger, launch) == ledger

\* take: a matched launch is consumed.
Take(ledger, launch) ==
  Sublist(ledger, {i \in 1 .. Len(ledger) : ledger[i].launch # launch})

\* The timeout of the oldest fresh entry passes.
Age(ledger) ==
  LET live == {i \in 1 .. Len(ledger) : ledger[i].fresh}
      oldest == CHOOSE i \in live : \A j \in live : i <= j
  IN  [ledger EXCEPT ![oldest].fresh = FALSE]
============================================================================
