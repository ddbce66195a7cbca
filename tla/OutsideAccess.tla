---------------------------- MODULE OutsideAccess ----------------------------
(***************************************************************************)
(* What the conductor lets its monitor see (orchestra.py, canisters.py and *)
(* the start of up.py): the key the monitor shows on its routes, and who   *)
(* may read a canister's status.                                           *)
(*                                                                         *)
(* A key is drawn in a call, and the viewers of the canisters are set one  *)
(* call after the other; the monitor may be changed again, a key rotated   *)
(* and a canister made in between.  Calls to one canister are carried out  *)
(* in the order they were sent.  A monitor from before there were keys is  *)
(* left out.                                                               *)
(***************************************************************************)
EXTENDS Naturals, Sequences, SequencesExt

CONSTANTS
  Monitors,     \* principals that may be set as the monitor
  Nobody,       \* no monitor
  Hosts,        \* the orchestra's canisters, in the order of their rows
  Settings,     \* calls under way at a time
  MaxSettings,  \* bound: calls made
  MaxUnset      \* bound: calls that fail

Host == ToSet(Hosts)

ASSUME NobodyAssumption == Nobody \notin Monitors
ASSUME HostsAssumption == Hosts \in Seq(Host) \ {<<>>} /\ IsInjective(Hosts)

VARIABLES
  monitor,   \* o.monitor's principal
  readKey,   \* o.monitor_read_key: how many were drawn before it, or 0
  drawn,     \* keys drawn
  knows,     \* Monitors -> the keys each has read
  host,      \* Host -> "none", "created", "ready": the canister
  viewer,    \* Host -> the monitor that may read its status
  apart,     \* canisters whose last call about viewers failed
  setting,   \* Settings -> the call and where it is
  settings, unset

accessVars == <<monitor, readKey, drawn, knows, host, viewer, apart, setting, settings, unset>>

NoSetting == [at |-> "free"]

AccessInit ==
  /\ monitor = Nobody /\ readKey = 0 /\ drawn = 0
  /\ knows = [p \in Monitors |-> {}]
  /\ host \in [Host -> {"none", "ready"}]
  /\ viewer = [h \in Host |-> Nobody] /\ apart = {}
  /\ setting = [j \in Settings |-> NoSetting]
  /\ settings = 0 /\ unset = 0
-----------------------------------------------------------------------------
Proceeds(j, r) == setting' = [setting EXCEPT ![j] = r]
Calls(j) == setting[j] = NoSetting /\ settings < MaxSettings /\ settings' = settings + 1

\* Mutant: canisters hear of a monitor, but not that there is none any more.
SharesAdded(j, before, after) ==
  Proceeds(j, IF after \notin {before, Nobody} THEN [at |-> "share", todo |-> Hosts] ELSE NoSetting)

\* share_status begins when another monitor is set.
Shares(j, before, after) == Proceeds(j, IF after # before THEN [at |-> "share", todo |-> Hosts] ELSE NoSetting)

\* orchestra_set with a monitor that is to get a new key (key_for).
SetMonitor(j, m) ==
  /\ Calls(j) /\ m # Nobody /\ (m # monitor \/ readKey = 0)
  /\ Proceeds(j, [at |-> "draw", op |-> "set", to |-> m, before |-> monitor])
  /\ UNCHANGED <<monitor, readKey, drawn, knows, host, viewer, apart, unset>>

\* orchestra_set without a monitor.
RemoveMonitor(j) ==
  /\ Calls(j) /\ monitor # Nobody
  /\ monitor' = Nobody /\ readKey' = 0 /\ Shares(j, monitor, Nobody)
  /\ UNCHANGED <<drawn, knows, host, viewer, apart, unset>>

MonitorKeyRotate(j) ==
  /\ Calls(j) /\ monitor # Nobody
  /\ Proceeds(j, [at |-> "draw", op |-> "rotate"])
  /\ UNCHANGED <<monitor, readKey, drawn, knows, host, viewer, apart, unset>>

\* raw_rand answers: the key, and with it the monitor, are set at once.
KeyDrawn(j) ==
  /\ setting[j].at = "draw"
  /\ drawn' = drawn + 1 /\ readKey' = drawn + 1
  /\ \/ /\ setting[j].op = "set"
        /\ monitor' = setting[j].to /\ Shares(j, setting[j].before, setting[j].to)
     \/ setting[j].op = "rotate" /\ Proceeds(j, NoSetting) /\ UNCHANGED monitor
  /\ UNCHANGED <<knows, host, viewer, apart, settings, unset>>

\* The call ends; nothing was set.
DrawFails(j) ==
  /\ setting[j].at = "draw"
  /\ unset < MaxUnset /\ unset' = unset + 1
  /\ Proceeds(j, NoSetting)
  /\ UNCHANGED <<monitor, readKey, drawn, knows, host, viewer, apart, settings>>

\* monitor_key_get, as the monitor.
ReadKey ==
  /\ monitor # Nobody /\ readKey \notin knows[monitor]
  /\ knows' = [knows EXCEPT ![monitor] = @ \cup {readKey}]
  /\ UNCHANGED <<monitor, readKey, drawn, host, viewer, apart, setting, settings, unset>>

\* A call about h that lets `to' read its status, or fails.
LetsView(h, to) ==
  \/ viewer' = [viewer EXCEPT ![h] = to] /\ apart' = apart \ {h} /\ UNCHANGED unset
  \/ unset < MaxUnset /\ unset' = unset + 1 /\ apart' = apart \cup {h} /\ UNCHANGED viewer

\* share_status: each canister in its turn, with the viewers of the moment.
ShareStatus(j) ==
  LET h == Head(setting[j].todo)
      rest == Tail(setting[j].todo)
  IN /\ setting[j].at = "share"
     /\ \/ host[h] = "none" /\ UNCHANGED <<viewer, apart, unset>>
        \/ host[h] # "none" /\ LetsView(h, monitor)
     /\ Proceeds(j, IF rest = <<>> THEN NoSetting ELSE [at |-> "share", todo |-> rest])
     /\ UNCHANGED <<monitor, readKey, drawn, knows, host, settings>>

\* provision: the canister, its module, and then its viewers.
CreateHost(h) ==
  /\ host[h] = "none" /\ host' = [host EXCEPT ![h] = "created"]
  /\ UNCHANGED <<monitor, readKey, drawn, knows, viewer, apart, setting, settings, unset>>
HostReady(h) ==
  /\ host[h] = "created" /\ LetsView(h, monitor)
  /\ host' = [host EXCEPT ![h] = IF h \in apart' THEN "created" ELSE "ready"]
  /\ UNCHANGED <<monitor, readKey, drawn, knows, setting, settings>>

AccessNext ==
  \/ \E j \in Settings :
       \/ \E m \in Monitors : SetMonitor(j, m)
       \/ RemoveMonitor(j) \/ MonitorKeyRotate(j) \/ KeyDrawn(j) \/ DrawFails(j) \/ ShareStatus(j)
  \/ ReadKey
  \/ \E h \in Host : CreateHost(h) \/ HostReady(h)
-----------------------------------------------------------------------------
(* Properties *)

\* "an await in between (or a failed raw_rand) would leave it able to read the old one"
\* (orchestra.py): no other monitor ever read the key that counts now.
KeyIsTheMonitorsOwn ==
  monitor # Nobody => \A p \in Monitors \ {monitor} : readKey \notin knows[p]

\* However changes of the monitor overlap with each other and with new canisters, once
\* they are through every canister whose last call did not fail lets the monitor in, and
\* nobody else.
ViewersFollowMonitor ==
  (\A j \in Settings : setting[j].at # "share") =>
    \A h \in Host \ apart : host[h] = "ready" => viewer[h] = monitor

\* What is shown to a monitor is shown to the one that is set, by its key and by the
\* canisters, also while monitors are changed, keys rotated and canisters made.
OnlyTheMonitor == KeyIsTheMonitorsOwn /\ ViewersFollowMonitor
=============================================================================
