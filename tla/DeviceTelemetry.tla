-------------------------- MODULE DeviceTelemetry ---------------------------
(* The collector of the device's measurements (device_telemetry.py) on the   *)
(* one worker thread that samples, while disks, interfaces and recordings of  *)
(* the host change between and under its readings.                            *)
EXTENDS Naturals, Sequences

CONSTANTS
  Place,        \* recording directories
  Device,       \* numbers of block devices, and of interfaces; not 0
  CountMax,     \* bound of the counters
  ScanSeconds,  \* SCAN_INTERVAL_SECONDS
  Unknown

ASSUME TelemetryAssumption == Device \subseteq Nat \ {0} /\ ScanSeconds \in Nat \ {0} /\ Unknown \notin Nat

VARIABLES
  host,     \* what there is to be measured
  sampler,  \* how far sample() is, with what it has found
  rates,    \* _rates: the reading before; age counts samples
  scan,     \* _scan_cache; age counts seconds
  report    \* what the last sample said: Unknown, or the readings it is made of

telemetryVars == <<host, sampler, rates, scan, report>>

Host ==
  [mounted: [Place -> Device \cup {0}],  \* device behind each directory
   sound: BOOLEAN,                       \* check_recording_destination says ok or storage_threshold
   interface: Device \cup {0},           \* the default route's
   counts: [{"disk", "network"} -> [Device -> 0 .. CountMax]],
   readable: BOOLEAN,
   elapsed: {"none", "this", "last"}, running: BOOLEAN,
   moves: Nat]
Step == {"idle", "storage", "disk", "scan", "file", "network"}
Silence == [disk |-> Unknown, total |-> Unknown, network |-> Unknown, estimate |-> Unknown]

Doing(step) == sampler.step = step
To(step) == sampler' = [sampler EXCEPT !.step = step]
Identity == <<sampler.place, sampler.device>>

-----------------------------------------------------------------------------
(* sample(): the clock is read first; what it measures is of this moment.    *)
Older(n) == IF n < 2 THEN n + 1 ELSE n
Aged(seconds) == IF scan.age + seconds > ScanSeconds THEN ScanSeconds ELSE scan.age + seconds

Begin ==
  /\ Doing("idle")
  /\ \E p \in Place, seconds \in {0, 1, ScanSeconds} :
       /\ sampler' = [step |-> "storage", place |-> p, device |-> 0, later |-> seconds > 0]
       /\ scan' = [scan EXCEPT !.age = Aged(seconds)]
  /\ rates' = [n \in DOMAIN rates |-> IF rates[n] = Unknown THEN Unknown ELSE [rates[n] EXCEPT !.age = Older(@)]]
  /\ report' = Silence /\ UNCHANGED host

(* An unusable destination forgets the reading and the scan.                 *)
Forgotten(name) == [rates EXCEPT ![name] = Unknown]

CheckDestination ==
  /\ Doing("storage")
  /\ IF host.sound /\ host.mounted[sampler.place] # 0
     THEN /\ sampler' = [sampler EXCEPT !.step = "disk", !.device = host.mounted[sampler.place]]
          /\ UNCHANGED <<rates, scan>>
     ELSE To("network") /\ rates' = Forgotten("disk") /\ scan' = [scan EXCEPT !.of = Unknown]
  /\ UNCHANGED <<host, report>>

(* Fault: the last reading is taken whatever it was of.                      *)
MeasuredOfAny(name, of, number, there) ==
  LET old == rates[name]
      new == [of |-> of, count |-> host.counts[name][number], age |-> 0]
  IN  /\ rates' = [rates EXCEPT ![name] = IF there THEN new ELSE Unknown]
      /\ report' = [report EXCEPT ![name] =
           IF ~there \/ old = Unknown THEN Unknown
           ELSE IF ~sampler.later \/ new.count < old.count THEN Unknown
           ELSE [from |-> old, to |-> new]]

(* _rate: a rate is the difference to the last reading, if that was of the   *)
(* same thing, before, and no more; the report names both readings. Counters *)
(* that cannot be read leave no reading.                                     *)
Measured(name, of, number, there) ==
  LET old == rates[name]
      new == [of |-> of, count |-> host.counts[name][number], age |-> 0]
  IN  /\ rates' = [rates EXCEPT ![name] = IF there THEN new ELSE Unknown]
      /\ report' = [report EXCEPT ![name] =
           IF ~there \/ old = Unknown THEN Unknown
           ELSE IF old.of # of \/ ~sampler.later \/ new.count < old.count THEN Unknown
           ELSE [from |-> old, to |-> new]]

(* The counters are those of the device that was checked, if it is mounted.  *)
MeasureDisk ==
  /\ Doing("disk") /\ To("scan")
  /\ Measured("disk", Identity, sampler.device,
              host.readable /\ \E p \in Place : host.mounted[p] = sampler.device)
  /\ UNCHANGED <<host, scan>>

Scan ==
  /\ Doing("scan") /\ To("file")
  /\ \E complete \in BOOLEAN :
       scan' = IF host.mounted[sampler.place] # sampler.device \/ ~host.readable THEN [scan EXCEPT !.of = Unknown]
               ELSE IF scan.of = Identity /\ scan.age < ScanSeconds THEN scan
               ELSE [of |-> Identity, age |-> 0, complete |-> complete]
  /\ report' = [report EXCEPT !.total =
       IF scan'.of # Unknown /\ scan'.complete THEN [of |-> scan'.of, age |-> scan'.age] ELSE Unknown]
  /\ UNCHANGED <<host, rates>>

(* Until the limit: from the size of the fragment in hand, if it is on the   *)
(* device that was checked, and the time that was recorded of that fragment. *)
Estimate ==
  /\ Doing("file") /\ To("network")
  /\ LET device == host.mounted[sampler.place] IN
     report' = [report EXCEPT !.estimate =
       IF host.running /\ host.elapsed = "this" /\ device = sampler.device
       THEN [of |-> <<sampler.place, device>>, elapsed |-> host.elapsed] ELSE Unknown]
  /\ UNCHANGED <<host, rates, scan>>

MeasureNetwork ==
  /\ Doing("network") /\ To("idle")
  /\ IF host.interface = 0 THEN rates' = Forgotten("network") /\ UNCHANGED report
     ELSE Measured("network", host.interface, host.interface, host.readable)
  /\ UNCHANGED <<host, scan>>

-----------------------------------------------------------------------------
(* The host, at any time.                                                    *)
Moves == host.moves > 0
Moved(h) == host' = [h EXCEPT !.moves = @ - 1] /\ UNCHANGED <<sampler, rates, scan, report>>

HostChanges ==
  /\ Moves
  /\ \/ \E p \in Place, d \in Device \cup {0} : Moved([host EXCEPT !.mounted[p] = d])
     \/ Moved([host EXCEPT !.sound = ~@])
     \/ Moved([host EXCEPT !.readable = ~@])
     \/ \E i \in Device \cup {0} : Moved([host EXCEPT !.interface = i])
     \/ \E n \in {"disk", "network"}, d \in Device : \E c \in {0, host.counts[n][d] + 1} :
          c <= CountMax /\ Moved([host EXCEPT !.counts[n][d] = c])
     \/ \E r \in BOOLEAN, e \in {"none", "this", "last"} : Moved([host EXCEPT !.running = r, !.elapsed = e])

TelemetryInit(moves) ==
  /\ host = [mounted |-> [p \in Place |-> CHOOSE d \in Device : TRUE], sound |-> TRUE,
             interface |-> CHOOSE d \in Device : TRUE,
             counts |-> [n \in {"disk", "network"} |-> [d \in Device |-> 0]],
             readable |-> TRUE, running |-> FALSE, elapsed |-> "none", moves |-> moves]
  /\ sampler = [step |-> "idle", place |-> CHOOSE p \in Place : TRUE, device |-> 0, later |-> FALSE]
  /\ rates = [n \in {"disk", "network"} |-> Unknown]
  /\ scan = [of |-> Unknown, age |-> 0, complete |-> FALSE]
  /\ report = Silence

TelemetryStep ==
  Begin \/ CheckDestination \/ MeasureDisk \/ Scan \/ Estimate \/ MeasureNetwork \/ HostChanges

(* A rate is made of two readings of one thing, one sample apart, the second *)
(* later and not less, and that of the disk is of the directory and device   *)
(* that were checked; a total is of these too and not older than half a      *)
(* minute; and the time to the limit is of one fragment on that device.      *)
Comparable(r) == r.from.of = r.to.of /\ r.from.age = 1 /\ ~(r.to.count < r.from.count)

ReportsAreOfNow ==
  /\ \A n \in {"disk", "network"} : report[n] # Unknown => Comparable(report[n]) /\ sampler.later
  /\ report.disk # Unknown => report.disk.to.of = Identity
  /\ report.total # Unknown => report.total.of = Identity /\ report.total.age < ScanSeconds
  /\ report.estimate # Unknown => report.estimate = [of |-> Identity, elapsed |-> "this"]
=============================================================================
