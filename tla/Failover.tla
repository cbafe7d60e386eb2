-------------------------------- MODULE Failover --------------------------------
(***************************************************************************)
(* dnsfailover (internal/failover/controller.go): one goroutine probes the *)
(* regions and rewrites the A records of each hostname, one API call at a  *)
(* time.  Regions go up and down, API calls fail before or after they took *)
(* effect, and the service manager restarts the process with no memory.    *)
(***************************************************************************)
EXTENDS Naturals, Sequences

CONSTANTS
    Region, Fallback,
    Hosts,          \* the configured hostnames, in their order
    RegionOf,       \* RegionOf[h]: the region of hostname h
    AnswerIPs,      \* AnswerIPs[r]: the addresses that region r answers with
    Window,         \* failback_window_seconds, in clock ticks
    Unset,          \* the zero time
    MayFail,        \* regions that may go down
    DNSMayFail      \* may a call of the DNS API fail?

Hostname == {Hosts[i] : i \in 1..Len(Hosts)}
IP == UNION {AnswerIPs[r] : r \in Region}

ASSUME RegionAssumption ==
    /\ Fallback \in Region
    /\ Hosts \in Seq(Hostname) /\ Hosts # <<>>
    /\ RegionOf \in [Hostname -> Region]
    /\ \A r \in Region : AnswerIPs[r] # {}
ASSUME WindowAssumption == Window \in Nat /\ Unset \notin Nat
ASSUME FailAssumption == MayFail \subseteq Region /\ DNSMayFail \in BOOLEAN

VARIABLES
    up,         \* up[r]: does the health URL of r answer 200?
    dns,        \* dns[h]: the A records of h
    trouble,    \* may regions, API calls and the controller still fail?
    streak,     \* streak[r]: ticks since a probe of r failed
    pc,         \* where Reconcile is
    left,       \* hostnames it has not finished, the current one first
    fallbackOK, \* fallbackHealthy
    health,     \* regionHealth
    since,      \* since[r]: ticks since HealthySince, or Unset
    onFallback, \* OnFallback
    desired,    \* desiredRegion of the current hostname
    todo        \* records to delete, or addresses to create

envVars == <<up, dns, trouble, streak>>
stateVars == <<since, onFallback>>
roundVars == <<left, fallbackOK, health, desired, todo>>
vars == <<envVars, pc, stateVars, roundVars>>

TypeOK ==
    /\ up \in [Region -> BOOLEAN]
    /\ dns \in [Hostname -> SUBSET IP]
    /\ trouble \in BOOLEAN
    /\ streak \in [Region -> 0..Window]
    /\ pc \in {"down", "idle", "probe", "decide", "list", "delete", "create"}
    /\ left \in Seq(Hostname)
    /\ fallbackOK \in BOOLEAN
    /\ health \in [Region -> {"unknown", "ok", "bad"}]
    /\ since \in [Region -> (0..Window) \cup {Unset}]
    /\ onFallback \in [Region -> BOOLEAN]
    /\ desired \in Region
    /\ todo \subseteq IP

Init ==
    /\ up = [r \in Region |-> TRUE]
    /\ \/ dns = [h \in Hostname |-> {}]
       \/ dns = [h \in Hostname |-> AnswerIPs[RegionOf[h]]]
    /\ trouble = TRUE
    /\ streak = [r \in Region |-> Window]
    /\ pc = "down"
    /\ left = <<>>
    /\ fallbackOK = FALSE
    /\ health = [r \in Region |-> "unknown"]
    /\ since = [r \in Region |-> Unset]
    /\ onFallback = [r \in Region |-> FALSE]
    /\ desired = Fallback
    /\ todo = {}

(***************************************************************************)
(* The regions and the clock.                                              *)
(***************************************************************************)
Flap(r) ==
    /\ trouble
    /\ r \in MayFail
    /\ up' = [up EXCEPT ![r] = ~@]
    /\ UNCHANGED <<dns, trouble, streak, pc, stateVars, roundVars>>

Calm ==
    /\ trouble
    /\ trouble' = FALSE
    /\ UNCHANGED <<up, dns, streak, pc, stateVars, roundVars>>

\* Times longer ago than Window are all alike to the controller.
Older(n) == IF n < Window THEN n + 1 ELSE n

Tick ==
    /\ streak' = [r \in Region |-> Older(streak[r])]
    /\ since' = [r \in Region |-> IF since[r] = Unset THEN Unset ELSE Older(since[r])]
    /\ UNCHANGED <<up, dns, trouble, pc, onFallback, roundVars>>

(***************************************************************************)
(* The controller.                                                         *)
(***************************************************************************)
\* NewController, and the Reconcile with which Run begins.
Boot ==
    /\ pc = "down"
    /\ pc' = "probe"
    /\ UNCHANGED <<envVars, stateVars, roundVars>>

\* The ticker of Run.
ProbeInterval ==
    /\ pc = "idle"
    /\ pc' = "probe"
    /\ UNCHANGED <<envVars, stateVars, roundVars>>

\* Start of Reconcile.
ProbeFallback ==
    /\ pc = "probe"
    /\ pc' = "decide"
    /\ fallbackOK' = up[Fallback]
    /\ health' = [r \in Region |-> "unknown"]
    /\ left' = Hosts
    /\ UNCHANGED <<envVars, stateVars, desired, todo>>

\* The health of a region is asked once in a round.
Probe(r) ==
    /\ health' = [health EXCEPT ![r] =
                    IF @ # "unknown" THEN @ ELSE IF up[r] THEN "ok" ELSE "bad"]
    /\ streak' = [streak EXCEPT ![r] = IF health[r] = "unknown" /\ ~up[r] THEN 0 ELSE @]

\* Mutant of ChooseRegion: a failed probe does not restart the window.
ChooseKeepsSince(r) ==
    IF health'[r] = "ok"
    THEN LET age == IF since[r] = Unset THEN 0 ELSE since[r]
             stay == onFallback[r] /\ age < Window
         IN  /\ since' = [since EXCEPT ![r] = age]
             /\ onFallback' = [onFallback EXCEPT ![r] = stay]
             /\ desired' = IF stay THEN Fallback ELSE r
    ELSE /\ UNCHANGED since
         /\ onFallback' = [onFallback EXCEPT ![r] = @ \/ fallbackOK]
         /\ desired' = IF fallbackOK THEN Fallback ELSE r

\* Mutant of ChooseRegion: the window restarts with every probe.
ChooseRestartsWindow(r) ==
    IF health'[r] = "ok"
    THEN LET stay == onFallback[r] /\ Window > 0
         IN  /\ since' = [since EXCEPT ![r] = 0]
             /\ onFallback' = [onFallback EXCEPT ![r] = stay]
             /\ desired' = IF stay THEN Fallback ELSE r
    ELSE /\ since' = [since EXCEPT ![r] = Unset]
         /\ onFallback' = [onFallback EXCEPT ![r] = @ \/ fallbackOK]
         /\ desired' = IF fallbackOK THEN Fallback ELSE r

\* The region that answers for a hostname of r.  A region that is down keeps
\* its hostnames while the fallback is down too.
ChooseRegion(r) ==
    IF health'[r] = "ok"
    THEN LET age == IF since[r] = Unset THEN 0 ELSE since[r]
             stay == onFallback[r] /\ age < Window
         IN  /\ since' = [since EXCEPT ![r] = age]
             /\ onFallback' = [onFallback EXCEPT ![r] = stay]
             /\ desired' = IF stay THEN Fallback ELSE r
    ELSE /\ since' = [since EXCEPT ![r] = Unset]
         /\ onFallback' = [onFallback EXCEPT ![r] = @ \/ fallbackOK]
         /\ desired' = IF fallbackOK THEN Fallback ELSE r

\* The loop of Reconcile up to the call of ensureHostname.
Decide ==
    /\ pc = "decide"
    /\ pc' = "list"
    /\ Probe(RegionOf[Head(left)])
    /\ ChooseRegion(RegionOf[Head(left)])
    /\ UNCHANGED <<up, dns, trouble, left, fallbackOK, todo>>

\* The hostname is done.
NextHostname ==
    /\ left' = Tail(left)
    /\ pc' = IF left' = <<>> THEN "idle" ELSE "decide"

\* Mutant of ListARecords: the old records are never deleted.
ListToCreate ==
    /\ pc = "list"
    /\ IF dns[Head(left)] = AnswerIPs[desired]
       THEN NextHostname /\ UNCHANGED todo
       ELSE /\ pc' = "create"
            /\ todo' = AnswerIPs[desired]
            /\ UNCHANGED left
    /\ UNCHANGED <<envVars, stateVars, fallbackOK, health, desired>>

\* ensureHostname: the records are compared with what is desired.
ListARecords ==
    /\ pc = "list"
    /\ IF dns[Head(left)] = AnswerIPs[desired]
       THEN NextHostname /\ UNCHANGED todo
       ELSE /\ IF dns[Head(left)] = {}
               THEN pc' = "create" /\ todo' = AnswerIPs[desired]
               ELSE pc' = "delete" /\ todo' = dns[Head(left)]
            /\ UNCHANGED left
    /\ UNCHANGED <<envVars, stateVars, fallbackOK, health, desired>>

\* The order of the records is the API's, the order of the addresses that of
\* the configuration; both are left open here.
DeleteRecord(ip) ==
    /\ pc = "delete"
    /\ ip \in todo
    /\ dns' = [dns EXCEPT ![Head(left)] = @ \ {ip}]
    /\ IF todo = {ip} THEN pc' = "create" /\ todo' = AnswerIPs[desired]
                      ELSE todo' = todo \ {ip} /\ UNCHANGED pc
    /\ UNCHANGED <<up, trouble, streak, stateVars, left, fallbackOK, health, desired>>

\* Mutant of CreateARecord: the first address of the region is enough.
CreateFirst(ip) ==
    /\ pc = "create"
    /\ ip \in todo
    /\ dns' = [dns EXCEPT ![Head(left)] = @ \cup {ip}]
    /\ todo' = {}
    /\ NextHostname
    /\ UNCHANGED <<up, trouble, streak, stateVars, fallbackOK, health, desired>>

\* Mutant of CreateARecord: the name and the address change places.
CreateSwapped(ip) ==
    /\ pc = "create"
    /\ ip \in todo
    /\ dns' = [name \in Hostname \cup {ip} |->
                 IF name = ip THEN {Head(left)} ELSE dns[name]]
    /\ todo' = todo \ {ip}
    /\ IF todo' = {} THEN NextHostname ELSE UNCHANGED <<pc, left>>
    /\ UNCHANGED <<up, trouble, streak, stateVars, fallbackOK, health, desired>>

CreateARecord(ip) ==
    /\ pc = "create"
    /\ ip \in todo
    /\ dns' = [dns EXCEPT ![Head(left)] = @ \cup {ip}]
    /\ todo' = todo \ {ip}
    /\ IF todo' = {} THEN NextHostname ELSE UNCHANGED <<pc, left>>
    /\ UNCHANGED <<up, trouble, streak, stateVars, fallbackOK, health, desired>>

\* An API call fails, before or after it took effect, and the round is over
\* for the hostnames behind it too.
DNSError ==
    /\ pc \in {"list", "delete", "create"}
    /\ trouble /\ DNSMayFail
    /\ \/ UNCHANGED dns
       \/ \E ip \in todo :
            \/ pc = "delete" /\ dns' = [dns EXCEPT ![Head(left)] = @ \ {ip}]
            \/ pc = "create" /\ dns' = [dns EXCEPT ![Head(left)] = @ \cup {ip}]
    /\ pc' = "idle"
    /\ left' = <<>> /\ todo' = {}
    /\ UNCHANGED <<up, trouble, streak, stateVars, fallbackOK, health, desired>>

\* The process ends, between two calls or inside one, and with it c.state.
Crash ==
    /\ pc # "down"
    /\ trouble
    /\ pc' = "down"
    /\ since' = [r \in Region |-> Unset]
    /\ onFallback' = [r \in Region |-> FALSE]
    /\ left' = <<>> /\ todo' = {}
    /\ UNCHANGED <<envVars, fallbackOK, health, desired>>

Reconcile ==
    \/ ProbeFallback \/ Decide \/ ListARecords
    \/ \E ip \in IP : DeleteRecord(ip) \/ CreateARecord(ip)

Next ==
    \/ (\E r \in Region : Flap(r)) \/ Calm \/ Tick
    \/ Boot \/ ProbeInterval \/ Reconcile \/ DNSError \/ Crash

Spec == Init /\ [][Next]_vars

(***************************************************************************)
(* Restart=always of dnsfailover.service, the ticker of Run, the 3 s of    *)
(* the health client, and time itself.  Nothing makes the trouble end, and *)
(* nothing makes the DNS API answer: its client has no timeout and the     *)
(* context of Run no deadline, so no step of ensureHostname is fair.       *)
(***************************************************************************)
FairSpec ==
    /\ Spec
    /\ WF_vars(Boot) /\ WF_vars(ProbeInterval)
    /\ WF_vars(ProbeFallback) /\ WF_vars(Decide)
    /\ WF_vars(Tick)

(***************************************************************************)
(* Properties.                                                             *)
(***************************************************************************)
\* However a round was cut short, a name never answers with addresses of two
\* regions at once.
OneRegionAnswers == \A h \in Hostname : \E r \in Region : dns[h] \subseteq AnswerIPs[r]

\* As long as the controller runs it gives a region its hostnames back only
\* after Window ticks in which no probe of the region failed.
FailbackWaits ==
    [][\A r \in Region :
          onFallback[r] /\ ~onFallback'[r] /\ pc' # "down" => streak[r] = Window]_vars

\* A hostname that a round is done with, without an error, answers with
\* exactly the addresses of the region it was decided for, whatever a round
\* before it left behind in the records.
HostnameDone ==
    [][ListARecords \/ (\E ip \in IP : CreateARecord(ip)) =>
          left' = left \/ dns'[Head(left)] = AnswerIPs[desired]]_vars

\* Where the hostnames of r belong.
Target(r) == IF up[r] \/ ~up[Fallback] THEN r ELSE Fallback

\* A call of the DNS API is under way.
Calling == pc \in {"list", "delete", "create"}

\* Once regions, API and controller behave, every name settles on exactly the
\* answers of the right region, whatever the trouble left behind in the
\* records and in the controller, unless a call of the API never returns:
\* then Reconcile hangs with it, for the good regions too, and only the end of
\* the process would help.
Settles ==
    \A h \in Hostname :
        \/ []<>trouble
        \/ <>[]Calling
        \/ <>[](dns[h] = AnswerIPs[Target(RegionOf[h])])

\* docs/DEPLOYMENT.md, DNS failover check: "confirm the controller waits for
\* the failback window, then restores regional answers".
RegionalAnswersWait ==
    [][\A h \in Hostname : LET r == RegionOf[h] IN
          dns[h] = AnswerIPs[Fallback] /\ dns'[h] # dns[h] /\ desired = r /\ up[r]
            => streak[r] = Window]_vars

=================================================================================
