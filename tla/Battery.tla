------------------------------- MODULE Battery --------------------------------
(***************************************************************************)
(* The battery reports, in both directions (plugins/battery_plugin.cpp).   *)
(*                                                                         *)
(* The thread that connects a phone or pairs with it stores the console's  *)
(* battery in a cache and sends it; main polls the battery, and stores and *)
(* sends what has changed; the io thread answers a phone's requests from   *)
(* the cache.  It is two atomics that are written and read one after the   *)
(* other.  The phone's battery is kept in two such atomics too, written by *)
(* the io thread and read by the overlay's command.                        *)
(***************************************************************************)
EXTENDS Naturals, Sequences

CONSTANTS
  Charge,    \* charges in percent
  Low,       \* the highest charge that is low: 15
  MaxTurns   \* bound: what the batteries, the charger, and the phone do

VARIABLES
  battery,   \* the console's battery: charge and charging
  cached,    \* cached_charge_ and cached_charging_
  valid,     \* cache_valid_
  active,    \* active_
  at,        \* where each thread is in on_connected, process_events or send_status
  got,       \* what it has read
  told,      \* what the phone was told last, as packets arrive
  crossed,   \* what one thread has read was on its way while another's was
  phone,     \* the phone's battery, as it reported last
  reports,   \* everything that it has reported
  remote,    \* cached_remote_charge_ and cached_remote_charging_
  remoteAt,  \* where the io thread is with a report
  overlay,   \* what the overlay has read
  overlayAt, \* where the overlay's command is
  met,       \* the command and a report have overlapped
  acts

ownVars == <<battery, cached, valid, active, at, got, told, crossed>>
phoneVars == <<phone, reports, remote, remoteAt, overlay, overlayAt, met>>
vars == <<ownVars, phoneVars, acts>>

\* main, the io thread, and the one that connects or pairs.
Thread == {"main", "io", "conn"}

\* A status, and the one that stands for nothing read yet.
Status == [charge : Charge, charging : BOOLEAN]
Unknown == [charge |-> 0, charging |-> FALSE]

\* send_status derives the threshold event.
Sent(s) == [charge |-> s.charge, charging |-> s.charging, low |-> ~s.charging /\ s.charge <= Low]

TypeOK ==
  /\ battery \in Status /\ cached \in Status
  /\ valid \in BOOLEAN /\ active \in BOOLEAN
  /\ at \in [Thread -> {"idle", "read", "compare", "store", "charging", "status", "half", "send"}]
  /\ got \in [Thread -> Status]
  /\ crossed \in BOOLEAN /\ met \in BOOLEAN
  /\ told \in [charge : Charge, charging : BOOLEAN, low : BOOLEAN]
  /\ phone \in Status /\ remote \in Status /\ overlay \in Status
  /\ reports \in SUBSET Status
  /\ remoteAt \in {"idle", "half"} /\ overlayAt \in {"idle", "half", "done"}
  /\ acts \in 0 .. MaxTurns

\* The plugin of a new session.  The cache has some charge in it that was never read.
Init ==
  /\ battery \in Status
  /\ cached \in Status /\ ~cached.charging /\ valid = FALSE /\ active = FALSE
  /\ at = [t \in Thread |-> "idle"] /\ got = [t \in Thread |-> Unknown]
  /\ told = Sent(Unknown)
  /\ crossed = FALSE
  /\ phone = Unknown /\ reports = {Unknown} /\ remote = Unknown
  /\ overlay = Unknown
  /\ remoteAt = "idle" /\ overlayAt = "idle"
  /\ met = FALSE
  /\ acts = 0

Act == acts < MaxTurns /\ acts' = acts + 1

\* A thread goes on, with what it has read.
Goes(t, where, what) ==
  /\ at' = [at EXCEPT ![t] = where]
  /\ got' = [got EXCEPT ![t] = what]

\* A thread has read something that it will store or send.
Busy(t) == at[t] \notin {"idle", "read", "compare"}

OtherBusy(t) == \E u \in Thread \ {t} : Busy(u)

-----------------------------------------------------------------------------

Drain ==
  /\ Act
  /\ battery' \in Status \ {battery}
  /\ UNCHANGED <<cached, valid, active, at, got, told, crossed, phoneVars>>

\* on_connected: of a new session that is paired, or of one that is paired later.
\* From here on main polls, too.
Connect ==
  /\ Act
  /\ at["conn"] = "idle"
  /\ active' = TRUE
  /\ Goes("conn", "read", Unknown)
  /\ UNCHANGED <<battery, cached, valid, told, crossed, phoneVars>>

\* It reads the battery, and does nothing more if it cannot.
ConnectRead ==
  /\ at["conn"] = "read"
  /\ \/ Goes("conn", "store", battery) /\ crossed' = OtherBusy("conn")
     \/ Goes("conn", "idle", Unknown) /\ UNCHANGED crossed
  /\ UNCHANGED <<battery, cached, valid, active, told, phoneVars, acts>>

ConnectCharge ==
  /\ at["conn"] = "store"
  /\ cached' = [cached EXCEPT !.charge = got["conn"].charge]
  /\ Goes("conn", "charging", got["conn"])
  /\ UNCHANGED <<battery, valid, active, told, crossed, phoneVars, acts>>

\* process_events, ten seconds after the last time, reads the battery.
Poll ==
  /\ at["main"] = "idle" /\ active
  /\ Goes("main", "compare", battery)
  /\ UNCHANGED <<battery, cached, valid, active, told, crossed, phoneVars, acts>>

\* Mutant: only the charge is compared.
ChangedCharge(now) == now.charge # cached.charge

Changed(now) == now # cached

\* A change is stored, one half after the other.
PollCharge ==
  /\ at["main"] = "compare"
  /\ \/ /\ Changed(got["main"])
        /\ cached' = [cached EXCEPT !.charge = got["main"].charge]
        /\ Goes("main", "charging", got["main"])
        /\ crossed' = OtherBusy("main")
     \/ /\ ~Changed(got["main"])
        /\ Goes("main", "idle", Unknown)
        /\ UNCHANGED <<cached, crossed>>
  /\ UNCHANGED <<battery, valid, active, told, phoneVars, acts>>

\* Either of the two sends it then; on_connected makes the cache valid before.
StoreCharging(t) ==
  /\ at[t] = "charging"
  /\ cached' = [cached EXCEPT !.charging = got[t].charging]
  /\ valid' = (valid \/ t = "conn")
  /\ Goes(t, "status", Unknown)
  /\ UNCHANGED <<battery, active, told, crossed, phoneVars, acts>>

\* A BatteryRequest arrives.
Ask ==
  /\ Act
  /\ at["io"] = "idle" /\ remoteAt = "idle"
  /\ Goes("io", "status", Unknown)
  /\ crossed' = (crossed \/ OtherBusy("io"))
  /\ UNCHANGED <<battery, cached, valid, active, told, phoneVars>>

\* send_status reads the two in turn, or the battery itself as long as the cache is
\* not valid, and sends.
StatusCharge(t) ==
  /\ at[t] = "status"
  /\ \/ valid /\ Goes(t, "half", [got[t] EXCEPT !.charge = cached.charge])
     \/ ~valid /\ Goes(t, "send", battery)
     \/ ~valid /\ Goes(t, "idle", Unknown)
  /\ UNCHANGED <<battery, cached, valid, active, told, crossed, phoneVars, acts>>

StatusCharging(t) ==
  /\ at[t] = "half"
  /\ Goes(t, "send", [got[t] EXCEPT !.charging = cached.charging])
  /\ UNCHANGED <<battery, cached, valid, active, told, crossed, phoneVars, acts>>

StatusSend(t) ==
  /\ at[t] = "send"
  /\ told' = Sent(got[t])
  /\ Goes(t, "idle", Unknown)
  /\ UNCHANGED <<battery, cached, valid, active, crossed, phoneVars, acts>>

-----------------------------------------------------------------------------
(* The phone's battery.                                                    *)

ReportCharge ==
  /\ Act
  /\ at["io"] = "idle" /\ remoteAt = "idle"
  /\ phone' \in Status
  /\ reports' = reports \cup {phone'}
  /\ remote' = [remote EXCEPT !.charge = phone'.charge]
  /\ remoteAt' = "half"
  /\ met' = (met \/ overlayAt = "half")
  /\ UNCHANGED <<ownVars, overlay, overlayAt>>

\* Mutant: a report without a charger leaves the charging as it was.
ReportChargingOnly ==
  /\ remoteAt = "half"
  /\ remote' = [remote EXCEPT !.charging = @ \/ phone.charging]
  /\ remoteAt' = "idle"
  /\ UNCHANGED <<ownVars, phone, reports, overlay, overlayAt, met, acts>>

ReportCharging ==
  /\ remoteAt = "half"
  /\ remote' = [remote EXCEPT !.charging = phone.charging]
  /\ remoteAt' = "idle"
  /\ UNCHANGED <<ownVars, phone, reports, overlay, overlayAt, met, acts>>

\* GetDeviceList reads the two in turn (read_remote_state).
ReadCharge ==
  /\ overlayAt # "half"
  /\ overlay' = [overlay EXCEPT !.charge = remote.charge]
  /\ overlayAt' = "half"
  /\ met' = (remoteAt = "half")
  /\ UNCHANGED <<ownVars, phone, reports, remote, remoteAt, acts>>

ReadCharging ==
  /\ overlayAt = "half"
  /\ overlay' = [overlay EXCEPT !.charging = remote.charging]
  /\ overlayAt' = "done"
  /\ UNCHANGED <<ownVars, phone, reports, remote, remoteAt, met, acts>>

Next ==
  \/ Drain
  \/ Connect \/ ConnectRead \/ ConnectCharge
  \/ Poll \/ PollCharge \/ Ask
  \/ \E t \in Thread : StoreCharging(t) \/ StatusCharge(t) \/ StatusCharging(t) \/ StatusSend(t)
  \/ ReportCharge \/ ReportCharging
  \/ ReadCharge \/ ReadCharging

Spec == Init /\ [][Next]_vars

-----------------------------------------------------------------------------

\* When no thread is at it and the poll finds no change, the phone knows the console's
\* battery, unless what two threads had read was under way together: then the older of
\* the two may arrive last, and stays until the battery changes again.  (And unless the
\* battery could not be read when the phone connected: then nothing was sent.)
ToldIsTrue ==
  valid /\ (\A t \in Thread : at[t] = "idle") /\ ~Changed(battery) /\ ~crossed => told = Sent(battery)

\* The overlay shows a status that the phone has reported, unless it read while a
\* report was being stored.
OverlayIsReported == overlayAt = "done" /\ ~met => overlay \in reports
=============================================================================
