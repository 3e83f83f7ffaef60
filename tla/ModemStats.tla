----------------------------- MODULE ModemStats -----------------------------
(***************************************************************************)
(* The modem-stats service on the router (openwrt-modem-stats): procd runs *)
(* a shell loop that starts a collection every minute, and a collection    *)
(* asks the modem and then rewrites /tmp/modem-stats.json in place.        *)
(***************************************************************************)
VARIABLES
  service,     \* the procd instance: on, off, or stopping
  collection,  \* the collection under way: asking the modem, or writing the file
  file         \* the JSON file: none, partial, or whole with the metrics null or not

mvars == <<service, collection, file>>

ModemTypeOK ==
  /\ service \in {"on", "off", "stopping"}
  /\ collection \in {"none", "asking", "writing"}
  /\ file \in {"none", "partial", "null", "full"}

ModemInit ==
  /\ service \in {"on", "off"}
  /\ collection = "none"
  /\ file = "none"

\* the loop starts a collection
Collect ==
  /\ service # "off" /\ collection = "none"
  /\ collection' = "asking"
  /\ UNCHANGED <<service, file>>

\* the redirection empties the file before the text is put together
Truncate ==
  /\ collection = "asking"
  /\ collection' = "writing"
  /\ file' = "partial"
  /\ UNCHANGED service

\* a file that was removed meanwhile is written to no avail
Write ==
  /\ collection = "writing"
  /\ collection' = "none"
  /\ file' \in IF file = "none" THEN {"none"} ELSE {"null", "full"}
  /\ UNCHANGED service

\* started by hand, when a collection that outlived the stop has ended
StartService ==
  /\ service = "off" /\ collection = "none"
  /\ service' = "on"
  /\ UNCHANGED <<collection, file>>

\* stop_service removes the file first; a collection that is asking the modem then
\* writes it again
StopService ==
  /\ service = "on"
  /\ service' = "stopping"
  /\ file' = "none"
  /\ UNCHANGED collection

\* then procd ends the loop; a collection that the loop started may outlive it
EndLoop ==
  /\ service = "stopping"
  /\ service' = "off"
  /\ collection' \in {collection, "none"}
  /\ UNCHANGED file

\* /tmp is empty after a reboot, and the service starts if it is enabled
RebootRouter ==
  /\ service' \in {"on", "off"}
  /\ collection' = "none" /\ file' = "none"

ModemNext ==
  \/ Collect \/ Truncate \/ Write
  \/ StartService \/ StopService \/ EndLoop \/ RebootRouter
=============================================================================
