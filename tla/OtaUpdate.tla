----------------------------- MODULE OtaUpdate -----------------------------
(***************************************************************************)
(* What an over-the-air update promises to the server that asked for it,   *)
(* free of threads, flash and settings: the events published for a request *)
(* follow the flowchart of doc/architecture/OTA Updates.md, a verdict is   *)
(* given once, and it agrees with the image the device really runs.        *)
(***************************************************************************)
CONSTANTS Requests,  \* the requests (UUIDs) the server may send
          Factory    \* the image the device runs before any update

VARIABLES status,    \* the last event published for each request
          running    \* the image in the primary slot

vars == <<status, running>>

\* The events of ota_event_t, by the string pub_ota_event sends; "None" before the first.
Verdict == {"Success", "Failure"}
Deploy  == {"Deploying", "Deployed", "Rebooting"}
Status  == {"None", "Acknowledged", "Downloading", "Error"} \cup Deploy \cup Verdict

\* The arrows of the flowchart between events other than the verdicts.
Arrows == { <<"None", "Acknowledged">>, <<"Acknowledged", "Downloading">>,
            <<"Downloading", "Error">>, <<"Error", "Downloading">>,
            <<"Downloading", "Deploying">>, <<"Deploying", "Deployed">>,
            <<"Deployed", "Rebooting">> }

Init == /\ status = [r \in Requests |-> "None"]
        /\ running = Factory

Advance(r) == /\ \E a \in Arrows : /\ status[r] = a[1]
                                   /\ status' = [status EXCEPT ![r] = a[2]]
              /\ UNCHANGED running

\* The boot loader overwrites the primary slot with the image of a request being deployed.
Install(r) == /\ status[r] \in Deploy
              /\ running # r
              /\ running' = r
              /\ UNCHANGED status

\* Success is told only by the image that the request brought.
Succeed(r) == /\ status[r] \in Deploy
              /\ running = r
              /\ status' = [status EXCEPT ![r] = "Success"]
              /\ UNCHANGED running

\* Failure is told only while the device still runs another image.
Fail(r) == /\ status[r] \notin Verdict \cup {"None"}
           /\ running # r
           /\ status' = [status EXCEPT ![r] = "Failure"]
           /\ UNCHANGED running

Next == \E r \in Requests : Advance(r) \/ Install(r) \/ Succeed(r) \/ Fail(r)

Spec == Init /\ [][Next]_vars
=============================================================================
