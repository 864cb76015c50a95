----------------------------- MODULE Messaging -------------------------------
(***************************************************************************)
(* The text messages of one line (control/app/main.py): a request goes by  *)
(* VoWiFi, through Asterisk, or by the modem, and what becomes of it is    *)
(* told by the answer, by the modem, or by the report of the message       *)
(* centre, which a task of its own looks for in the engine's log.          *)
(***************************************************************************)
EXTENDS CellularSms, Sequences

CONSTANT MaxLog     \* bound: entries of the engine's log that tell of a message

ASSUME MessagingAssumption == MaxLog \in Nat

VARIABLES
    watchers,   \* delivery watchers: a request and where its log window begins
    logged      \* log entries about sent messages, in order

vowifiVars == <<watchers, logged>>
vars == <<cellularVars, vowifiVars>>

MessagingTypeOK ==
    /\ CellularTypeOK
    /\ watchers \subseteq [req : Requests, since : 0 .. MaxLog]
    /\ logged \in Seq([req : Requests, what : {"ack", "error", "accepted", "rejected"}])

Init ==
    /\ CellularInit
    /\ watchers = {} /\ logged = <<>>

-----------------------------------------------------------------------------
(* send_sms_on_line: one send at a time, each request once.  Automatic     *)
(* routing asks for the registration first, and the choice is final.       *)

Fresh(r) == job = Idle /\ rows[r].status = "none"

SendCellular(r) == Fresh(r) /\ CellularStart(r) /\ UNCHANGED vowifiVars

VowifiStart(r) ==
    /\ rows' = [rows EXCEPT ![r] = [status |-> "pending", via |-> "vowifi"]]
    /\ job' = [at |-> "ami", req |-> r, since |-> Len(logged)]
    /\ UNCHANGED <<mm, marks, scan, imports, shown, crashes, aired, mishaps, vowifiVars>>

SendVowifi(r) == Fresh(r) /\ VowifiStart(r)

SendAuto(r) ==
    \E registered \in BOOLEAN : IF registered THEN SendVowifi(r) ELSE SendCellular(r)

(* The answer of Asterisk, or none in time: then the message may have left. *)
FailVowifiFallsBack ==
    /\ rows' = [rows EXCEPT ![job.req].via = "cellular"]
    /\ marks' = Reserved(job.req, mm.epoch)
    /\ job' = [at |-> "reserved", req |-> job.req, epoch |-> mm.epoch, path |-> NoPath, status |-> "none"]
    /\ UNCHANGED watchers

FailVowifi ==
    /\ rows' = [rows EXCEPT ![job.req].status = "failed"]
    /\ job' = Idle
    /\ UNCHANGED <<marks, watchers>>

AmiAnswers ==
    /\ job.at = "ami"
    /\ \/ /\ aired' = [aired EXCEPT ![job.req] = @ + 1]
          /\ rows' = [rows EXCEPT ![job.req].status = "sent"]
          /\ watchers' = watchers \cup {[req |-> job.req, since |-> job.since]}
          /\ job' = Idle /\ UNCHANGED marks
       \/ /\ aired' \in {aired, [aired EXCEPT ![job.req] = @ + 1]}
          /\ FailVowifi
    /\ UNCHANGED <<mm, scan, imports, shown, crashes, mishaps, logged>>

(* What the engine logs of a message that left: the SIP answer to it, and  *)
(* later, or never, the report of the message centre.  Only what a watcher *)
(* can still see is kept track of.                                         *)
Logs(r) ==
    /\ rows[r].via = "vowifi" /\ aired[r] > 0 /\ Len(logged) < MaxLog /\ watchers # {}
    /\ \E what \in {"ack", "error", "accepted", "rejected"} :
          /\ \A i \in DOMAIN logged :
                logged[i].req # r \/ (logged[i].what = "accepted" /\ what \in {"ack", "error"})
          /\ logged' = Append(logged, [req |-> r, what |-> what])
    /\ UNCHANGED <<cellularVars, watchers>>

(* detect_sms_result: the last report in the window, whoever's it is, and  *)
(* without any the last SIP answer.                                        *)
Verdicts(since) ==
    LET window == SubSeq(logged, since + 1, Len(logged))
        reports == SelectSeq(window, LAMBDA e : e.what \in {"ack", "error"})
        told == IF reports # <<>> THEN reports ELSE window
    IN  IF told = <<>> THEN {}
        ELSE {IF told[Len(told)].what \in {"ack", "accepted"} THEN "delivered" ELSE "failed"}

Leaves(w) ==
    /\ watchers' = watchers \ {w}
    /\ logged' = IF watchers' = {} /\ job.at # "ami" THEN <<>> ELSE logged

WatchWithoutEnd(w) ==
    /\ \E status \in Verdicts(w.since) : rows' = [rows EXCEPT ![w.req].status = status]
    /\ UNCHANGED <<mm, marks, job, scan, imports, shown, crashes, aired, mishaps, logged, watchers>>

Watch(w) ==
    /\ \E status \in Verdicts(w.since) : rows' = [rows EXCEPT ![w.req].status = status]
    /\ Leaves(w)
    /\ UNCHANGED <<mm, marks, job, scan, imports, shown, crashes, aired, mishaps>>

(* 40 seconds without a verdict, or the engine is gone.                    *)
WatchEnds(w) ==
    /\ Leaves(w)
    /\ UNCHANGED cellularVars

(* The watchers go with the process.                                       *)
Crash ==
    /\ CellularCrash
    /\ watchers' = {} /\ logged' = <<>>

-----------------------------------------------------------------------------
UserAsks(r) == SendCellular(r) \/ SendVowifi(r) \/ SendAuto(r)
Polls == Poll /\ UNCHANGED vowifiVars
Submits == Submit /\ UNCHANGED vowifiVars

Next ==
    \/ \E r \in Requests : UserAsks(r) \/ Logs(r)
    \/ AmiAnswers
    \/ \E w \in watchers : Watch(w) \/ WatchEnds(w)
    \/ Polls \/ Submits
    \/ Surroundings /\ UNCHANGED vowifiVars
    \/ Crash

Spec == Init /\ [][Next]_vars

-----------------------------------------------------------------------------
(* Properties.                                                             *)

(* Whatever the route, the answers, the timeouts and the crashes, a        *)
(* message is charged for and received at most once (send_sms_on_line:     *)
(* SMS has no cross-transport idempotency key).                            *)
AiredAtMostOnce == \A r \in Requests : aired[r] <= 1

(* A message of the user's that the poller imports would be a second       *)
(* history row, of another's and apparently successful.  It happens only   *)
(* if the daemon restarted between the reservation and the object, or      *)
(* under the poll; if the object's path was never learned and nobody saw   *)
(* the object for five minutes, or the answer was garbled; or if another   *)
(* program's message with the same text was taken for it.                  *)
OwnNotImported ==
    \A item \in shown :
        item.id \in Requests =>
            \/ item.epoch # item.made
            \/ \E what \in Mishaps \ {"daemon restarted while sending"} : <<item.id, what>> \in mishaps

(* Another program's message is kept from the history only by the claim of *)
(* an unbound mark of the same text, and never by a send that learned that *)
(* it made no object: a mark bound by a send names that send's object.     *)
MarksNameTheirOwn ==
    \A m \in marks : \A o \in mm.objects :
        m.epoch = mm.epoch /\ m.path = o.path /\ o.id # m.req
            => ~ m.cancelled /\ <<m.req, "claimed by another">> \in mishaps

(* A send by the modem that is told as failed can be repeated without the  *)
(* message going out twice, unless the daemon died over it: a send whose   *)
(* outcome is not known is never called failed.                            *)
FailedNeverAired ==
    \A r \in Requests :
        rows[r].status = "failed" /\ rows[r].via = "cellular" /\ aired[r] > 0
            => <<r, "daemon restarted while sending">> \in mishaps

(* A modem send in the history is settled or being worked on: a crash of   *)
(* the control plane leaves none that says pending for ever.               *)
PendingHasSender ==
    \A r \in Requests :
        rows[r].status = "pending" /\ rows[r].via = "cellular" => job # Idle /\ job.req = r

(* A delivered, failed or unknown message stays so: a later report in the  *)
(* log, a second watcher or a restart does not turn it over.               *)
VerdictsStand ==
    [][\A r \in Requests :
         rows[r].status \in {"delivered", "failed", "unknown"} => rows'[r] = rows[r]]_vars
=============================================================================
