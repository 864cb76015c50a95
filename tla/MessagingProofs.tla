-------------------------- MODULE MessagingProofs --------------------------
(***************************************************************************)
(* For any number of requests, messages of others, restarts and crashes: a *)
(* message goes out at most once (AiredAtMostOnce), a modem send that says *)
(* pending has a sender (PendingHasSender), none that went out is told as  *)
(* failed (FailedNeverAired), and no verdict is taken back (VerdictsStand). *)
(* Nor is a message of the user's own imported as another's, or another's  *)
(* taken for the user's, save in the cases that are named (OwnNotImported, *)
(* MarksNameTheirOwn).                                                     *)
(*                                                                         *)
(* MInv says what a send under way has done so far: nothing on the air     *)
(* before its object is bound; then, if ModemManager is no longer the one  *)
(* it spoke to, the restart is on record.  A watcher belongs to a VoWiFi   *)
(* row that is still called sent, and is the only one of its row.          *)
(*                                                                         *)
(* OInv says whose object is whose: a mark guards every object of a        *)
(* request from before it is made (SendInv, GuardInv), a poll that knows   *)
(* its epoch has listed every object whose mark is old enough to go        *)
(* (ScanInv), so that what it finds unmarked is not the user's (FoundInv). *)
(***************************************************************************)
EXTENDS Messaging, FiniteSetTheorems, TLAPS

Died(r) == <<r, "daemon restarted while sending">> \in mishaps

Rows == [status : Statuses, via : {"none", "cellular", "vowifi"}]
BeforeAir == {"reserved", "created", "bound", "ami"}
Stages == BeforeAir \cup {"sending", "verdict"}

(* The shapes of the records that steps change field by field.             *)
ShapeInv ==
    /\ rows \in [Requests -> Rows] /\ aired \in [Requests -> Nat]
    /\ mm = [epoch |-> mm.epoch, next |-> mm.next, objects |-> mm.objects]
    /\ job # Idle => /\ job.at \in Stages /\ job.req \in Requests
                     /\ job.at # "ami" => job = [at |-> job.at, req |-> job.req, epoch |-> job.epoch,
                                                 path |-> job.path, status |-> job.status]
    /\ \A w \in watchers : w.req \in Requests

JobInv ==
    job # Idle =>
        /\ rows[job.req].status = "pending"
        /\ rows[job.req].via = "vowifi" <=> job.at = "ami"
        /\ rows[job.req].via = "cellular" <=> job.at # "ami"
        /\ job.at \in BeforeAir => aired[job.req] = 0
        /\ job.at = "sending" /\ aired[job.req] > 0 => mm.epoch = job.epoch \/ Died(job.req)
        /\ job.at = "verdict" => /\ job.status \in {"sent", "failed", "unknown"}
                                 /\ job.status = "failed" /\ aired[job.req] > 0 => Died(job.req)

RowInv ==
    \A r \in Requests :
        /\ rows[r].status = "none" => aired[r] = 0
        /\ aired[r] <= 1
        /\ rows[r].status = "pending" /\ rows[r].via = "cellular" => job # Idle /\ job.req = r
        /\ rows[r].status = "failed" /\ rows[r].via = "cellular" /\ aired[r] > 0 => Died(r)

WatchInv ==
    /\ \A w \in watchers : rows[w.req].status = "sent" /\ rows[w.req].via = "vowifi"
    /\ \A v, w \in watchers : v.req = w.req => v = w

MInv == ShapeInv /\ JobInv /\ RowInv /\ WatchInv

(* A row with a verdict keeps it.                                          *)
Final == {"delivered", "failed", "unknown"}
Stands == \A r \in Requests : rows[r].status \in Final => rows'[r] = rows[r]

-----------------------------------------------------------------------------
(* Most steps concern neither the send nor its row.                        *)
Aside ==
    /\ UNCHANGED <<rows, aired, job>>
    /\ watchers' \subseteq watchers
    /\ mm'.epoch = mm.epoch
    /\ mm' = [epoch |-> mm'.epoch, next |-> mm'.next, objects |-> mm'.objects]
    /\ mishaps \subseteq mishaps'

LEMMA AsideKeeps ==
    ASSUME MInv, Aside
    PROVE  MInv' /\ Stands
  <1>1. ShapeInv'
    BY DEF MInv, ShapeInv, Aside
  <1>2. JobInv'
    BY DEF MInv, JobInv, Aside, Died
  <1>3. RowInv'
    BY DEF MInv, RowInv, Aside, Died
  <1>4. WatchInv'
    BY DEF MInv, WatchInv, Aside
  <1> QED
    BY <1>1, <1>2, <1>3, <1>4 DEF MInv, Stands, Aside

LEMMA SameEpoch ==
    ASSUME MInv
    PROVE  /\ mm = [epoch |-> mm.epoch, next |-> mm.next, objects |-> mm.objects]
           /\ \A id : /\ Listing(id).epoch = mm.epoch
                      /\ Listing(id) = [epoch |-> Listing(id).epoch, next |-> Listing(id).next,
                                        objects |-> Listing(id).objects]
  BY DEF MInv, ShapeInv, Listing

(* A send decided in the step that leaves no send through the modem open.  *)
LEMMA RowsSettled ==
    ASSUME MInv, NEW r \in Requests, mishaps' = mishaps,
           \A q \in Requests : q # r => rows'[q] = rows[q] /\ aired'[q] = aired[q],
           \A q \in Requests : rows[q].status = "pending" /\ rows[q].via = "cellular" => FALSE,
           rows'[r].status \in {"sent", "failed"}, aired'[r] \in {0, 1},
           rows'[r].via = "cellular" => aired'[r] = 0
    PROVE  RowInv'
  <1>1. ASSUME NEW q \in Requests, q # r
        PROVE  /\ rows'[q].status = "none" => aired'[q] = 0
               /\ aired'[q] <= 1
               /\ ~(rows'[q].status = "pending" /\ rows'[q].via = "cellular")
               /\ rows'[q].status = "failed" /\ rows'[q].via = "cellular" /\ aired'[q] > 0
                    => Died(q)
    BY <1>1 DEF MInv, RowInv
  <1>2. /\ rows'[r].status \notin {"none", "pending"} /\ aired'[r] <= 1
        /\ rows'[r].via = "cellular" => ~(aired'[r] > 0)
    OBVIOUS
  <1>3. \A q : Died(q)' <=> Died(q)
    BY DEF Died
  <1> QED
    BY <1>1, <1>2, <1>3 DEF RowInv

-----------------------------------------------------------------------------
(* A request begins.                                                       *)
LEMMA SendCellularKeeps ==
    ASSUME MInv, NEW r \in Requests, SendCellular(r)
    PROVE  MInv' /\ Stands
  <1>0. job = Idle /\ rows[r].status = "none" /\ aired[r] = 0
    BY DEF SendCellular, Fresh, MInv, RowInv
  <1>1. CASE job' = Idle /\ UNCHANGED <<rows, marks>>
    BY <1>1, AsideKeeps, SameEpoch DEF SendCellular, Fresh, CellularStart, vowifiVars, Aside
  <1>2. CASE job' = Idle /\ rows' = [rows EXCEPT ![r] = [status |-> "failed", via |-> "cellular"]]
    <2>1. aired' = aired /\ watchers' = watchers /\ mishaps' = mishaps /\ mm' = mm
      BY DEF SendCellular, CellularStart, vowifiVars
    <2>2. ShapeInv' /\ JobInv'
      BY <1>2, <2>1 DEF MInv, ShapeInv, JobInv, Rows, Statuses
    <2>3. RowInv'
      <3>1. \A q \in Requests : q # r => rows'[q] = rows[q] /\ aired'[q] = aired[q]
        BY <1>2, <2>1 DEF MInv, ShapeInv
      <3>2. rows'[r].status = "failed" /\ rows'[r].via = "cellular" /\ aired'[r] = 0
        BY <1>0, <1>2, <2>1 DEF MInv, ShapeInv
      <3>3. \A q \in Requests : rows[q].status = "pending" /\ rows[q].via = "cellular" => FALSE
        BY <1>0 DEF MInv, RowInv
      <3> QED
        BY <2>1, <3>1, <3>2, <3>3, RowsSettled
    <2>4. WatchInv' /\ Stands
      BY <1>0, <1>2, <2>1 DEF MInv, ShapeInv, WatchInv, Stands, Final
    <2> QED
      BY <2>2, <2>3, <2>4 DEF MInv
  <1>3. CASE /\ rows' = [rows EXCEPT ![r] = [status |-> "pending", via |-> "cellular"]]
             /\ job' = [at |-> "reserved", req |-> r, epoch |-> mm.epoch, path |-> NoPath,
                        status |-> "none"]
    <2>1. aired' = aired /\ watchers' = watchers /\ mishaps' = mishaps /\ mm' = mm
      BY DEF SendCellular, CellularStart, vowifiVars
    <2>2. ShapeInv'
      BY <1>3, <2>1 DEF MInv, ShapeInv, Rows, Statuses, Stages, BeforeAir
    <2>3. JobInv'
      BY <1>0, <1>3, <2>1 DEF MInv, ShapeInv, JobInv, BeforeAir
    <2>4. job' # Idle /\ job'.req = r
      BY <1>3 DEF Idle
    <2>5. RowInv' /\ WatchInv' /\ Stands
      BY <1>0, <1>3, <2>1, <2>4 DEF MInv, ShapeInv, RowInv, WatchInv, Stands, Final, Died
    <2> QED
      BY <2>2, <2>3, <2>5 DEF MInv
  <1> QED
    BY <1>1, <1>2, <1>3 DEF SendCellular, CellularStart

LEMMA SendVowifiKeeps ==
    ASSUME MInv, NEW r \in Requests, SendVowifi(r)
    PROVE  MInv' /\ Stands
  <1>1. job = Idle /\ rows[r].status = "none" /\ aired[r] = 0
    BY DEF SendVowifi, Fresh, MInv, RowInv
  <1>2. /\ rows' = [rows EXCEPT ![r] = [status |-> "pending", via |-> "vowifi"]]
        /\ job' = [at |-> "ami", req |-> r, since |-> Len(logged)]
        /\ aired' = aired /\ watchers' = watchers /\ mishaps' = mishaps /\ mm' = mm
    BY DEF SendVowifi, VowifiStart, vowifiVars
  <1>3. job' # Idle /\ job'.req = r /\ job'.at = "ami"
    BY <1>2 DEF Idle
  <1>4. ShapeInv' /\ JobInv'
    BY <1>1, <1>2, <1>3 DEF MInv, ShapeInv, JobInv, Rows, Statuses, Stages, BeforeAir
  <1>5. RowInv' /\ WatchInv' /\ Stands
    BY <1>1, <1>2, <1>3 DEF MInv, ShapeInv, RowInv, WatchInv, Stands, Final, Died
  <1> QED
    BY <1>4, <1>5 DEF MInv

(* Asterisk answers, or does not.                                          *)
LEMMA AmiAnswersKeeps ==
    ASSUME MInv, AmiAnswers
    PROVE  MInv' /\ Stands
  <1> DEFINE r == job.req
  <1>1. job # Idle /\ r \in Requests /\ rows[r].status = "pending" /\ rows[r].via = "vowifi"
        /\ aired[r] = 0
    BY DEF AmiAnswers, MInv, ShapeInv, JobInv, Idle, BeforeAir
  <1>2. mishaps' = mishaps /\ mm' = mm /\ aired \in [Requests -> Nat] /\ rows \in [Requests -> Rows]
    BY DEF AmiAnswers, MInv, ShapeInv
  <1>3. CASE /\ aired' = [aired EXCEPT ![r] = @ + 1]
             /\ rows' = [rows EXCEPT ![r].status = "sent"]
             /\ watchers' = watchers \cup {[req |-> r, since |-> job.since]}
             /\ job' = Idle
    <2>1. ShapeInv' /\ JobInv'
      BY <1>1, <1>2, <1>3 DEF MInv, ShapeInv, JobInv, Rows, Statuses
    <2>2. RowInv' /\ Stands
      <3>1. \A q \in Requests : q # r => rows'[q] = rows[q] /\ aired'[q] = aired[q]
        BY <1>1, <1>2, <1>3
      <3>2. rows'[r].status = "sent" /\ rows'[r].via = "vowifi" /\ aired'[r] = 1
        BY <1>1, <1>2, <1>3 DEF Rows
      <3>3. \A q \in Requests : rows[q].status = "pending" /\ rows[q].via = "cellular" => FALSE
        BY <1>1 DEF MInv, RowInv
      <3> QED
        BY <1>1, <1>2, <3>1, <3>2, <3>3, RowsSettled DEF Stands, Final
    <2>3. \A w \in watchers : w.req # r
      BY <1>1 DEF MInv, WatchInv
    <2>4. WatchInv'
      BY <1>1, <1>2, <1>3, <2>3 DEF MInv, ShapeInv, WatchInv, Rows
    <2> QED
      BY <2>1, <2>2, <2>4 DEF MInv
  <1>4. CASE aired' \in {aired, [aired EXCEPT ![r] = @ + 1]} /\ FailVowifi
    <2>1. rows' = [rows EXCEPT ![r].status = "failed"] /\ job' = Idle /\ watchers' = watchers
      BY <1>4 DEF FailVowifi
    <2>2. ShapeInv' /\ JobInv'
      BY <1>1, <1>2, <1>4, <2>1 DEF MInv, ShapeInv, JobInv, Rows, Statuses
    <2>3. RowInv' /\ Stands
      <3>1. \A q \in Requests : q # r => rows'[q] = rows[q] /\ aired'[q] = aired[q]
        BY <1>1, <1>2, <1>4, <2>1
      <3>2. rows'[r].status = "failed" /\ rows'[r].via = "vowifi" /\ aired'[r] \in {0, 1}
        BY <1>1, <1>2, <1>4, <2>1 DEF Rows
      <3>3. \A q \in Requests : rows[q].status = "pending" /\ rows[q].via = "cellular" => FALSE
        BY <1>1 DEF MInv, RowInv
      <3> QED
        BY <1>1, <1>2, <3>1, <3>2, <3>3, RowsSettled DEF Stands, Final
    <2>4. WatchInv'
      BY <1>1, <1>2, <2>1 DEF MInv, ShapeInv, WatchInv, Rows
    <2> QED
      BY <2>2, <2>3, <2>4 DEF MInv
  <1> QED
    BY <1>3, <1>4 DEF AmiAnswers

(* A watcher finds a verdict.                                              *)
LEMMA WatchKeeps ==
    ASSUME MInv, NEW w \in watchers, Watch(w)
    PROVE  MInv' /\ Stands
  <1>1. PICK status \in Verdicts(w.since) : rows' = [rows EXCEPT ![w.req].status = status]
    BY DEF Watch
  <1>2. status \in {"delivered", "failed"}
    BY DEF Verdicts
  <1>3. w.req \in Requests /\ rows[w.req].status = "sent" /\ rows[w.req].via = "vowifi"
    BY DEF MInv, ShapeInv, WatchInv
  <1>4. watchers' = watchers \ {w} /\ \A v \in watchers' : v.req # w.req
    BY DEF Watch, Leaves, MInv, WatchInv
  <1>5. job' = job /\ mm' = mm /\ aired' = aired /\ mishaps' = mishaps
    BY DEF Watch
  <1>6. job # Idle => job.req # w.req
    BY <1>3 DEF MInv, JobInv
  <1>7. ShapeInv'
    BY <1>1, <1>2, <1>3, <1>4, <1>5 DEF MInv, ShapeInv, Rows, Statuses
  <1>8. JobInv'
    BY <1>1, <1>3, <1>5, <1>6 DEF MInv, ShapeInv, JobInv, Died
  <1>9. RowInv'
    <2>1. rows'[w.req].status = status /\ rows'[w.req].via = "vowifi"
      BY <1>1, <1>3 DEF MInv, ShapeInv, Rows
    <2>2. \A r \in Requests : r # w.req => rows'[r] = rows[r]
      BY <1>1 DEF MInv, ShapeInv
    <2>3. aired[w.req] <= 1
      BY <1>3 DEF MInv, RowInv
    <2> QED
      BY <1>2, <1>5, <2>1, <2>2, <2>3 DEF MInv, RowInv, Died
  <1>10. WatchInv'
    BY <1>1, <1>3, <1>4 DEF MInv, ShapeInv, WatchInv, Rows
  <1>11. Stands
    BY <1>1, <1>3 DEF MInv, ShapeInv, Stands, Final
  <1> QED
    BY <1>7, <1>8, <1>9, <1>10, <1>11 DEF MInv

-----------------------------------------------------------------------------
(* The send through the modem.                                             *)
(* A send through the modem goes on: its row stays, and its record changes *)
(* as JobInv wants.                                                        *)
LEMMA Working ==
    ASSUME MInv, job # Idle, job.at # "ami",
           rows' = rows, watchers' = watchers, mishaps \subseteq mishaps',
           mm' = [epoch |-> mm'.epoch, next |-> mm'.next, objects |-> mm'.objects],
           aired' \in [Requests -> Nat], aired'[job.req] <= 1,
           \A r \in Requests : r # job.req => aired'[r] = aired[r],
           job' # Idle, job'.req = job.req, job'.at \in Stages \ {"ami"},
           job' = [at |-> job'.at, req |-> job'.req, epoch |-> job'.epoch, path |-> job'.path,
                   status |-> job'.status],
           job'.at \in BeforeAir => aired'[job.req] = 0,
           job'.at = "sending" /\ aired'[job.req] > 0 => mm'.epoch = job'.epoch \/ Died(job.req),
           job'.at = "verdict" => /\ job'.status \in {"sent", "failed", "unknown"}
                                  /\ job'.status = "failed" /\ aired'[job.req] > 0
                                        => Died(job.req)
    PROVE  MInv' /\ Stands
  <1>1. job.req \in Requests /\ rows[job.req].status = "pending" /\ rows[job.req].via = "cellular"
    BY DEF MInv, ShapeInv, JobInv
  <1>2. ShapeInv'
    BY <1>1 DEF MInv, ShapeInv
  <1>3. JobInv'
    BY <1>1 DEF JobInv, Died
  <1>4. RowInv'
    BY <1>1 DEF MInv, RowInv, Died
  <1>5. WatchInv' /\ Stands
    BY DEF MInv, WatchInv, Stands
  <1> QED
    BY <1>2, <1>3, <1>4, <1>5 DEF MInv

LEMMA CreateKeeps ==
    ASSUME MInv, Create, UNCHANGED vowifiVars
    PROVE  MInv' /\ Stands
  <1>0. job.at = "reserved"
    BY DEF Create
  <1>1. job # Idle /\ job.at = "reserved"
    BY <1>0 DEF Idle
  <1>2. /\ job = [at |-> "reserved", req |-> job.req, epoch |-> job.epoch, path |-> job.path,
                  status |-> job.status]
        /\ job.req \in Requests /\ aired[job.req] = 0
        /\ rows[job.req].status = "pending" /\ rows[job.req].via = "cellular"
    BY <1>1 DEF MInv, ShapeInv, JobInv, BeforeAir
  <1>3. /\ rows' = rows /\ aired' = aired /\ watchers' = watchers
        /\ mishaps \subseteq mishaps'
        /\ mm' = [epoch |-> mm'.epoch, next |-> mm'.next, objects |-> mm'.objects]
    BY SameEpoch DEF Create, Draft, Befall, vowifiVars
  <1>4. \/ job' = [job EXCEPT !.at = "created", !.path = mm.next]
        \/ job' = [job EXCEPT !.at = "verdict", !.status = "failed"]
    BY DEF Create, Verdict
  <1>5. /\ job' # Idle /\ job'.at \in {"created", "verdict"} /\ job'.req = job.req
        /\ job'.at = "verdict" => job'.status = "failed"
        /\ job' = [at |-> job'.at, req |-> job'.req, epoch |-> job'.epoch, path |-> job'.path,
                   status |-> job'.status]
    BY <1>2, <1>4 DEF Idle
  <1>6. aired \in [Requests -> Nat] /\ aired[job.req] <= 1
        /\ mm = [epoch |-> mm.epoch, next |-> mm.next, objects |-> mm.objects]
    BY <1>2 DEF MInv, ShapeInv, RowInv
  <1>7. job.at # "ami" /\ job'.at \in Stages \ {"ami"} /\ job'.at # "sending"
        /\ (job'.at \in BeforeAir => aired[job.req] = 0)
    BY <1>1, <1>2, <1>5 DEF Stages, BeforeAir
  <1> QED
    BY <1>1, <1>2, <1>3, <1>5, <1>6, <1>7, Working

LEMMA BindKeeps ==
    ASSUME MInv, Bind, UNCHANGED vowifiVars
    PROVE  MInv' /\ Stands
  <1>1. job # Idle /\ job.at = "created"
    BY DEF Bind, Idle
  <1>2. /\ job = [at |-> "created", req |-> job.req, epoch |-> job.epoch, path |-> job.path,
                  status |-> job.status]
        /\ job.req \in Requests /\ aired[job.req] = 0
        /\ rows[job.req].status = "pending" /\ rows[job.req].via = "cellular"
    BY <1>1 DEF MInv, ShapeInv, JobInv, BeforeAir
  <1>3. rows' = rows /\ aired' = aired /\ watchers' = watchers /\ mishaps' = mishaps /\ mm' = mm
    BY DEF Bind, vowifiVars
  <1>4. \/ job' = [job EXCEPT !.at = "bound"]
        \/ job' = [job EXCEPT !.at = "verdict", !.status = "failed"]
    BY DEF Bind, Verdict
  <1>5. /\ job' # Idle /\ job'.at \in {"bound", "verdict"} /\ job'.req = job.req
        /\ job'.at = "verdict" => job'.status = "failed"
        /\ job' = [at |-> job'.at, req |-> job'.req, epoch |-> job'.epoch, path |-> job'.path,
                   status |-> job'.status]
    BY <1>2, <1>4 DEF Idle
  <1>6. aired \in [Requests -> Nat] /\ aired[job.req] <= 1
        /\ mm = [epoch |-> mm.epoch, next |-> mm.next, objects |-> mm.objects]
    BY <1>2 DEF MInv, ShapeInv, RowInv
  <1>7. job.at # "ami" /\ job'.at \in Stages \ {"ami"} /\ job'.at # "sending"
        /\ (job'.at \in BeforeAir => aired[job.req] = 0)
    BY <1>1, <1>2, <1>5 DEF Stages, BeforeAir
  <1> QED
    BY <1>1, <1>2, <1>3, <1>5, <1>6, <1>7, Working

LEMMA SendKeeps ==
    ASSUME MInv, Send, UNCHANGED vowifiVars
    PROVE  MInv' /\ Stands
  <1>1. job # Idle /\ job.at = "bound"
    BY DEF Send, Idle
  <1>2. /\ job = [at |-> "bound", req |-> job.req, epoch |-> job.epoch, path |-> job.path,
                  status |-> job.status]
        /\ job.req \in Requests /\ aired[job.req] = 0
        /\ rows[job.req].status = "pending" /\ rows[job.req].via = "cellular"
    BY <1>1 DEF MInv, ShapeInv, JobInv, BeforeAir
  <1>3. rows' = rows /\ watchers' = watchers /\ mishaps' = mishaps /\ mm' = mm
    BY DEF Send, vowifiVars
  <1>4. /\ job' # Idle /\ job'.at = "sending" /\ job'.req = job.req /\ job'.epoch = job.epoch
        /\ job' = [at |-> job'.at, req |-> job'.req, epoch |-> job'.epoch, path |-> job'.path,
                   status |-> job'.status]
    BY <1>2 DEF Send, Idle
  <1>5. /\ aired' \in [Requests -> Nat]
        /\ aired'[job.req] \in {0, 1} /\ (aired'[job.req] > 0 => mm.epoch = job.epoch)
        /\ \A r \in Requests : r # job.req => aired'[r] = aired[r]
    BY <1>2 DEF Send, MInv, ShapeInv
  <1> QED
    BY <1>1, <1>2, <1>3, <1>4, <1>5, Working DEF MInv, ShapeInv, Stages, BeforeAir

LEMMA SendAnsweredKeeps ==
    ASSUME MInv, SendAnswered, UNCHANGED vowifiVars
    PROVE  MInv' /\ Stands
  <1>1. job # Idle /\ job.at = "sending"
    BY DEF SendAnswered, Idle
  <1>2. /\ job = [at |-> "sending", req |-> job.req, epoch |-> job.epoch, path |-> job.path,
                  status |-> job.status]
        /\ job.req \in Requests /\ aired[job.req] \in Nat
        /\ rows[job.req].status = "pending" /\ rows[job.req].via = "cellular"
        /\ aired[job.req] > 0 => mm.epoch = job.epoch \/ Died(job.req)
    BY <1>1 DEF MInv, ShapeInv, JobInv
  <1>3. rows' = rows /\ aired' = aired /\ watchers' = watchers /\ mishaps' = mishaps /\ mm' = mm
    BY DEF SendAnswered, vowifiVars
  <1>4. \E status \in {"sent", "failed", "unknown"} :
            /\ job' = [job EXCEPT !.at = "verdict", !.status = status]
            /\ status = "failed" => (mm.epoch = job.epoch => aired[job.req] = 0)
    BY DEF SendAnswered, Verdict
  <1>5. /\ job' # Idle /\ job'.at = "verdict" /\ job'.req = job.req
        /\ job'.status \in {"sent", "failed", "unknown"}
        /\ job'.status = "failed" /\ aired[job.req] > 0 => Died(job.req)
        /\ job' = [at |-> job'.at, req |-> job'.req, epoch |-> job'.epoch, path |-> job'.path,
                   status |-> job'.status]
    <2>1. PICK status \in {"sent", "failed", "unknown"} :
            /\ job' = [job EXCEPT !.at = "verdict", !.status = status]
            /\ status = "failed" => (mm.epoch = job.epoch => aired[job.req] = 0)
      BY <1>4
    <2>2. PICK q, e, p, t : job = [at |-> "sending", req |-> q, epoch |-> e, path |-> p, status |-> t]
      BY <1>2
    <2>3. job' = [at |-> "verdict", req |-> q, epoch |-> e, path |-> p, status |-> status]
      BY <2>1, <2>2
    <2>4. job'.req = job.req /\ job'.status = status /\ job'.at = "verdict"
      BY <2>2, <2>3
    <2>5. status = "failed" /\ aired[job.req] > 0 => Died(job.req)
      BY <1>2, <2>1
    <2> QED
      BY <2>3, <2>4, <2>5 DEF Idle
  <1>6. aired \in [Requests -> Nat] /\ aired[job.req] <= 1
        /\ mm = [epoch |-> mm.epoch, next |-> mm.next, objects |-> mm.objects]
    BY <1>2 DEF MInv, ShapeInv, RowInv
  <1>7. job.at # "ami" /\ job'.at \in Stages \ {"ami"} /\ job'.at # "sending"
        /\ (job'.at \in BeforeAir => aired[job.req] = 0)
    BY <1>1, <1>2, <1>5 DEF Stages, BeforeAir
  <1> QED
    BY <1>1, <1>2, <1>3, <1>5, <1>6, <1>7, Working

LEMMA RecordVerdictKeeps ==
    ASSUME MInv, RecordVerdict, UNCHANGED vowifiVars
    PROVE  MInv' /\ Stands
  <1>1. job # Idle /\ job.at = "verdict"
    BY DEF RecordVerdict, Idle
  <1>2. /\ job.req \in Requests /\ rows[job.req].status = "pending"
        /\ rows[job.req].via = "cellular" /\ job.status \in {"sent", "failed", "unknown"}
        /\ job.status = "failed" /\ aired[job.req] > 0 => Died(job.req)
    BY <1>1 DEF MInv, ShapeInv, JobInv
  <1>3. /\ rows' = [rows EXCEPT ![job.req].status = job.status] /\ job' = Idle
        /\ aired' = aired /\ watchers' = watchers /\ mishaps' = mishaps /\ mm' = mm
    BY DEF RecordVerdict, vowifiVars
  <1>4. ShapeInv' /\ JobInv'
    BY <1>2, <1>3 DEF MInv, ShapeInv, JobInv, Rows, Statuses
  <1>5. RowInv' /\ WatchInv' /\ Stands
    BY <1>1, <1>2, <1>3 DEF MInv, ShapeInv, RowInv, WatchInv, Stands, Final, Died, Rows
  <1> QED
    BY <1>4, <1>5 DEF MInv

-----------------------------------------------------------------------------
(* ModemManager restarts, and so does the control plane.                   *)
LEMMA DaemonRestartsKeeps ==
    ASSUME MInv, DaemonRestarts, UNCHANGED vowifiVars
    PROVE  MInv' /\ Stands
  <1>1. rows' = rows /\ aired' = aired /\ job' = job /\ watchers' = watchers
    BY DEF DaemonRestarts, vowifiVars
  <1>2. mishaps \subseteq mishaps' /\ (job.at = "sending" => Died(job.req)')
    BY <1>1 DEF DaemonRestarts, Befall, Died
  <1>3. mm' = [epoch |-> mm'.epoch, next |-> mm'.next, objects |-> mm'.objects]
    <2>1. \E n, o : mm' = [epoch |-> mm.epoch + 1, next |-> n, objects |-> o]
      BY DEF DaemonRestarts
    <2> QED
      BY <2>1
  <1>4. ShapeInv'
    BY <1>1, <1>3 DEF MInv, ShapeInv
  <1>5. JobInv'
    BY <1>1, <1>2 DEF MInv, JobInv, Died
  <1>6. RowInv' /\ WatchInv' /\ Stands
    BY <1>1, <1>2 DEF MInv, RowInv, WatchInv, Stands, Died
  <1> QED
    BY <1>4, <1>5, <1>6 DEF MInv

LEMMA CrashKeeps ==
    ASSUME MInv, Crash
    PROVE  MInv' /\ Stands
  <1>1. /\ rows' = Settled /\ job' = Idle /\ watchers' = {}
        /\ aired' = aired /\ mishaps' = mishaps /\ mm' = mm
    BY DEF Crash, CellularCrash
  <1>2. \A r \in Requests :
            rows'[r] = IF rows[r].via = "cellular" /\ rows[r].status = "pending"
                       THEN [rows[r] EXCEPT !.status = "unknown"] ELSE rows[r]
    BY <1>1 DEF Settled
  <1>3. \A r \in Requests : rows[r] \in Rows
    BY DEF MInv, ShapeInv
  <1>4. ShapeInv' /\ JobInv'
    <2>1. \A r \in Requests : rows'[r] \in Rows
      BY <1>2, <1>3 DEF Rows, Statuses
    <2>2. rows' \in [Requests -> Rows]
      BY <1>1, <2>1 DEF Settled
    <2> QED
      BY <1>1, <2>2 DEF MInv, ShapeInv, JobInv
  <1>5. \A r \in Requests :
            \/ rows'[r] = rows[r] /\ ~(rows[r].via = "cellular" /\ rows[r].status = "pending")
            \/ /\ rows[r].via = "cellular" /\ rows[r].status = "pending"
               /\ rows'[r].via = "cellular" /\ rows'[r].status = "unknown"
    BY <1>2, <1>3 DEF Rows
  <1>6. RowInv'
    BY <1>1, <1>5 DEF MInv, RowInv, Died
  <1>7. WatchInv' /\ Stands
    BY <1>1, <1>5 DEF WatchInv, Stands, Final
  <1> QED
    BY <1>4, <1>6, <1>7 DEF MInv

-----------------------------------------------------------------------------
LEMMA PollKeeps ==
    ASSUME MInv, Polls
    PROVE  MInv' /\ Stands
  <1>1. UNCHANGED <<rows, aired, job, mm, watchers>> /\ mishaps \subseteq mishaps'
    BY DEF Polls, Poll, ScanBegins, Listed, ListingFails, Prune, Inspect, Claim, Befall, Import,
           vowifiVars
  <1> QED
    BY <1>1, SameEpoch, AsideKeeps DEF Aside

LEMMA SurroundingsKeep ==
    ASSUME MInv, Surroundings, UNCHANGED vowifiVars
    PROVE  MInv' /\ Stands
  <1>1. CASE TimePasses
    BY <1>1, SameEpoch, AsideKeeps DEF TimePasses, Aside, vowifiVars
  <1>2. CASE \E id \in Outgoing \cup Incoming : Appears(id)
    BY <1>2, SameEpoch, AsideKeeps DEF Appears, Aside, vowifiVars
  <1>3. CASE DaemonRestarts
    BY <1>3, DaemonRestartsKeeps
  <1> QED
    BY <1>1, <1>2, <1>3 DEF Surroundings

LEMMA NextKeeps ==
    ASSUME MInv, [Next]_vars
    PROVE  MInv' /\ Stands
  <1>1. CASE \E r \in Requests : UserAsks(r)
    BY <1>1, SendCellularKeeps, SendVowifiKeeps DEF UserAsks, SendAuto
  <1>2. CASE \E r \in Requests : Logs(r)
    BY <1>2, SameEpoch, AsideKeeps DEF Logs, Aside, cellularVars
  <1>3. CASE AmiAnswers
    BY <1>3, AmiAnswersKeeps
  <1>4. CASE \E w \in watchers : Watch(w)
    BY <1>4, WatchKeeps
  <1>5. CASE \E w \in watchers : WatchEnds(w)
    BY <1>5, SameEpoch, AsideKeeps DEF WatchEnds, Leaves, Aside, cellularVars
  <1>6. CASE Polls
    BY <1>6, PollKeeps
  <1>7. CASE Submits
    BY <1>7, CreateKeeps, BindKeeps, SendKeeps, SendAnsweredKeeps, RecordVerdictKeeps
       DEF Submits, Submit
  <1>8. CASE Surroundings /\ UNCHANGED vowifiVars
    BY <1>8, SurroundingsKeep
  <1>9. CASE Crash
    BY <1>9, CrashKeeps
  <1>10. CASE UNCHANGED vars
    BY <1>10, SameEpoch, AsideKeeps DEF vars, cellularVars, vowifiVars, Aside
  <1> QED
    BY <1>1, <1>2, <1>3, <1>4, <1>5, <1>6, <1>7, <1>8, <1>9, <1>10 DEF Next

LEMMA InitHolds ==
    ASSUME Init
    PROVE  MInv
  BY DEF Init, CellularInit, MInv, ShapeInv, JobInv, RowInv, WatchInv, Rows, Statuses

LEMMA SendsCorrect == Spec => []MInv
  BY InitHolds, NextKeeps, PTL DEF Spec

-----------------------------------------------------------------------------
(* A message goes out at most once, whatever the route, the answers, the   *)
(* timeouts and the crashes (send_sms_on_line, send, lifespan).            *)
THEOREM NeverSentTwice == Spec => []AiredAtMostOnce
  <1>1. MInv => AiredAtMostOnce
    BY DEF MInv, RowInv, AiredAtMostOnce
  <1> QED
    BY <1>1, SendsCorrect, PTL

(* A modem send that is told as failed has not gone out, unless            *)
(* ModemManager died over it (send).                                       *)
THEOREM FailedMeansNotSent == Spec => []FailedNeverAired
  <1>1. MInv => FailedNeverAired
    BY DEF MInv, RowInv, FailedNeverAired, Died
  <1> QED
    BY <1>1, SendsCorrect, PTL

(* A modem send that says pending is being worked on, also after a crash   *)
(* (_send_sms_cellular, lifespan).                                         *)
THEOREM NoPendingOrphan == Spec => []PendingHasSender
  <1>1. MInv => PendingHasSender
    BY DEF MInv, RowInv, PendingHasSender
  <1> QED
    BY <1>1, SendsCorrect, PTL

(* What the history has told of a message is not turned over by a later    *)
(* answer, log line or crash (update_message_delivery, lifespan).          *)
THEOREM VerdictsAreFinal == Spec => VerdictsStand
  <1>1. MInv /\ [Next]_vars => [\A r \in Requests :
            rows[r].status \in {"delivered", "failed", "unknown"} => rows'[r] = rows[r]]_vars
    BY NextKeeps DEF Stands, Final
  <1> QED
    BY <1>1, SendsCorrect, PTL DEF Spec, VerdictsStand

-----------------------------------------------------------------------------
(* Whose object is whose.                                                  *)

(* What may happen to a request before an own message is imported.         *)
Excused(r) == \E what \in Mishaps \ {"daemon restarted while sending"} : <<r, what>> \in mishaps
Claimed(r) == <<r, "claimed by another">> \in mishaps
Begun(r) == rows[r].status # "none"

(* ModemManager: paths are unique in one of its runs, and a request makes  *)
(* one object at most.                                                     *)
ObjectsInv ==
    /\ mm \in [epoch : 0 .. MaxEpoch, next : Nat, objects : SUBSET Objects]
    /\ IsFiniteSet(mm.objects)
    /\ \A o \in mm.objects : o.path < mm.next /\ (o.id \in Requests => Begun(o.id))
    /\ \A o, p \in mm.objects : o.path = p.path => o = p
    /\ \A o, p \in mm.objects : o.id \in Requests /\ o.id = p.id => o = p

(* A bound mark of the current epoch names an object, and that of its own  *)
(* send unless it was claimed.                                             *)
MarkInv ==
    \A m \in marks :
        /\ m.epoch <= mm.epoch
        /\ m.cancelled => m.path = NoPath
        /\ Begun(m.req) /\ \A q \in m.older : Begun(q)
        /\ m.epoch = mm.epoch /\ m.path # NoPath =>
              \E o \in mm.objects : o.path = m.path /\ (o.id = m.req \/ Claimed(m.req))

(* Mark m keeps an object under path from being imported.                  *)
Guards(m, r, path) ==
    /\ m.req = r /\ m.epoch = mm.epoch /\ ~ m.cancelled
    /\ m.path = path \/ (m.path = NoPath /\ m.age = "claimable")
GuardInv ==
    \A o \in mm.objects : o.id \in Requests =>
        Excused(o.id) \/ \E m \in marks : Guards(m, o.id, o.path)

(* The send under way, as far as its object is bound.                      *)
Reservation(m) ==
    /\ m.req = job.req /\ m.epoch = job.epoch
    /\ m.path = NoPath /\ ~ m.cancelled /\ m.age = "claimable"
SendInv ==
    /\ job.at \in {"reserved", "created"} => \A m \in marks : m.req = job.req => m.age = "claimable"
    /\ job.at = "reserved" =>
          /\ job.epoch \in 0 .. mm.epoch
          /\ \A o \in mm.objects : o.id # job.req
          /\ Excused(job.req) \/ \E m \in marks : Reservation(m)
    /\ job.at = "created" =>
          /\ job.epoch \in 0 .. mm.epoch
          /\ job.epoch = mm.epoch => [id |-> job.req, path |-> job.path] \in mm.objects

(* A poll that knows its epoch has seen every object whose mark is old     *)
(* enough to be pruned.                                                    *)
OldMarks == {m \in marks : m.age = "disposable"}
ScanInv ==
    /\ scan = [at |-> scan.at, epoch |-> scan.epoch, todo |-> scan.todo, paths |-> scan.paths,
               complete |-> scan.complete, found |-> scan.found]
    /\ scan.at \in {"idle", "epoch", "objects", "import"}
    /\ scan.epoch = NoEpoch \/ scan.epoch \in 0 .. mm.epoch
    /\ scan.at # "idle" /\ scan.epoch # NoEpoch => \A m \in OldMarks : m.epoch <= scan.epoch
    /\ scan.at = "objects" /\ scan.complete /\ scan.epoch = mm.epoch =>
          \A m \in OldMarks : m.epoch = mm.epoch /\ m.path # NoPath => m.path \in scan.paths
    /\ scan.at = "idle" => scan = NoScan
    /\ scan.at = "epoch" => ~ scan.complete

(* What is imported, or about to be.                                       *)
Rightful(item) == item.id \in Requests => item.epoch # item.made \/ Excused(item.id)
FoundInv == \A item \in shown \cup scan.found : Rightful(item)

HistoryInv ==
    /\ mishaps \subseteq Requests \X Mishaps
    /\ watchers \subseteq [req : Requests, since : 0 .. MaxLog]
    /\ logged \in Seq([req : Requests, what : {"ack", "error", "accepted", "rejected"}])
    /\ Len(logged) <= MaxLog
    /\ job.at = "ami" => job.since \in 0 .. MaxLog

CoreInv ==
    /\ ObjectsInv /\ MarksTypeOK /\ MarkInv /\ GuardInv /\ SendInv /\ ScanInv /\ FoundInv
OInv == CoreInv /\ HistoryInv

-----------------------------------------------------------------------------
(* What a step does not take back.                                         *)
Grows ==
    /\ \A r \in Requests : Begun(r) => Begun(r)'
    /\ mishaps \subseteq mishaps'

LEMMA GrowsExcuses ==
    ASSUME Grows
    PROVE  /\ \A r : Excused(r) => Excused(r)'
           /\ \A r : Claimed(r) => Claimed(r)'
           /\ \A item : Rightful(item) => Rightful(item)'
  BY DEF Grows, Excused, Claimed, Rightful

LEMMA ClaimedExcuses ==
    ASSUME NEW r
    PROVE  (Claimed(r) => Excused(r)) /\ (Claimed(r)' => Excused(r)')
  <1>1. "claimed by another" \in Mishaps \ {"daemon restarted while sending"}
    BY DEF Mishaps
  <1> QED
    BY <1>1 DEF Claimed, Excused

LEMMA MarkTypes ==
    ASSUME MarksTypeOK, NEW m \in marks
    PROVE  /\ m \in Marks /\ m.req \in Requests /\ m.older \subseteq Requests
           /\ m.epoch \in 0 .. MaxEpoch /\ m.path \in Nat \cup {NoPath}
           /\ \A q \in m.older : q \in Requests
  BY DEF MarksTypeOK, Marks

LEMMA ObjectTypes ==
    ASSUME ObjectsInv
    PROVE  /\ mm.epoch \in 0 .. MaxEpoch /\ mm.epoch \in Nat /\ mm.next \in Nat
           /\ mm.objects \subseteq Objects
           /\ \A o \in mm.objects : o = [id |-> o.id, path |-> o.path] /\ o.path \in Nat
                                    /\ o.id \in Requests \cup Outgoing \cup Incoming
  <1>1. /\ mm.epoch \in 0 .. MaxEpoch /\ mm.next \in Nat /\ mm.objects \subseteq Objects
    BY DEF ObjectsInv
  <1> QED
    BY <1>1, CellularAssumption DEF Objects

LEMMA MarkInvStays ==
    ASSUME MarksTypeOK, MarkInv, Grows, mm' = mm, NEW m \in marks
    PROVE  /\ m.epoch <= mm'.epoch
           /\ m.cancelled => m.path = NoPath
           /\ Begun(m.req)' /\ \A q \in m.older : Begun(q)'
           /\ m.epoch = mm'.epoch /\ m.path # NoPath =>
                 \E o \in mm'.objects : o.path = m.path /\ (o.id = m.req \/ Claimed(m.req)')
  <1>1. m.req \in Requests /\ \A q \in m.older : q \in Requests
    BY MarkTypes
  <1> QED
    BY <1>1, GrowsExcuses DEF MarkInv, Grows

(* Most steps leave the marks, the objects and the poll as they are.       *)
Calm == job' = job \/ job'.at \notin {"reserved", "created"}

LEMMA CalmKeeps ==
    ASSUME SendInv, Grows, Calm, UNCHANGED <<mm, marks>>
    PROVE  SendInv'
  <1>1. CASE job'.at \notin {"reserved", "created"}
    BY <1>1 DEF SendInv
  <1>2. CASE job' = job
    BY <1>2, GrowsExcuses DEF SendInv, Reservation
  <1> QED
    BY <1>1, <1>2 DEF Calm

LEMMA SameMarks ==
    ASSUME ObjectsInv, MarksTypeOK, MarkInv, GuardInv, Grows, UNCHANGED <<mm, marks>>
    PROVE  ObjectsInv' /\ MarksTypeOK' /\ MarkInv' /\ GuardInv'
  <1>1. ObjectsInv'
    BY DEF ObjectsInv, Grows, Begun
  <1>2. MarksTypeOK'
    BY DEF MarksTypeOK
  <1>3. MarkInv'
    <2>1. \A m \in marks : /\ m.epoch <= mm'.epoch
                           /\ m.cancelled => m.path = NoPath
                           /\ Begun(m.req)' /\ \A q \in m.older : Begun(q)'
                           /\ m.epoch = mm'.epoch /\ m.path # NoPath =>
                                \E o \in mm'.objects : o.path = m.path /\ (o.id = m.req \/ Claimed(m.req)')
      BY MarkInvStays
    <2> QED
      BY <2>1 DEF MarkInv, Claimed, Begun
  <1>4. GuardInv'
    BY GrowsExcuses DEF GuardInv, Guards
  <1> QED
    BY <1>1, <1>2, <1>3, <1>4

LEMMA PollMoves ==
    ASSUME ObjectsInv, MarksTypeOK, MarkInv, GuardInv, SendInv, Grows, Calm,
           UNCHANGED <<mm, marks>>, ScanInv', FoundInv'
    PROVE  CoreInv'
  BY SameMarks, CalmKeeps DEF CoreInv

LEMMA QuietKeeps ==
    ASSUME CoreInv, Grows, Calm, UNCHANGED <<mm, marks, scan, shown>>
    PROVE  CoreInv'
  <1>1. ScanInv'
    BY DEF CoreInv, ScanInv, OldMarks
  <1>2. FoundInv'
    BY GrowsExcuses DEF CoreInv, FoundInv
  <1> QED
    BY <1>1, <1>2, PollMoves DEF CoreInv

-----------------------------------------------------------------------------
(* The poller.                                                             *)
LEMMA ScanBeginsKeeps ==
    ASSUME CoreInv, Grows, ScanBegins
    PROVE  CoreInv'
  <1>1. /\ UNCHANGED <<mm, marks, job, shown>>
    BY DEF ScanBegins
  <1>2. PICK epoch \in {mm.epoch, NoEpoch} : scan' = [NoScan EXCEPT !.at = "epoch", !.epoch = epoch]
    BY DEF ScanBegins
  <1>3. scan' = [at |-> "epoch", epoch |-> epoch, todo |-> {}, paths |-> {}, complete |-> FALSE, found |-> {}]
    BY <1>2 DEF NoScan
  <1>4. mm.epoch \in Nat
    BY ObjectTypes DEF CoreInv
  <1>5. \A m \in marks : m.epoch <= mm.epoch
    BY DEF CoreInv, MarkInv
  <1>6. ScanInv'
    <2>1. /\ scan'.at = "epoch" /\ scan'.epoch = epoch /\ ~ scan'.complete
          /\ scan' = [at |-> scan'.at, epoch |-> scan'.epoch, todo |-> scan'.todo, paths |-> scan'.paths,
                      complete |-> scan'.complete, found |-> scan'.found]
      BY <1>3
    <2>2. epoch = NoEpoch \/ epoch \in 0 .. mm.epoch
      BY <1>2, <1>4
    <2>3. epoch # NoEpoch => \A m \in OldMarks' : m.epoch <= epoch
      BY <1>1, <1>2, <1>5 DEF OldMarks
    <2> QED
      BY <1>1, <2>1, <2>2, <2>3 DEF ScanInv
  <1>7. FoundInv'
    BY <1>1, <1>3, GrowsExcuses DEF CoreInv, FoundInv
  <1> QED
    BY <1>1, <1>6, <1>7, PollMoves DEF CoreInv, Calm

LEMMA ListedKeeps ==
    ASSUME CoreInv, Grows, Listed
    PROVE  CoreInv'
  <1>1. /\ UNCHANGED <<mm, marks, job, shown>> /\ scan.at = "epoch"
    BY DEF Listed
  <1>2. scan' = [at |-> "objects", epoch |-> scan.epoch, todo |-> Paths, paths |-> Paths, complete |-> TRUE,
                 found |-> scan.found]
    <2>1. scan = [at |-> scan.at, epoch |-> scan.epoch, todo |-> scan.todo, paths |-> scan.paths,
                  complete |-> scan.complete, found |-> scan.found]
      BY DEF CoreInv, ScanInv
    <2> QED
      BY <2>1, Zenon DEF Listed
  <1>3. \A m \in OldMarks : m.epoch = mm.epoch /\ m.path # NoPath => m.path \in Paths
    BY DEF CoreInv, MarkInv, OldMarks, Paths
  <1>4. ScanInv'
    BY <1>1, <1>2, <1>3 DEF CoreInv, ScanInv, OldMarks
  <1>5. FoundInv'
    BY <1>1, <1>2, GrowsExcuses DEF CoreInv, FoundInv
  <1> QED
    BY <1>1, <1>4, <1>5, PollMoves DEF CoreInv, Calm

LEMMA ListingFailsKeeps ==
    ASSUME CoreInv, Grows, ListingFails
    PROVE  CoreInv'
  <1>1. /\ UNCHANGED <<mm, marks, job, shown>> /\ scan.at = "epoch"
    BY DEF ListingFails
  <1>2. scan' = [at |-> "objects", epoch |-> scan.epoch, todo |-> scan.todo, paths |-> scan.paths,
                 complete |-> scan.complete, found |-> scan.found]
    <2>1. scan = [at |-> scan.at, epoch |-> scan.epoch, todo |-> scan.todo, paths |-> scan.paths,
                  complete |-> scan.complete, found |-> scan.found]
      BY DEF CoreInv, ScanInv
    <2> QED
      BY <2>1, Zenon DEF ListingFails
  <1>3. ~ scan.complete
    BY <1>1 DEF CoreInv, ScanInv
  <1>4. ScanInv'
    BY <1>1, <1>2, <1>3 DEF CoreInv, ScanInv, OldMarks
  <1>5. FoundInv'
    BY <1>1, <1>2, GrowsExcuses DEF CoreInv, FoundInv
  <1> QED
    BY <1>1, <1>4, <1>5, PollMoves DEF CoreInv, Calm

-----------------------------------------------------------------------------
(* Binding a mark.                                                         *)
Bound(m, path) == [m EXCEPT !.path = path]

LEMMA BoundFields ==
    ASSUME NEW m \in Marks, NEW path \in Nat
    PROVE  /\ Bound(m, path) \in Marks
           /\ Bound(m, path).req = m.req /\ Bound(m, path).older = m.older
           /\ Bound(m, path).epoch = m.epoch /\ Bound(m, path).path = path
           /\ Bound(m, path).cancelled = m.cancelled /\ Bound(m, path).age = m.age
  BY ZenonT(30) DEF Bound, Marks

Binds(m, o) ==
    /\ m \in marks /\ o \in mm.objects /\ m.path = NoPath /\ ~ m.cancelled
    /\ marks' = BoundTo(m, o.path)
    /\ o.id = m.req \/ Claimed(m.req)'
    /\ \A n \in marks : n.epoch = m.epoch /\ n.path = o.path => n.req # o.id

LEMMA BindsKeeps ==
    ASSUME ObjectsInv, MarksTypeOK, MarkInv, GuardInv, Grows, mm' = mm, NEW m, NEW o, Binds(m, o)
    PROVE  ObjectsInv' /\ MarksTypeOK' /\ MarkInv' /\ GuardInv'
  <1> DEFINE b == Bound(m, o.path)
  <1>1. /\ m \in marks /\ o \in mm.objects /\ m.path = NoPath /\ ~ m.cancelled
        /\ o.id = m.req \/ Claimed(m.req)'
        /\ \A n \in marks : n.epoch = m.epoch /\ n.path = o.path => n.req # o.id
    BY DEF Binds
  <1>2. o.path \in Nat /\ o.path # NoPath /\ m \in Marks
    BY <1>1, ObjectTypes, MarkTypes DEF NoPath
  <1>3. /\ b \in Marks /\ b.req = m.req /\ b.older = m.older /\ b.epoch = m.epoch /\ b.path = o.path
        /\ b.cancelled = m.cancelled /\ b.age = m.age
    BY <1>2, BoundFields
  <1>4. marks' = {n \in marks \ {m} : n.epoch # m.epoch \/ n.path # o.path} \cup {b}
    BY DEF Binds, BoundTo, Bound
  <1> HIDE DEF b
  <1>5. \A n \in marks' : n = b \/ (n \in marks /\ n # m /\ (n.epoch # m.epoch \/ n.path # o.path))
    BY <1>4
  <1>6. ObjectsInv'
    BY DEF ObjectsInv, Grows, Begun
  <1>7. MarksTypeOK'
    <2>1. marks' \subseteq Marks
      BY <1>3, <1>5 DEF MarksTypeOK
    <2>2. ASSUME NEW k \in marks', NEW n \in marks', k # n
          PROVE  /\ k.req # n.req
                 /\ k.req \in n.older <=> n.req \notin k.older
                 /\ k.path # NoPath /\ k.epoch = n.epoch => k.path # n.path
      <3>1. CASE k # b /\ n # b
        BY <1>5, <2>2, <3>1 DEF MarksTypeOK
      <3>2. CASE k = b /\ n # b
        BY <1>1, <1>3, <1>5, <3>2 DEF MarksTypeOK
      <3>3. CASE k # b /\ n = b
        BY <1>1, <1>3, <1>5, <3>3 DEF MarksTypeOK
      <3> QED
        BY <2>2, <3>1, <3>2, <3>3
    <2> QED
      BY <2>1, <2>2 DEF MarksTypeOK
  <1>8. MarkInv'
    <2>1. ASSUME NEW n \in marks'
          PROVE  /\ n.epoch <= mm'.epoch
                 /\ n.cancelled => n.path = NoPath
                 /\ Begun(n.req)' /\ \A q \in n.older : Begun(q)'
                 /\ n.epoch = mm'.epoch /\ n.path # NoPath =>
                       \E p \in mm'.objects : p.path = n.path /\ (p.id = n.req \/ Claimed(n.req)')
      <3>1. CASE n = b
        <4>1. m.epoch <= mm'.epoch /\ Begun(m.req)' /\ \A q \in m.older : Begun(q)'
          BY <1>1, MarkInvStays
        <4> QED
          BY <1>1, <1>3, <3>1, <4>1
      <3>2. CASE n \in marks
        BY <3>2, MarkInvStays
      <3> QED
        BY <1>5, <3>1, <3>2
    <2> QED
      BY <2>1 DEF MarkInv, Claimed, Begun
  <1>9. GuardInv'
    <2>1. ASSUME NEW p \in mm.objects, p.id \in Requests
          PROVE  Excused(p.id)' \/ \E n \in marks' : Guards(n, p.id, p.path)
      <3>1. CASE Excused(p.id)
        BY <3>1, GrowsExcuses
      <3>2. CASE \E n \in marks : Guards(n, p.id, p.path)
        <4>1. PICK g \in marks : Guards(g, p.id, p.path)
          BY <3>2
        <4>2. CASE g = m
          <5>1. m.epoch = mm.epoch /\ m.req = p.id
            BY <4>1, <4>2 DEF Guards
          <5>2. CASE o.id = m.req
            <6>1. p = o
              BY <1>1, <2>1, <5>1, <5>2 DEF ObjectsInv
            <6>2. Guards(b, p.id, p.path)
              BY <1>1, <1>3, <5>1, <6>1 DEF Guards
            <6> QED
              BY <1>4, <6>2
          <5>3. CASE Claimed(m.req)'
            BY <5>1, <5>3 DEF Claimed, Excused, Mishaps
          <5> QED
            BY <1>1, <5>1, <5>2, <5>3
        <4>3. CASE g # m
          <5>1. ~(g.epoch = m.epoch /\ g.path = o.path)
            <6> SUFFICES ASSUME g.epoch = m.epoch, g.path = o.path PROVE FALSE
              OBVIOUS
            <6>1. g.path = p.path /\ g.req = p.id
              BY <1>2, <4>1 DEF Guards
            <6>2. p = o
              BY <1>1, <6>1 DEF ObjectsInv
            <6> QED
              BY <1>1, <6>1, <6>2
          <5>2. g \in marks'
            BY <1>4, <4>3, <5>1
          <5> QED
            BY <4>1, <5>2
        <4> QED
          BY <4>2, <4>3
      <3> QED
        BY <2>1, <3>1, <3>2 DEF GuardInv
    <2>2. \A n, r, path : Guards(n, r, path)' <=> Guards(n, r, path)
      BY DEF Guards
    <2> QED
      BY <2>1, <2>2 DEF GuardInv
  <1> QED
    BY <1>6, <1>7, <1>8, <1>9

-----------------------------------------------------------------------------
(* A poll goes on: it forgets nothing it has to remember.                  *)
GoesOn ==
    /\ scan' = [at |-> scan.at, epoch |-> scan.epoch, todo |-> scan'.todo, paths |-> scan.paths,
                complete |-> scan.complete, found |-> scan'.found]
    /\ scan.at # "idle"
    /\ mm' = mm /\ OldMarks' \subseteq OldMarks

LEMMA GoesOnKeeps ==
    ASSUME ScanInv, GoesOn
    PROVE  ScanInv'
  <1>1. /\ scan'.at = scan.at /\ scan'.epoch = scan.epoch /\ scan'.paths = scan.paths
        /\ scan'.complete = scan.complete /\ mm' = mm /\ OldMarks' \subseteq OldMarks /\ scan.at # "idle"
        /\ scan' = [at |-> scan'.at, epoch |-> scan'.epoch, todo |-> scan'.todo, paths |-> scan'.paths,
                    complete |-> scan'.complete, found |-> scan'.found]
    BY DEF GoesOn
  <1> QED
    BY <1>1 DEF ScanInv

(* The next object is passed over, found, or claimed.                      *)
Passed(path) == [at |-> scan.at, epoch |-> scan.epoch, todo |-> scan.todo \ {path}, paths |-> scan.paths,
                 complete |-> scan.complete, found |-> scan.found]
Item(o) == [id |-> o.id, path |-> o.path, epoch |-> scan.epoch, made |-> mm.epoch]
Foreign(o) == Dir(o) = "in" \/ (~ Known(scan.epoch, o) /\ Claimable(scan.epoch, o.id) = {})

LEMMA TodoReplaced ==
    ASSUME NEW s, NEW t, NEW x, x = [s EXCEPT !.todo = t],
           s = [at |-> s.at, epoch |-> s.epoch, todo |-> s.todo, paths |-> s.paths,
                complete |-> s.complete, found |-> s.found]
    PROVE  x = [at |-> s.at, epoch |-> s.epoch, todo |-> t, paths |-> s.paths,
                complete |-> s.complete, found |-> s.found]
  BY ZenonT(30)

LEMMA InspectIs ==
    ASSUME CoreInv, NEW path, Inspect(path)
    PROVE  /\ UNCHANGED <<mm, job, shown>> /\ scan.at = "objects"
           /\ \/ scan' = Passed(path) /\ marks' = marks
              \/ \E o \in mm.objects :
                    /\ Foreign(o) /\ marks' = marks
                    /\ scan' = [Passed(path) EXCEPT !.found = scan.found \cup {Item(o)}]
              \/ \E o \in mm.objects :
                    scan' = Passed(path) /\ scan.epoch # NoEpoch /\ ~ Known(scan.epoch, o) /\ Claim(o)
  <1>1. scan = [at |-> scan.at, epoch |-> scan.epoch, todo |-> scan.todo, paths |-> scan.paths,
                complete |-> scan.complete, found |-> scan.found]
    BY DEF CoreInv, ScanInv
  <1>2. [scan EXCEPT !.todo = @ \ {path}] = Passed(path)
    BY <1>1, TodoReplaced DEF Passed
  <1>3. UNCHANGED <<mm, job, shown>> /\ scan.at = "objects"
    BY DEF Inspect
  <1>4. \/ scan' = Passed(path) /\ marks' = marks
        \/ \E o \in mm.objects :
              \/ /\ Foreign(o) /\ marks' = marks
                 /\ scan' = [Passed(path) EXCEPT !.found = Found(o)]
              \/ scan' = Passed(path) /\ marks' = marks
              \/ scan' = Passed(path) /\ scan.epoch # NoEpoch /\ ~ Known(scan.epoch, o) /\ Claim(o)
    BY <1>2, Zenon DEF Inspect, Foreign
  <1>5. \A o : Found(o) = scan.found \cup {Item(o)}
    BY DEF Found, Item
  <1> QED
    BY <1>3, <1>4, <1>5

(* What is found unmarked is not the request's own.                        *)
LEMMA ForeignIsRightful ==
    ASSUME CoreInv, NEW o \in mm.objects, Foreign(o)
    PROVE  Rightful(Item(o))
  <1>1. SUFFICES ASSUME o.id \in Requests, scan.epoch = mm.epoch PROVE Excused(o.id)
    BY DEF Rightful, Item
  <1>2. ~ Known(scan.epoch, o) /\ Claimable(scan.epoch, o.id) = {}
    BY <1>1, CellularAssumption DEF Foreign, Dir
  <1>3. ASSUME NEW m \in marks, Guards(m, o.id, o.path)
        PROVE  FALSE
    <2>1. CASE m.path = o.path
      BY <1>1, <1>2, <1>3, <2>1 DEF Guards, Known
    <2>2. CASE m.path = NoPath /\ m.age = "claimable"
      BY <1>1, <1>2, <1>3, <2>2 DEF Guards, Claimable
    <2> QED
      BY <1>3, <2>1, <2>2 DEF Guards
  <1> QED
    BY <1>1, <1>3 DEF CoreInv, GuardInv

LEMMA ClaimBinds ==
    ASSUME CoreInv, Grows, mm' = mm, NEW o \in mm.objects, ~ Known(scan.epoch, o), Claim(o)
    PROVE  \E m \in marks : Binds(m, o) /\ m.age = "claimable"
  <1>1. PICK m \in Newest(Claimable(scan.epoch, o.id)) :
            /\ marks' = BoundTo(m, o.path)
            /\ IF o.id = m.req THEN UNCHANGED mishaps ELSE Befall(m.req, "claimed by another")
    BY DEF Claim
  <1>2. /\ m \in marks /\ m.epoch = scan.epoch /\ m.path = NoPath /\ m.age = "claimable"
        /\ ~ m.cancelled
    BY DEF Newest, Claimable
  <1>3. o.id = m.req \/ Claimed(m.req)'
    BY <1>1 DEF Befall, Claimed
  <1>4. \A n \in marks : n.epoch = m.epoch /\ n.path = o.path => n.req # o.id
    BY <1>2 DEF Known
  <1> QED
    BY <1>1, <1>2, <1>3, <1>4 DEF Binds

LEMMA BoundOld ==
    ASSUME MarksTypeOK, ObjectsInv, NEW m, NEW o, Binds(m, o), m.age = "claimable"
    PROVE  /\ OldMarks' \subseteq OldMarks
           /\ \A n \in marks' : \E l \in marks : n.req = l.req /\ n.age = l.age
  <1>1. m \in Marks /\ o.path \in Nat /\ m \in marks
    BY MarkTypes, ObjectTypes DEF Binds
  <1>2. /\ Bound(m, o.path).age = "claimable" /\ Bound(m, o.path).req = m.req
    BY <1>1, BoundFields
  <1>3. \A n \in marks' : n \in marks \/ n = Bound(m, o.path)
    BY DEF Binds, BoundTo, Bound
  <1> QED
    BY <1>1, <1>2, <1>3 DEF OldMarks

LEMMA InspectKeeps ==
    ASSUME CoreInv, Grows, NEW path, Inspect(path)
    PROVE  CoreInv'
  <1>1. UNCHANGED <<mm, job, shown>> /\ scan.at = "objects"
    BY InspectIs
  <1>2. /\ Passed(path).found = scan.found
        /\ Passed(path) = [at |-> scan.at, epoch |-> scan.epoch, todo |-> Passed(path).todo,
                           paths |-> scan.paths, complete |-> scan.complete, found |-> Passed(path).found]
    BY DEF Passed
  <1>3. CASE scan' = Passed(path) /\ marks' = marks
    <2>1. ScanInv'
      BY <1>1, <1>2, <1>3, GoesOnKeeps DEF GoesOn, OldMarks, CoreInv
    <2>2. FoundInv'
      BY <1>1, <1>2, <1>3, GrowsExcuses DEF CoreInv, FoundInv
    <2> QED
      BY <1>1, <1>3, <2>1, <2>2, PollMoves DEF CoreInv, Calm
  <1>4. ASSUME NEW o \in mm.objects, Foreign(o), marks' = marks,
               scan' = [Passed(path) EXCEPT !.found = scan.found \cup {Item(o)}]
        PROVE  CoreInv'
    <2>1. scan' = [at |-> scan.at, epoch |-> scan.epoch, todo |-> scan.todo \ {path}, paths |-> scan.paths,
                   complete |-> scan.complete, found |-> scan.found \cup {Item(o)}]
      BY <1>4, Zenon DEF Passed
    <2>2. ScanInv'
      <3>1. scan'.todo = scan.todo \ {path} /\ scan'.found = scan.found \cup {Item(o)}
        BY <2>1
      <3>2. GoesOn
        BY <1>1, <1>4, <2>1, <3>1 DEF GoesOn, OldMarks
      <3> QED
        BY <3>2, GoesOnKeeps DEF CoreInv
    <2>3. Rightful(Item(o))
      BY <1>4, ForeignIsRightful
    <2>4. \A item \in shown' \cup scan'.found : Rightful(item)
      BY <1>1, <2>1, <2>3 DEF CoreInv, FoundInv
    <2>5. FoundInv'
      BY <2>4, GrowsExcuses DEF FoundInv
    <2> QED
      BY <1>1, <1>4, <2>2, <2>5, PollMoves DEF CoreInv, Calm
  <1>5. ASSUME NEW o \in mm.objects, scan' = Passed(path), ~ Known(scan.epoch, o), Claim(o)
        PROVE  CoreInv'
    <2>1. PICK m \in marks : Binds(m, o) /\ m.age = "claimable"
      BY <1>1, <1>5, ClaimBinds
    <2>2. OldMarks' \subseteq OldMarks /\ \A n \in marks' : \E l \in marks : n.req = l.req /\ n.age = l.age
      BY <2>1, BoundOld DEF CoreInv
    <2>3. ObjectsInv' /\ MarksTypeOK' /\ MarkInv' /\ GuardInv'
      BY <1>1, <2>1, BindsKeeps DEF CoreInv
    <2>4. ScanInv'
      BY <1>1, <1>2, <1>5, <2>2, GoesOnKeeps DEF GoesOn, CoreInv
    <2>5. FoundInv'
      BY <1>1, <1>2, <1>5, GrowsExcuses DEF CoreInv, FoundInv
    <2>6. SendInv'
      <3>1. job.at = "reserved" => Excused(job.req)' \/ \E n \in marks' : Reservation(n)
        <4> SUFFICES ASSUME job.at = "reserved", ~ Excused(job.req)'
                     PROVE  \E n \in marks' : Reservation(n)
          OBVIOUS
        <4>0. ~ Excused(job.req)
          BY <1>1 DEF Excused, Grows
        <4>1. PICK n \in marks : Reservation(n)
          BY <4>0 DEF CoreInv, SendInv
        <4>2. \A p \in mm.objects : p.id # job.req
          BY DEF CoreInv, SendInv
        <4>3. n # m
          <5> SUFFICES ASSUME n = m PROVE FALSE
            OBVIOUS
          <5>1. m.epoch = job.epoch /\ m.req = job.req /\ o.id # job.req
            BY <4>1, <4>2 DEF Reservation
          <5>2. Claimed(m.req)'
            BY <2>1, <5>1 DEF Binds
          <5>3. Excused(m.req)'
            BY <5>2, ClaimedExcuses
          <5>4. Excused(job.req)'
            BY <1>1, <5>1, <5>3 DEF Excused
          <5> QED
            BY <1>1, <5>4
        <4>4. n.path # o.path
          BY <4>1, ObjectTypes DEF Reservation, NoPath, CoreInv
        <4> QED
          BY <2>1, <4>1, <4>3, <4>4 DEF Binds, BoundTo
      <3>2. \A n : Reservation(n)' <=> Reservation(n)
        BY <1>1 DEF Reservation
      <3>3. \A n \in marks' : job.at \in {"reserved", "created"} /\ n.req = job.req => n.age = "claimable"
        BY <2>2 DEF CoreInv, SendInv
      <3> QED
        BY <1>1, <3>1, <3>2, <3>3 DEF CoreInv, SendInv
    <2> QED
      BY <2>3, <2>4, <2>5, <2>6 DEF CoreInv
  <1> QED
    BY <1>3, <1>4, <1>5, InspectIs

LEMMA EndedScan ==
    ASSUME scan' = NoScan
    PROVE  ScanInv'
  <1>1. /\ scan'.at = "idle" /\ scan'.epoch = NoEpoch
        /\ scan' = [at |-> scan'.at, epoch |-> scan'.epoch, todo |-> scan'.todo, paths |-> scan'.paths,
                    complete |-> scan'.complete, found |-> scan'.found]
    BY DEF NoScan
  <1>2. NoScan' = NoScan /\ NoEpoch' = NoEpoch
    BY DEF NoScan, NoEpoch
  <1> QED
    BY <1>1, <1>2 DEF ScanInv

(* What was found becomes history, or is history already.                  *)
LEMMA FoundReplaced ==
    ASSUME NEW s, NEW t, NEW x, x = [s EXCEPT !.found = t],
           s = [at |-> s.at, epoch |-> s.epoch, todo |-> s.todo, paths |-> s.paths,
                complete |-> s.complete, found |-> s.found]
    PROVE  x = [at |-> s.at, epoch |-> s.epoch, todo |-> s.todo, paths |-> s.paths,
                complete |-> s.complete, found |-> t]
  BY ZenonT(30)

LEMMA AtReplaced ==
    ASSUME NEW s, NEW t, NEW x, x = [s EXCEPT !.at = t],
           s = [at |-> s.at, epoch |-> s.epoch, todo |-> s.todo, paths |-> s.paths,
                complete |-> s.complete, found |-> s.found]
    PROVE  x = [at |-> t, epoch |-> s.epoch, todo |-> s.todo, paths |-> s.paths,
                complete |-> s.complete, found |-> s.found]
  BY ZenonT(30)

LEMMA ImportKeeps ==
    ASSUME CoreInv, Grows, NEW item \in scan.found, Import(item)
    PROVE  CoreInv'
  <1>1. /\ UNCHANGED <<mm, marks, job>> /\ scan.at = "import"
        /\ scan' = IF scan.found = {item} THEN NoScan ELSE [scan EXCEPT !.found = @ \ {item}]
        /\ shown' \subseteq shown \cup {item}
    BY DEF Import
  <1>2. CASE scan' = NoScan
    <2>1. scan'.found = {}
      BY <1>2 DEF NoScan
    <2>2. \A i \in shown' \cup scan'.found : Rightful(i)
      BY <1>1, <2>1 DEF CoreInv, FoundInv
    <2>3. FoundInv'
      BY <2>2, GrowsExcuses DEF FoundInv
    <2> QED
      BY <1>1, <1>2, <2>3, EndedScan, PollMoves DEF CoreInv, Calm
  <1>3. CASE scan' = [scan EXCEPT !.found = @ \ {item}]
    <2>1. scan' = [at |-> scan.at, epoch |-> scan.epoch, todo |-> scan.todo, paths |-> scan.paths,
                   complete |-> scan.complete, found |-> scan.found \ {item}]
      BY <1>3, FoundReplaced DEF CoreInv, ScanInv
    <2>2. scan'.todo = scan.todo /\ scan'.found = scan.found \ {item}
      BY <2>1
    <2>3. GoesOn
      BY <1>1, <2>1, <2>2 DEF GoesOn, OldMarks
    <2>4. ScanInv'
      BY <2>3, GoesOnKeeps DEF CoreInv
    <2>5. \A i \in shown' \cup scan'.found : Rightful(i)
      BY <1>1, <2>2 DEF CoreInv, FoundInv
    <2>6. FoundInv'
      BY <2>5, GrowsExcuses DEF FoundInv
    <2> QED
      BY <1>1, <2>4, <2>6, PollMoves DEF CoreInv, Calm
  <1> QED
    BY <1>1, <1>2, <1>3

(* Marks that guard nothing may go.                                        *)
LEMMA FewerMarks ==
    ASSUME ObjectsInv, MarksTypeOK, MarkInv, GuardInv, Grows, mm' = mm, marks' \subseteq marks,
           \A m \in marks \ marks' : \A o \in mm.objects : ~ Guards(m, o.id, o.path)
    PROVE  ObjectsInv' /\ MarksTypeOK' /\ MarkInv' /\ GuardInv'
  <1>1. ObjectsInv'
    BY DEF ObjectsInv, Grows, Begun
  <1>2. MarksTypeOK'
    BY DEF MarksTypeOK
  <1>3. MarkInv'
    <2>1. \A m \in marks' : /\ m.epoch <= mm'.epoch
                            /\ m.cancelled => m.path = NoPath
                            /\ Begun(m.req)' /\ \A q \in m.older : Begun(q)'
                            /\ m.epoch = mm'.epoch /\ m.path # NoPath =>
                                 \E o \in mm'.objects : o.path = m.path /\ (o.id = m.req \/ Claimed(m.req)')
      BY MarkInvStays
    <2> QED
      BY <2>1 DEF MarkInv, Claimed, Begun
  <1>4. GuardInv'
    <2>1. ASSUME NEW o \in mm.objects, o.id \in Requests
          PROVE  Excused(o.id)' \/ \E m \in marks' : Guards(m, o.id, o.path)
      <3>1. CASE Excused(o.id)
        BY <3>1, GrowsExcuses
      <3>2. CASE \E m \in marks : Guards(m, o.id, o.path)
        BY <3>2
      <3> QED
        BY <2>1, <3>1, <3>2 DEF GuardInv
    <2>2. \A n, r, path : Guards(n, r, path)' <=> Guards(n, r, path)
      BY DEF Guards
    <2> QED
      BY <2>1, <2>2 DEF GuardInv
  <1> QED
    BY <1>1, <1>2, <1>3, <1>4

(* A mark is pruned when its object is not listed, and then it guards none. *)
LEMMA PruneKeeps ==
    ASSUME CoreInv, Grows, Prune
    PROVE  CoreInv'
  <1>1. /\ UNCHANGED <<mm, job, shown>> /\ scan.at = "objects"
        /\ scan' = IF scan.found = {} THEN NoScan ELSE [scan EXCEPT !.at = "import"]
        /\ marks' = IF scan.complete /\ scan.epoch # NoEpoch THEN Pruned(scan.epoch, scan.paths) ELSE marks
    BY DEF Prune
  <1>2. /\ marks' \subseteq marks
        /\ \A m \in marks \ marks' : /\ m.age = "disposable" /\ scan.complete /\ scan.epoch # NoEpoch
                                     /\ ~(~ m.cancelled /\ m.epoch = scan.epoch /\ m.path \in scan.paths)
    BY <1>1 DEF Pruned
  <1>3. ASSUME NEW m \in marks \ marks', NEW o \in mm.objects, Guards(m, o.id, o.path)
        PROVE  FALSE
    <2>1. /\ m \in OldMarks /\ m.epoch = mm.epoch /\ ~ m.cancelled /\ m.path = o.path
      BY <1>2, <1>3 DEF Guards, OldMarks
    <2>2. m.path # NoPath
      BY <2>1, ObjectTypes DEF CoreInv, NoPath
    <2>3. m.epoch <= scan.epoch /\ scan.epoch \in 0 .. mm.epoch
      BY <1>1, <1>2, <2>1 DEF CoreInv, ScanInv
    <2>4. scan.epoch = mm.epoch
      BY <2>1, <2>3, ObjectTypes DEF CoreInv
    <2>5. m.path \in scan.paths
      BY <1>1, <1>2, <2>1, <2>2, <2>4 DEF CoreInv, ScanInv
    <2> QED
      BY <1>2, <2>1, <2>4, <2>5
  <1>4. ObjectsInv' /\ MarksTypeOK' /\ MarkInv' /\ GuardInv'
    BY <1>1, <1>2, <1>3, FewerMarks DEF CoreInv
  <1>5. SendInv'
    <2>1. \A n \in marks : Reservation(n) => n \in marks'
      BY <1>2 DEF Reservation
    <2>2. \A n : Reservation(n)' <=> Reservation(n)
      BY <1>1 DEF Reservation
    <2>3. job.at = "reserved" => Excused(job.req)' \/ \E n \in marks' : Reservation(n)
      BY <1>1, <2>1, GrowsExcuses DEF CoreInv, SendInv
    <2>4. job.at \in {"reserved", "created"} => \A n \in marks' : n.req = job.req => n.age = "claimable"
      BY <1>2 DEF CoreInv, SendInv
    <2> QED
      BY <1>1, <2>2, <2>3, <2>4 DEF CoreInv, SendInv, Excused
  <1>6. CASE scan' = NoScan
    <2>1. scan'.found = {}
      BY <1>6 DEF NoScan
    <2>2. \A i \in shown' \cup scan'.found : Rightful(i)
      BY <1>1, <2>1 DEF CoreInv, FoundInv
    <2>3. FoundInv'
      BY <2>2, GrowsExcuses DEF FoundInv
    <2> QED
      BY <1>4, <1>5, <1>6, <2>3, EndedScan DEF CoreInv
  <1>7. CASE scan' = [scan EXCEPT !.at = "import"]
    <2>1. scan' = [at |-> "import", epoch |-> scan.epoch, todo |-> scan.todo, paths |-> scan.paths,
                   complete |-> scan.complete, found |-> scan.found]
      BY <1>7, AtReplaced DEF CoreInv, ScanInv
    <2>2. scan'.at = "import" /\ scan'.epoch = scan.epoch /\ scan'.found = scan.found
      BY <2>1
    <2>3. OldMarks' \subseteq OldMarks
      BY <1>2 DEF OldMarks
    <2>4. ScanInv'
      BY <1>1, <2>1, <2>2, <2>3 DEF CoreInv, ScanInv
    <2>5. FoundInv'
      BY <1>1, <2>2, GrowsExcuses DEF CoreInv, FoundInv
    <2> QED
      BY <1>4, <1>5, <2>4, <2>5 DEF CoreInv
  <1> QED
    BY <1>1, <1>6, <1>7

-----------------------------------------------------------------------------
(* A request is reserved: its mark is the newest, and the first of its     *)
(* request.                                                                *)
LEMMA ReservedKeeps ==
    ASSUME CoreInv, Grows, NEW r \in Requests, ~ Begun(r), Begun(r)', UNCHANGED <<mm, scan, shown>>,
           marks' = Reserved(r, mm.epoch),
           job' = [at |-> "reserved", req |-> r, epoch |-> mm.epoch, path |-> NoPath, status |-> "none"]
    PROVE  CoreInv'
  <1> DEFINE kept == {m \in marks : m.age = "disposable" => m.epoch = mm.epoch /\ m.path # NoPath}
             b == [req |-> r, older |-> {m.req : m \in kept}, epoch |-> mm.epoch, path |-> NoPath,
                   cancelled |-> FALSE, age |-> "claimable"]
  <1>1. marks' = kept \cup {b}
    BY DEF Reserved
  <1>2. /\ b.req = r /\ b.older = {m.req : m \in kept} /\ b.epoch = mm.epoch /\ b.path = NoPath
        /\ b.cancelled = FALSE /\ b.age = "claimable"
    OBVIOUS
  <1>3. b.older \subseteq Requests /\ mm.epoch \in 0 .. MaxEpoch /\ mm.epoch \in Nat
    BY <1>2, ObjectTypes, MarkTypes DEF CoreInv
  <1>4. b \in Marks
    BY <1>2, <1>3 DEF Marks
  <1>5. \A m \in kept : m \in marks /\ m.req \in b.older
    BY <1>2
  <1>6. \A m \in marks : m.req # r /\ r \notin m.older
    BY DEF CoreInv, MarkInv
  <1>7. \A o \in mm.objects : o.id # r
    BY DEF CoreInv, ObjectsInv
  <1>8. ASSUME NEW m \in marks, m \notin kept, NEW o \in mm.objects
        PROVE  ~ Guards(m, o.id, o.path)
    BY <1>8, ObjectTypes DEF Guards, CoreInv, NoPath
  <1>9. \A m \in OldMarks' : m \in OldMarks
    BY <1>1, <1>2 DEF OldMarks
  <1>10. \A q \in b.older : \E m \in marks : q = m.req
    BY <1>2
  <1> HIDE DEF kept, b
  <1>11. ObjectsInv'
    BY DEF CoreInv, ObjectsInv, Grows, Begun
  <1>12. MarksTypeOK'
    <2>1. marks' \subseteq Marks
      BY <1>1, <1>4, <1>5 DEF CoreInv, MarksTypeOK
    <2>2. ASSUME NEW k \in marks', NEW n \in marks', k # n
          PROVE  /\ k.req # n.req
                 /\ k.req \in n.older <=> n.req \notin k.older
                 /\ k.path # NoPath /\ k.epoch = n.epoch => k.path # n.path
      <3>1. CASE k \in kept /\ n \in kept
        BY <1>5, <2>2, <3>1 DEF CoreInv, MarksTypeOK
      <3>2. CASE k = b /\ n \in kept
        BY <1>2, <1>5, <1>6, <3>2
      <3>3. CASE k \in kept /\ n = b
        BY <1>2, <1>5, <1>6, <3>3
      <3> QED
        BY <1>1, <2>2, <3>1, <3>2, <3>3
    <2> QED
      BY <2>1, <2>2 DEF MarksTypeOK
  <1>13. MarkInv'
    <2>1. ASSUME NEW n \in marks'
          PROVE  /\ n.epoch <= mm'.epoch
                 /\ n.cancelled => n.path = NoPath
                 /\ Begun(n.req)' /\ \A q \in n.older : Begun(q)'
                 /\ n.epoch = mm'.epoch /\ n.path # NoPath =>
                       \E p \in mm'.objects : p.path = n.path /\ (p.id = n.req \/ Claimed(n.req)')
      <3>1. CASE n = b
        <4>1. \A q \in b.older : Begun(q)'
          BY <1>10, MarkInvStays DEF CoreInv
        <4> QED
          BY <1>2, <1>3, <3>1, <4>1
      <3>2. CASE n \in kept
        BY <1>5, <3>2, MarkInvStays DEF CoreInv
      <3> QED
        BY <1>1, <3>1, <3>2
    <2> QED
      BY <2>1 DEF MarkInv, Claimed, Begun
  <1>14. GuardInv'
    <2>1. ASSUME NEW o \in mm.objects, o.id \in Requests
          PROVE  Excused(o.id)' \/ \E m \in marks' : Guards(m, o.id, o.path)
      <3>1. CASE Excused(o.id)
        BY <3>1, GrowsExcuses
      <3>2. CASE \E m \in marks : Guards(m, o.id, o.path)
        BY <1>1, <1>8, <3>2
      <3> QED
        BY <2>1, <3>1, <3>2 DEF CoreInv, GuardInv
    <2>2. \A n, q, path : Guards(n, q, path)' <=> Guards(n, q, path)
      BY DEF Guards
    <2> QED
      BY <2>1, <2>2 DEF GuardInv
  <1>15. SendInv'
    <2>1. /\ job'.at = "reserved" /\ job'.req = r /\ job'.epoch = mm.epoch
      OBVIOUS
    <2>2. \A m \in marks' : m.req = r => m.age = "claimable"
      BY <1>1, <1>2, <1>5, <1>6
    <2>3. \E m \in marks' : /\ m.req = job'.req /\ m.epoch = job'.epoch
                            /\ m.path = NoPath /\ ~ m.cancelled /\ m.age = "claimable"
      BY <1>1, <1>2, <2>1
    <2> QED
      BY <1>3, <1>7, <2>1, <2>2, <2>3 DEF SendInv, Reservation
  <1>16. ScanInv'
    BY <1>9 DEF CoreInv, ScanInv
  <1>17. FoundInv'
    BY GrowsExcuses DEF CoreInv, FoundInv
  <1> QED
    BY <1>11, <1>12, <1>13, <1>14, <1>15, <1>16, <1>17 DEF CoreInv

LEMMA CellularStartKeeps ==
    ASSUME CoreInv, MInv, Grows, NEW r \in Requests, SendCellular(r)
    PROVE  CoreInv'
  <1>1. job = Idle /\ ~ Begun(r) /\ UNCHANGED <<mm, scan, shown>>
    BY DEF SendCellular, Fresh, CellularStart, Begun
  <1>2. CASE job' = Idle /\ marks' = marks
    BY <1>1, <1>2, QuietKeeps DEF Calm
  <1>3. CASE /\ rows' = [rows EXCEPT ![r] = [status |-> "pending", via |-> "cellular"]]
             /\ marks' = Reserved(r, mm.epoch)
             /\ job' = [at |-> "reserved", req |-> r, epoch |-> mm.epoch, path |-> NoPath,
                        status |-> "none"]
    <2>1. Begun(r)'
      BY <1>3 DEF Begun, MInv, ShapeInv
    <2> QED
      BY <1>1, <1>3, <2>1, ReservedKeeps
  <1> QED
    BY <1>1, <1>2, <1>3 DEF SendCellular, CellularStart

LEMMA SendVowifiCalm ==
    ASSUME CoreInv, Grows, NEW r \in Requests, SendVowifi(r)
    PROVE  CoreInv'
  <1>1. UNCHANGED <<mm, marks, scan, shown>> /\ job'.at = "ami"
    BY DEF SendVowifi, VowifiStart
  <1> QED
    BY <1>1, QuietKeeps DEF Calm

LEMMA AmiAnswersCalm ==
    ASSUME CoreInv, Grows, AmiAnswers
    PROVE  CoreInv'
  <1>1. UNCHANGED <<mm, marks, scan, shown>> /\ job' = Idle
    BY DEF AmiAnswers, FailVowifi
  <1> QED
    BY <1>1, QuietKeeps DEF Calm, Idle

-----------------------------------------------------------------------------
(* Objects are added, and marks change without leaving their paths.        *)
Stems(n, m) == n.req = m.req /\ n.older = m.older /\ n.epoch = m.epoch /\ n.path = m.path
Descend ==
    /\ marks' \subseteq Marks
    /\ \A n \in marks' : \E m \in marks : Stems(n, m)
    /\ \A k, n \in marks' : k.req = n.req => k = n
    /\ \A n \in marks' : n.cancelled => n.path = NoPath

LEMMA DescendKeeps ==
    ASSUME MarksTypeOK, MarkInv, Grows, mm'.epoch = mm.epoch, mm.objects \subseteq mm'.objects, Descend
    PROVE  MarksTypeOK' /\ MarkInv'
  <1>1. MarksTypeOK'
    <2>1. ASSUME NEW k \in marks', NEW n \in marks', k # n
          PROVE  /\ k.req # n.req
                 /\ k.req \in n.older <=> n.req \notin k.older
                 /\ k.path # NoPath /\ k.epoch = n.epoch => k.path # n.path
      <3>1. PICK a \in marks : Stems(k, a)
        BY DEF Descend
      <3>2. PICK c \in marks : Stems(n, c)
        BY DEF Descend
      <3>3. k.req # n.req
        BY <2>1 DEF Descend
      <3>4. a # c
        BY <3>1, <3>2, <3>3 DEF Stems
      <3> QED
        BY <3>1, <3>2, <3>3, <3>4 DEF Stems, MarksTypeOK
    <2> QED
      BY <2>1 DEF MarksTypeOK, Descend
  <1>2. MarkInv'
    <2>1. ASSUME NEW n \in marks'
          PROVE  /\ n.epoch <= mm'.epoch
                 /\ n.cancelled => n.path = NoPath
                 /\ Begun(n.req)' /\ \A q \in n.older : Begun(q)'
                 /\ n.epoch = mm'.epoch /\ n.path # NoPath =>
                       \E p \in mm'.objects : p.path = n.path /\ (p.id = n.req \/ Claimed(n.req)')
      <3>1. PICK m \in marks : Stems(n, m)
        BY DEF Descend
      <3>2. m.req \in Requests /\ \A q \in m.older : q \in Requests
        BY MarkTypes
      <3>3. Begun(m.req)' /\ \A q \in m.older : Begun(q)'
        BY <3>2 DEF MarkInv, Grows
      <3>4. Claimed(m.req) => Claimed(m.req)'
        BY GrowsExcuses
      <3>5. n.cancelled => n.path = NoPath
        BY DEF Descend
      <3> QED
        BY <3>1, <3>3, <3>4, <3>5 DEF Stems, MarkInv
    <2> QED
      BY <2>1 DEF MarkInv, Claimed, Begun
  <1> QED
    BY <1>1, <1>2

LEMMA SameDescend ==
    ASSUME MarksTypeOK, MarkInv, marks' = marks
    PROVE  Descend
  <1>1. \A m \in marks : Stems(m, m)
    BY DEF Stems
  <1> QED
    BY <1>1 DEF Descend, MarksTypeOK, MarkInv

LEMMA ListingAdds ==
    ASSUME ObjectsInv, Grows, NEW id \in Requests \cup Outgoing \cup Incoming, mm' = Listing(id),
           id \in Requests => Begun(id)' /\ \A o \in mm.objects : o.id # id
    PROVE  /\ ObjectsInv'
           /\ mm'.epoch = mm.epoch
           /\ mm'.objects = mm.objects \cup {[id |-> id, path |-> mm.next]}
  <1> DEFINE x == [id |-> id, path |-> mm.next]
  <1>1. mm'.epoch = mm.epoch /\ mm'.next = mm.next + 1 /\ mm'.objects = mm.objects \cup {x}
        /\ mm' = [epoch |-> mm'.epoch, next |-> mm'.next, objects |-> mm'.objects]
    BY DEF Listing
  <1>2. x.id = id /\ x.path = mm.next /\ x \in Objects
    BY ObjectTypes DEF Objects
  <1> HIDE DEF x
  <1>3. mm' \in [epoch : 0 .. MaxEpoch, next : Nat, objects : SUBSET Objects]
    <2>1. mm'.epoch \in 0 .. MaxEpoch /\ mm'.next \in Nat /\ mm'.objects \in SUBSET Objects
      BY <1>1, <1>2, ObjectTypes
    <2> QED
      BY <1>1, <2>1
  <1>4. IsFiniteSet(mm'.objects)
    BY <1>1, FS_AddElement DEF ObjectsInv
  <1>5. \A o \in mm'.objects : o \in mm.objects \/ o = x
    BY <1>1
  <1>6. mm.next \in Nat /\ \A o \in mm.objects : o.path \in Nat /\ o.path < mm.next
    BY ObjectTypes DEF ObjectsInv
  <1>7. \A o \in mm'.objects : o.path < mm'.next /\ (o.id \in Requests => Begun(o.id)')
    <2>1. \A o \in mm.objects : o.path < mm'.next
      BY <1>1, <1>6
    <2>2. \A o \in mm.objects : o.id \in Requests => Begun(o.id)'
      BY DEF ObjectsInv, Grows
    <2> QED
      BY <1>1, <1>2, <1>5, <1>6, <2>1, <2>2
  <1>8. \A o, p \in mm'.objects : o.path = p.path => o = p
    BY <1>2, <1>5, <1>6 DEF ObjectsInv
  <1>9. \A o, p \in mm'.objects : o.id \in Requests /\ o.id = p.id => o = p
    BY <1>2, <1>5 DEF ObjectsInv
  <1>10. ObjectsInv'
    BY <1>3, <1>4, <1>7, <1>8, <1>9 DEF ObjectsInv, Begun
  <1> QED
    BY <1>1, <1>10 DEF x

LEMMA GuardsAdded ==
    ASSUME GuardInv, Grows, mm'.epoch = mm.epoch, NEW x, mm'.objects = mm.objects \cup {x},
           \A m \in marks, o \in mm.objects :
               Guards(m, o.id, o.path) => Excused(o.id)' \/ \E n \in marks' : Guards(n, o.id, o.path),
           x.id \in Requests => Excused(x.id)' \/ \E n \in marks' : Guards(n, x.id, x.path)
    PROVE  GuardInv'
  <1>1. ASSUME NEW o \in mm'.objects, o.id \in Requests
        PROVE  Excused(o.id)' \/ \E n \in marks' : Guards(n, o.id, o.path)
    <2>1. CASE o = x
      BY <1>1, <2>1
    <2>2. CASE o \in mm.objects
      <3>1. CASE Excused(o.id)
        BY <3>1, GrowsExcuses
      <3>2. CASE \E m \in marks : Guards(m, o.id, o.path)
        BY <2>2, <3>2
      <3> QED
        BY <1>1, <2>2, <3>1, <3>2 DEF GuardInv
    <2> QED
      BY <2>1, <2>2
  <1>2. \A n, r, path : Guards(n, r, path)' <=> Guards(n, r, path)
    BY DEF Guards
  <1> QED
    BY <1>1, <1>2 DEF GuardInv

LEMMA ScanStays ==
    ASSUME ScanInv, scan' = scan, mm'.epoch = mm.epoch,
           \A n \in OldMarks' : \E m \in OldMarks : n.epoch = m.epoch /\ n.path = m.path
    PROVE  ScanInv'
  BY DEF ScanInv

(* The program cancels a mark.                                             *)
Voided(m) == [m EXCEPT !.cancelled = TRUE]

LEMMA VoidedFields ==
    ASSUME NEW m \in Marks
    PROVE  /\ Voided(m) \in Marks /\ Stems(Voided(m), m)
           /\ Voided(m).cancelled = TRUE /\ Voided(m).age = m.age
  BY ZenonT(30) DEF Voided, Marks, Stems

LEMMA CancelledDescend ==
    ASSUME MarksTypeOK, MarkInv, NEW r, marks' = Cancelled(r)
    PROVE  /\ Descend
           /\ \A n \in OldMarks' : \E m \in OldMarks : n.epoch = m.epoch /\ n.path = m.path
           /\ \A m \in marks : m.req # r \/ m.path # NoPath => m \in marks'
  <1>1. \A n \in marks' : \E m \in marks : n = IF m.req = r /\ m.path = NoPath THEN Voided(m) ELSE m
    BY DEF Cancelled, Voided
  <1>2. \A m \in marks : /\ m \in Marks /\ Stems(m, m)
                         /\ Voided(m) \in Marks /\ Stems(Voided(m), m) /\ Voided(m).age = m.age
    BY MarkTypes, VoidedFields DEF Stems
  <1>3. \A n \in marks' : \E m \in marks : n \in Marks /\ Stems(n, m) /\ n.age = m.age
    BY <1>1, <1>2
  <1>4. \A k, n \in marks' : k.req = n.req => k = n
    <2> SUFFICES ASSUME NEW k \in marks', NEW n \in marks', k.req = n.req PROVE k = n
      OBVIOUS
    <2>1. PICK a \in marks : k = IF a.req = r /\ a.path = NoPath THEN Voided(a) ELSE a
      BY <1>1
    <2>2. PICK c \in marks : n = IF c.req = r /\ c.path = NoPath THEN Voided(c) ELSE c
      BY <1>1
    <2>3. k.req = a.req /\ n.req = c.req
      BY <1>2, <2>1, <2>2 DEF Stems
    <2>4. a = c
      BY <2>3 DEF MarksTypeOK
    <2> QED
      BY <2>1, <2>2, <2>4
  <1>5. \A n \in marks' : n.cancelled => n.path = NoPath
    BY <1>1, <1>2 DEF MarkInv, Stems
  <1>6. \A m \in marks : m.req # r \/ m.path # NoPath => m \in marks'
    BY DEF Cancelled
  <1>7. \A n \in OldMarks' : \E m \in OldMarks : n.epoch = m.epoch /\ n.path = m.path
    BY <1>3 DEF OldMarks, Stems
  <1> QED
    BY <1>3, <1>4, <1>5, <1>6, <1>7 DEF Descend

-----------------------------------------------------------------------------
(* send(): the object is made, and its mark bound.                         *)
LEMMA JobShape ==
    ASSUME MInv, job # Idle, job.at # "ami"
    PROVE  /\ job = [at |-> job.at, req |-> job.req, epoch |-> job.epoch, path |-> job.path,
                     status |-> job.status]
           /\ job.req \in Requests /\ Begun(job.req)
  BY DEF MInv, ShapeInv, JobInv, Begun

LEMMA NotIdle ==
    ASSUME job.at # "idle"
    PROVE  job # Idle
  BY DEF Idle

LEMMA VerdictLeaves ==
    ASSUME MInv, job # Idle, job.at # "ami", NEW status, Verdict(status)
    PROVE  job'.at = "verdict"
  <1>1. job = [at |-> job.at, req |-> job.req, epoch |-> job.epoch, path |-> job.path, status |-> job.status]
    BY JobShape
  <1> QED
    BY <1>1 DEF Verdict

(* While a request is reserved it has no object, and a mark guards it.     *)
LEMMA DraftKeeps ==
    ASSUME CoreInv, MInv, Grows, job.at = "reserved", NEW r, r = job.req, Draft,
           UNCHANGED <<marks, scan, shown>>
    PROVE  /\ ObjectsInv' /\ MarksTypeOK' /\ MarkInv' /\ GuardInv' /\ ScanInv' /\ FoundInv'
           /\ mm'.epoch = mm.epoch
           /\ [id |-> r, path |-> mm.next] \in mm'.objects
  <1> DEFINE x == [id |-> r, path |-> mm.next]
  <1>1. r \in Requests /\ Begun(r)' /\ \A o \in mm.objects : o.id # r
    <2>1. job # Idle /\ job.at # "ami"
      BY NotIdle
    <2>2. r \in Requests /\ Begun(r)
      BY <2>1, JobShape
    <2> QED
      BY <2>2 DEF CoreInv, SendInv, Grows
  <1>2. mm' = Listing(r)
    BY DEF Draft
  <1>3. ObjectsInv' /\ mm'.epoch = mm.epoch /\ mm'.objects = mm.objects \cup {x}
    BY <1>1, <1>2, ListingAdds DEF CoreInv
  <1>4. MarksTypeOK' /\ MarkInv'
    BY <1>3, SameDescend, DescendKeeps DEF CoreInv
  <1>5. Excused(r)' \/ \E n \in marks' : Guards(n, r, mm.next)
    <2>1. CASE job.epoch = mm.epoch
      <3>1. CASE Excused(r)
        BY <3>1, GrowsExcuses
      <3>2. CASE \E m \in marks : Reservation(m)
        BY <2>1, <3>2 DEF Reservation, Guards
      <3> QED
        BY <3>1, <3>2 DEF CoreInv, SendInv
    <2>2. CASE job.epoch # mm.epoch
      <3>1. <<r, "daemon restarted before create">> \in mishaps'
        BY <2>2 DEF Draft, Befall
      <3> QED
        BY <3>1 DEF Excused, Mishaps
    <2> QED
      BY <2>1, <2>2
  <1>6. GuardInv'
    BY <1>3, <1>5, GuardsAdded DEF CoreInv
  <1>7. ScanInv'
    BY <1>3, ScanStays DEF CoreInv, OldMarks
  <1>8. FoundInv'
    BY GrowsExcuses DEF CoreInv, FoundInv
  <1> QED
    BY <1>3, <1>4, <1>6, <1>7, <1>8

(* The mark is withdrawn: the modem holds no object for it, or one whose   *)
(* path was not told.                                                      *)
LEMMA WithdrawnKeeps ==
    ASSUME CoreInv, MInv, Grows, job.at = "reserved", NEW r, r = job.req, marks' = Cancelled(r),
           UNCHANGED <<scan, shown>>, job'.at = "verdict",
           \/ mm' = mm
           \/ mm' = Listing(r) /\ Befall(r, "path not told")
    PROVE  CoreInv'
  <1>1. r \in Requests /\ Begun(r)' /\ \A o \in mm.objects : o.id # r
    <2>1. job # Idle /\ job.at # "ami"
      BY NotIdle
    <2>2. r \in Requests /\ Begun(r)
      BY <2>1, JobShape
    <2> QED
      BY <2>2 DEF CoreInv, SendInv, Grows
  <1>2. /\ Descend
        /\ \A n \in OldMarks' : \E m \in OldMarks : n.epoch = m.epoch /\ n.path = m.path
        /\ \A m \in marks : m.req # r \/ m.path # NoPath => m \in marks'
    BY CancelledDescend DEF CoreInv
  <1>3. \A m \in marks, o \in mm.objects :
            Guards(m, o.id, o.path) => \E n \in marks' : Guards(n, o.id, o.path)
    BY <1>1, <1>2 DEF Guards
  <1>4. SendInv'
    BY DEF SendInv
  <1>5. FoundInv'
    BY GrowsExcuses DEF CoreInv, FoundInv
  <1>6. CASE mm' = mm
    <2>1. ObjectsInv'
      BY <1>6 DEF CoreInv, ObjectsInv, Grows, Begun
    <2>2. MarksTypeOK' /\ MarkInv'
      BY <1>2, <1>6, DescendKeeps DEF CoreInv
    <2>3. GuardInv'
      <3>1. \A o \in mm.objects : o.id \in Requests =>
                Excused(o.id)' \/ \E n \in marks' : Guards(n, o.id, o.path)
        BY <1>3, GrowsExcuses DEF CoreInv, GuardInv
      <3>2. \A n, q, path : Guards(n, q, path)' <=> Guards(n, q, path)
        BY <1>6 DEF Guards
      <3> QED
        BY <1>6, <3>1, <3>2 DEF GuardInv
    <2>4. ScanInv'
      BY <1>2, <1>6, ScanStays DEF CoreInv
    <2> QED
      BY <1>4, <1>5, <2>1, <2>2, <2>3, <2>4 DEF CoreInv
  <1>7. CASE mm' = Listing(r) /\ Befall(r, "path not told")
    <2>1. /\ ObjectsInv' /\ mm'.epoch = mm.epoch
          /\ mm'.objects = mm.objects \cup {[id |-> r, path |-> mm.next]}
      BY <1>1, <1>7, ListingAdds DEF CoreInv
    <2>2. MarksTypeOK' /\ MarkInv'
      BY <1>2, <2>1, DescendKeeps DEF CoreInv
    <2>3. \E what \in Mishaps \ {"daemon restarted while sending"} : <<r, what>> \in mishaps'
      BY <1>7 DEF Befall, Mishaps
    <2>4. GuardInv'
      <3> DEFINE x == [id |-> r, path |-> mm.next]
      <3>1. Excused(x.id)'
        BY <2>3 DEF Excused
      <3> QED
        BY <1>3, <2>1, <3>1, GuardsAdded DEF CoreInv
    <2>5. ScanInv'
      BY <1>2, <2>1, ScanStays DEF CoreInv
    <2> QED
      BY <1>4, <1>5, <2>1, <2>2, <2>4, <2>5 DEF CoreInv
  <1> QED
    BY <1>6, <1>7

LEMMA CreateGuards ==
    ASSUME CoreInv, MInv, Grows, Create
    PROVE  CoreInv'
  <1>1. job.at = "reserved" /\ UNCHANGED <<scan, shown>>
    BY DEF Create
  <1>2. job # Idle /\ job.at # "ami"
    BY <1>1 DEF Idle
  <1>3. CASE Draft /\ job' = [job EXCEPT !.at = "created", !.path = mm.next] /\ UNCHANGED marks
    <2>1. job = [at |-> job.at, req |-> job.req, epoch |-> job.epoch, path |-> job.path, status |-> job.status]
      BY <1>2, JobShape
    <2>2. /\ job'.at = "created" /\ job'.req = job.req /\ job'.epoch = job.epoch /\ job'.path = mm.next
      BY <1>3, <2>1
    <2>3. /\ ObjectsInv' /\ MarksTypeOK' /\ MarkInv' /\ GuardInv' /\ ScanInv' /\ FoundInv'
          /\ mm'.epoch = mm.epoch
          /\ [id |-> job.req, path |-> mm.next] \in mm'.objects
      BY <1>1, <1>3, DraftKeeps
    <2>4. job.epoch \in 0 .. mm.epoch /\ \A m \in marks : m.req = job.req => m.age = "claimable"
      BY <1>1 DEF CoreInv, SendInv
    <2>5. SendInv'
      BY <1>3, <2>2, <2>3, <2>4 DEF SendInv
    <2> QED
      BY <2>3, <2>5 DEF CoreInv
  <1>4. CASE Draft /\ Verdict("failed") /\ UNCHANGED marks
    <2>1. SendInv'
      BY <1>2, <1>4, VerdictLeaves DEF SendInv
    <2> QED
      BY <1>1, <1>4, <2>1, DraftKeeps DEF CoreInv
  <1>5. CASE UNCHANGED <<mm, mishaps>> /\ Verdict("failed") /\ UNCHANGED marks
    BY <1>1, <1>2, <1>5, VerdictLeaves, QuietKeeps DEF Calm
  <1>6. CASE /\ Verdict("failed") /\ marks' = Cancelled(job.req)
             /\ mm' = mm \/ (mm' = Listing(job.req) /\ Befall(job.req, "path not told"))
    BY <1>1, <1>2, <1>6, VerdictLeaves, WithdrawnKeeps
  <1> QED
    BY <1>3, <1>4, <1>5, <1>6 DEF Create

LEMMA BindGuards ==
    ASSUME CoreInv, MInv, Grows, Bind
    PROVE  CoreInv'
  <1>1. job.at = "created" /\ UNCHANGED <<mm, scan, shown>>
    BY DEF Bind
  <1>2. job # Idle /\ job.at # "ami"
    BY <1>1 DEF Idle
  <1>3. job = [at |-> job.at, req |-> job.req, epoch |-> job.epoch, path |-> job.path, status |-> job.status]
    BY <1>2, JobShape
  <1>4. CASE Verdict("failed") /\ UNCHANGED marks
    BY <1>1, <1>2, <1>4, VerdictLeaves, QuietKeeps DEF Calm
  <1>5. ASSUME mm.epoch = job.epoch, job' = [job EXCEPT !.at = "bound"], NEW m \in marks,
               m.req = job.req, m.epoch = job.epoch, ~ m.cancelled,
               \/ m.path = job.path /\ UNCHANGED marks
               \/ m.path = NoPath /\ marks' = BoundTo(m, job.path)
        PROVE  CoreInv'
    <2>1. job'.at = "bound"
      BY <1>3, <1>5
    <2>2. CASE UNCHANGED marks
      BY <1>1, <2>1, <2>2, QuietKeeps DEF Calm
    <2>3. CASE m.path = NoPath /\ marks' = BoundTo(m, job.path)
      <3> DEFINE o == [id |-> job.req, path |-> job.path]
      <3>1. o \in mm.objects /\ m.age = "claimable"
        BY <1>1, <1>5 DEF CoreInv, SendInv
      <3>2. \A n \in marks : n.epoch = m.epoch /\ n.path = job.path => n.req # job.req
        <4>1. job.path # NoPath
          BY <3>1, ObjectTypes DEF CoreInv, NoPath
        <4> QED
          BY <1>5, <2>3, <4>1 DEF CoreInv, MarksTypeOK
      <3>3. Binds(m, o)
        BY <1>5, <2>3, <3>1, <3>2 DEF Binds
      <3> HIDE DEF o
      <3>4. ObjectsInv' /\ MarksTypeOK' /\ MarkInv' /\ GuardInv'
        BY <1>1, <3>3, BindsKeeps DEF CoreInv
      <3>5. OldMarks' \subseteq OldMarks
        BY <3>1, <3>3, BoundOld DEF CoreInv
      <3>6. ScanInv'
        BY <1>1, <3>5, ScanStays DEF CoreInv
      <3>7. FoundInv'
        BY <1>1, GrowsExcuses DEF CoreInv, FoundInv
      <3>8. SendInv'
        BY <2>1 DEF SendInv
      <3> QED
        BY <3>4, <3>6, <3>7, <3>8 DEF CoreInv
    <2> QED
      BY <1>5, <2>2, <2>3
  <1> QED
    BY <1>4, <1>5 DEF Bind

-----------------------------------------------------------------------------
(* The surroundings.                                                       *)
Aged(m) == [m EXCEPT !.age = Later[@]]

LEMMA AgedFields ==
    ASSUME NEW m \in Marks
    PROVE  /\ Aged(m) \in Marks /\ Stems(Aged(m), m) /\ Aged(m).cancelled = m.cancelled
  <1>1. Later[m.age] \in {"claimable", "kept", "disposable"}
    BY DEF Marks, Later
  <1> DEFINE age == Later[m.age]
  <1>2. Aged(m) = [m EXCEPT !.age = age]
    BY DEF Aged
  <1> HIDE DEF age
  <1>3. age \in {"claimable", "kept", "disposable"}
    BY <1>1 DEF age
  <1> QED
    BY <1>2, <1>3, ZenonT(30) DEF Marks, Stems

LEMMA TimePassesKeeps ==
    ASSUME CoreInv, Grows, TimePasses
    PROVE  CoreInv'
  <1>1. /\ job' = Idle /\ scan' = NoScan /\ UNCHANGED <<mm, shown, scan>>
        /\ marks' = {Aged(m) : m \in marks}
        /\ \A m \in marks : m.age = "claimable" /\ m.path = NoPath /\ ~ m.cancelled
                              => <<m.req, "claim window passed">> \in mishaps'
    BY DEF TimePasses, Aged
  <1>2. \A m \in marks : Aged(m) \in marks' /\ Aged(m) \in Marks /\ Stems(Aged(m), m)
                         /\ Aged(m).cancelled = m.cancelled
    BY <1>1, MarkTypes, AgedFields DEF CoreInv
  <1>3. \A n \in marks' : \E m \in marks : n = Aged(m)
    BY <1>1
  <1>4. Descend
    <2>1. marks' \subseteq Marks /\ \A n \in marks' : \E m \in marks : Stems(n, m)
      BY <1>2, <1>3
    <2>2. \A k, n \in marks' : k.req = n.req => k = n
      <3> SUFFICES ASSUME NEW k \in marks', NEW n \in marks', k.req = n.req PROVE k = n
        OBVIOUS
      <3>1. PICK a \in marks : k = Aged(a)
        BY <1>3
      <3>2. PICK c \in marks : n = Aged(c)
        BY <1>3
      <3>3. a = c
        BY <1>2, <3>1, <3>2 DEF CoreInv, MarksTypeOK, Stems
      <3> QED
        BY <3>1, <3>2, <3>3
    <2>3. \A n \in marks' : n.cancelled => n.path = NoPath
      BY <1>2, <1>3 DEF CoreInv, MarkInv, Stems
    <2> QED
      BY <2>1, <2>2, <2>3 DEF Descend
  <1>5. ObjectsInv'
    BY <1>1 DEF CoreInv, ObjectsInv, Grows, Begun
  <1>6. MarksTypeOK' /\ MarkInv'
    BY <1>1, <1>4, DescendKeeps DEF CoreInv
  <1>7. GuardInv'
    <2>1. ASSUME NEW o \in mm.objects, o.id \in Requests
          PROVE  Excused(o.id)' \/ \E n \in marks' : Guards(n, o.id, o.path)
      <3>1. CASE Excused(o.id)
        BY <3>1, GrowsExcuses
      <3>2. ASSUME NEW m \in marks, Guards(m, o.id, o.path)
            PROVE  Excused(o.id)' \/ \E n \in marks' : Guards(n, o.id, o.path)
        <4>1. CASE m.path = o.path
          BY <1>2, <3>2, <4>1 DEF Guards, Stems
        <4>2. CASE m.path = NoPath /\ m.age = "claimable"
          BY <1>1, <3>2, <4>2 DEF Guards, Excused, Mishaps
        <4> QED
          BY <3>2, <4>1, <4>2 DEF Guards
      <3> QED
        BY <2>1, <3>1, <3>2 DEF CoreInv, GuardInv
    <2>2. \A n, r, path : Guards(n, r, path)' <=> Guards(n, r, path)
      BY <1>1 DEF Guards
    <2> QED
      BY <1>1, <2>1, <2>2 DEF GuardInv
  <1>8. SendInv'
    BY <1>1 DEF SendInv, Idle
  <1>9. FoundInv'
    BY <1>1, GrowsExcuses DEF CoreInv, FoundInv
  <1> QED
    BY <1>1, <1>5, <1>6, <1>7, <1>8, <1>9, EndedScan DEF CoreInv

LEMMA AppearsKeeps ==
    ASSUME CoreInv, MInv, Grows, NEW id \in Outgoing \cup Incoming, Appears(id)
    PROVE  CoreInv'
  <1>1. mm' = Listing(id) /\ UNCHANGED <<marks, job, scan, shown>>
    BY DEF Appears
  <1>2. id \notin Requests
    BY CellularAssumption
  <1> DEFINE x == [id |-> id, path |-> mm.next]
  <1>3. ObjectsInv' /\ mm'.epoch = mm.epoch /\ mm'.objects = mm.objects \cup {x}
    BY <1>1, <1>2, ListingAdds DEF CoreInv
  <1>4. x.id = id
    OBVIOUS
  <1> HIDE DEF x
  <1>5. MarksTypeOK' /\ MarkInv'
    BY <1>1, <1>3, SameDescend, DescendKeeps DEF CoreInv
  <1>6. GuardInv'
    BY <1>1, <1>2, <1>3, <1>4, GuardsAdded DEF CoreInv
  <1>7. SendInv'
    <2>1. \A n : Reservation(n)' <=> Reservation(n)
      BY <1>1 DEF Reservation
    <2>2. job.at = "reserved" => Excused(job.req)'  \/ \E n \in marks : Reservation(n)
      BY <1>1, GrowsExcuses DEF CoreInv, SendInv
    <2>3. job.at = "reserved" => \A o \in mm'.objects : o.id # job.req
      <3>1. job.at = "reserved" => job.req \in Requests
        BY NotIdle DEF MInv, ShapeInv
      <3> QED
        BY <1>2, <1>3, <1>4, <3>1 DEF CoreInv, SendInv
    <2> QED
      BY <1>1, <1>3, <2>1, <2>2, <2>3 DEF CoreInv, SendInv, Excused
  <1>8. ScanInv'
    BY <1>1, <1>3, ScanStays DEF CoreInv, OldMarks
  <1>9. FoundInv'
    BY <1>1, GrowsExcuses DEF CoreInv, FoundInv
  <1> QED
    BY <1>3, <1>5, <1>6, <1>7, <1>8, <1>9 DEF CoreInv

(* ModemManager comes back with what the SIM holds, and no own message.    *)
LEMMA FiniteImage ==
    ASSUME NEW S, IsFiniteSet(S), NEW T, NEW f \in [S -> T], \A t \in T : \E s \in S : f[s] = t
    PROVE  IsFiniteSet(T)
  <1>1. f \in Surjection(S, T)
    BY DEF Surjection
  <1> QED
    BY <1>1, FS_Surjection

LEMMA RestartedObjects ==
    ASSUME ObjectsInv, DaemonRestarts
    PROVE  /\ ObjectsInv' /\ mm'.epoch = mm.epoch + 1 /\ mm.epoch < MaxEpoch
           /\ \A o \in mm'.objects : o.id \notin Requests
  <1> DEFINE kept == {o.id : o \in {o \in mm.objects : Dir(o) = "in"}}
             count == Cardinality(kept)
  <1>1. PICK place \in [kept -> 0 .. count - 1] :
              /\ \A a, b \in kept : place[a] = place[b] => a = b
              /\ mm' = [epoch |-> mm.epoch + 1, next |-> count,
                        objects |-> {[id |-> id, path |-> place[id]] : id \in kept}]
    BY DEF DaemonRestarts
  <1>2. kept \subseteq Incoming /\ IsFiniteSet(kept)
    <2> DEFINE held == {o \in mm.objects : Dir(o) = "in"}
               f == [o \in held |-> o.id]
    <2>1. kept \subseteq Incoming
      BY DEF Dir
    <2>2. IsFiniteSet(held)
      BY FS_Subset DEF ObjectsInv
    <2>3. f \in [held -> kept] /\ \A t \in kept : \E s \in held : f[s] = t
      OBVIOUS
    <2>4. IsFiniteSet(kept)
      <3> HIDE DEF held, f, kept
      <3> QED
        BY <2>2, <2>3, FiniteImage
    <2> QED
      BY <2>1, <2>4
  <1>3. count \in Nat
    BY <1>2, FS_CardinalityType
  <1> DEFINE new == {[id |-> id, path |-> place[id]] : id \in kept}
  <1> HIDE DEF kept, count
  <1>4. \A id \in kept : place[id] \in Nat /\ place[id] < count
    BY <1>3
  <1>5. \A o \in new : o.id \in kept /\ o.path = place[o.id] /\ o = [id |-> o.id, path |-> o.path]
    OBVIOUS
  <1>6. IsFiniteSet(new)
    <2> DEFINE f == [id \in kept |-> [id |-> id, path |-> place[id]]]
    <2>1. f \in [kept -> new] /\ \A t \in new : \E s \in kept : f[s] = t
      OBVIOUS
    <2> HIDE DEF new, f
    <2> QED
      BY <1>2, <2>1, FiniteImage
  <1>7. mm'.epoch = mm.epoch + 1 /\ mm'.next = count /\ mm'.objects = new
        /\ mm' = [epoch |-> mm'.epoch, next |-> mm'.next, objects |-> mm'.objects]
    BY <1>1
  <1> HIDE DEF new
  <1>8. mm.epoch < MaxEpoch /\ mm.epoch \in 0 .. MaxEpoch
    BY ObjectTypes DEF DaemonRestarts
  <1>9. mm' \in [epoch : 0 .. MaxEpoch, next : Nat, objects : SUBSET Objects]
    <2>1. mm'.epoch \in 0 .. MaxEpoch
      BY <1>7, <1>8, CellularAssumption
    <2>2. \A o \in new : o \in Objects
      BY <1>2, <1>4, <1>5 DEF Objects
    <2> QED
      BY <1>3, <1>7, <2>1, <2>2
  <1>10. \A o \in new : o.path < count /\ o.id \notin Requests
    BY <1>2, <1>4, <1>5, CellularAssumption
  <1>11. \A o, p \in new : o.path = p.path => o = p
    BY <1>1, <1>5
  <1>12. ObjectsInv'
    BY <1>6, <1>7, <1>9, <1>10, <1>11 DEF ObjectsInv
  <1> QED
    BY <1>7, <1>8, <1>10, <1>12

LEMMA DaemonRestartsGuards ==
    ASSUME CoreInv, MInv, Grows, DaemonRestarts
    PROVE  CoreInv'
  <1>1. /\ ObjectsInv' /\ mm'.epoch = mm.epoch + 1 /\ mm.epoch < MaxEpoch
        /\ \A o \in mm'.objects : o.id \notin Requests
    BY RestartedObjects DEF CoreInv
  <1>2. UNCHANGED <<marks, job, scan, shown>> /\ mm.epoch \in Nat
    BY ObjectTypes DEF DaemonRestarts, CoreInv
  <1>3. MarksTypeOK'
    BY <1>2 DEF CoreInv, MarksTypeOK
  <1>4. MarkInv'
    <2>1. ASSUME NEW m \in marks
          PROVE  /\ m.epoch <= mm'.epoch /\ m.epoch # mm'.epoch
                 /\ m.cancelled => m.path = NoPath
                 /\ Begun(m.req)' /\ \A q \in m.older : Begun(q)'
      <3>1. m.epoch \in 0 .. MaxEpoch /\ m.req \in Requests /\ \A q \in m.older : q \in Requests
        BY MarkTypes DEF CoreInv
      <3>2. m.epoch <= mm.epoch
        BY DEF CoreInv, MarkInv
      <3> QED
        BY <1>1, <1>2, <3>1, <3>2 DEF CoreInv, MarkInv, Grows
    <2> QED
      BY <1>2, <2>1 DEF MarkInv, Begun
  <1>5. GuardInv'
    BY <1>1 DEF GuardInv
  <1>6. SendInv'
    <2>1. \A n : Reservation(n)' <=> Reservation(n)
      BY <1>2 DEF Reservation
    <2>2. job.at = "reserved" => Excused(job.req)'  \/ \E n \in marks : Reservation(n)
      BY <1>2, GrowsExcuses DEF CoreInv, SendInv
    <2>3. job.at = "reserved" => \A o \in mm'.objects : o.id # job.req
      <3>1. job.at = "reserved" => job.req \in Requests
        BY NotIdle DEF MInv, ShapeInv
      <3> QED
        BY <1>1, <3>1
    <2>4. job.at \in {"reserved", "created"} => job.epoch \in 0 .. mm'.epoch /\ job.epoch # mm'.epoch
      <3> SUFFICES ASSUME job.at \in {"reserved", "created"}
                   PROVE  job.epoch \in 0 .. mm'.epoch /\ job.epoch # mm'.epoch
        OBVIOUS
      <3>1. job.epoch \in 0 .. mm.epoch
        BY DEF CoreInv, SendInv
      <3> QED
        BY <1>1, <1>2, <3>1
    <2> QED
      BY <1>2, <2>1, <2>2, <2>3, <2>4 DEF CoreInv, SendInv, Excused
  <1>7. ScanInv'
    <2>1. scan.epoch = NoEpoch \/ scan.epoch \in 0 .. mm'.epoch
      BY <1>1, <1>2 DEF CoreInv, ScanInv
    <2>2. scan.epoch # mm'.epoch
      BY <1>1, <1>2, CellularAssumption DEF CoreInv, ScanInv, NoEpoch
    <2> QED
      BY <1>2, <2>1, <2>2 DEF CoreInv, ScanInv, OldMarks
  <1>8. FoundInv'
    BY <1>2, GrowsExcuses DEF CoreInv, FoundInv
  <1> QED
    BY <1>1, <1>3, <1>4, <1>5, <1>6, <1>7, <1>8 DEF CoreInv

LEMMA CrashGuards ==
    ASSUME CoreInv, Grows, Crash
    PROVE  CoreInv'
  <1>1. UNCHANGED <<mm, marks, shown>> /\ job' = Idle /\ scan' = NoScan
    BY DEF Crash, CellularCrash
  <1>2. scan'.found = {}
    BY <1>1 DEF NoScan
  <1>3. FoundInv'
    BY <1>1, <1>2, GrowsExcuses DEF CoreInv, FoundInv
  <1> QED
    BY <1>1, <1>3, EndedScan, PollMoves DEF CoreInv, Calm, Idle

-----------------------------------------------------------------------------
(* No step makes a request unbegun, or takes a mishap back.                *)
LEMMA RowWritten ==
    ASSUME MInv, NEW r \in Requests, NEW row, rows' = [rows EXCEPT ![r] = row], row.status # "none"
    PROVE  \A q \in Requests : Begun(q) => Begun(q)'
  BY DEF MInv, ShapeInv, Begun

LEMMA StatusWritten ==
    ASSUME MInv, NEW r \in Requests, NEW status, rows' = [rows EXCEPT ![r].status = status], status # "none"
    PROVE  \A q \in Requests : Begun(q) => Begun(q)'
  <1>1. rows \in [Requests -> Rows] /\ rows[r] \in Rows
    BY DEF MInv, ShapeInv
  <1>2. rows' = [rows EXCEPT ![r] = [rows[r] EXCEPT !.status = status]]
    OBVIOUS
  <1>3. [rows[r] EXCEPT !.status = status].status = status
    BY <1>1 DEF Rows
  <1> QED
    BY <1>2, <1>3, RowWritten

LEMMA RowsGoOn ==
    ASSUME MInv, [Next]_vars
    PROVE  \A q \in Requests : Begun(q) => Begun(q)'
  <1>0. CASE rows' = rows
    BY <1>0 DEF Begun
  <1>1. ASSUME NEW r \in Requests, SendCellular(r)
        PROVE  \A q \in Requests : Begun(q) => Begun(q)'
    <2>1. \/ rows' = rows
          \/ \E status \in {"failed", "pending"} : rows' = [rows EXCEPT ![r] = [status |-> status, via |-> "cellular"]]
      BY <1>1 DEF SendCellular, CellularStart
    <2>2. \A status : [status |-> status, via |-> "cellular"].status = status
      OBVIOUS
    <2> QED
      BY <1>0, <2>1, <2>2, RowWritten
  <1>2. ASSUME NEW r \in Requests, SendVowifi(r)
        PROVE  \A q \in Requests : Begun(q) => Begun(q)'
    <2>1. [status |-> "pending", via |-> "vowifi"].status = "pending"
      OBVIOUS
    <2> QED
      BY <1>2, <2>1, RowWritten DEF SendVowifi, VowifiStart
  <1>3. CASE AmiAnswers
    <2>1. job.req \in Requests
      BY <1>3, NotIdle DEF AmiAnswers, MInv, ShapeInv
    <2>2. \E status \in {"sent", "failed"} : rows' = [rows EXCEPT ![job.req].status = status]
      BY <1>3 DEF AmiAnswers, FailVowifi
    <2> QED
      BY <2>1, <2>2, StatusWritten
  <1>4. ASSUME NEW w \in watchers, Watch(w)
        PROVE  \A q \in Requests : Begun(q) => Begun(q)'
    <2>1. PICK status \in Verdicts(w.since) : rows' = [rows EXCEPT ![w.req].status = status]
      BY <1>4 DEF Watch
    <2>2. status # "none"
      BY DEF Verdicts
    <2>3. w.req \in Requests
      BY DEF MInv, ShapeInv
    <2> QED
      BY <2>1, <2>2, <2>3, StatusWritten
  <1>5. CASE RecordVerdict
    <2>1. job # Idle /\ job.at = "verdict"
      BY <1>5, NotIdle DEF RecordVerdict
    <2>2. job.req \in Requests /\ job.status # "none"
      BY <2>1 DEF MInv, ShapeInv, JobInv
    <2> QED
      BY <1>5, <2>2, StatusWritten DEF RecordVerdict
  <1>6. CASE Crash
    <2>1. \A r \in Requests : rows[r] \in Rows
      BY DEF MInv, ShapeInv
    <2>2. \A r \in Requests : rows'[r].status = rows[r].status \/ rows'[r].status = "unknown"
      BY <1>6, <2>1 DEF Crash, CellularCrash, Settled, Rows
    <2> QED
      BY <2>2 DEF Begun
  <1>7. CASE Submits \/ Polls \/ Surroundings
    BY <1>0, <1>5, <1>7 DEF Submits, Submit, Create, Bind, Send, SendAnswered, Polls, Poll, ScanBegins,
       Listed, ListingFails, Prune, Inspect, Import, Surroundings, TimePasses, Appears, DaemonRestarts
  <1>8. CASE \E r \in Requests : Logs(r)
    BY <1>0, <1>8 DEF Logs, cellularVars
  <1>9. CASE \E w \in watchers : WatchEnds(w)
    BY <1>0, <1>9 DEF WatchEnds, cellularVars
  <1>10. CASE UNCHANGED vars
    BY <1>0, <1>10 DEF vars, cellularVars
  <1> QED
    BY <1>1, <1>2, <1>3, <1>4, <1>6, <1>7, <1>8, <1>9, <1>10 DEF Next, UserAsks, SendAuto

LEMMA MishapsTyped ==
    ASSUME MInv, CoreInv, mishaps \subseteq Requests \X Mishaps, [Next]_vars
    PROVE  mishaps \subseteq mishaps' /\ mishaps' \subseteq Requests \X Mishaps
  <1>0. CASE mishaps' = mishaps
    BY <1>0
  <1>1. ASSUME NEW r \in Requests, NEW what \in Mishaps, Befall(r, what)
        PROVE  mishaps \subseteq mishaps' /\ mishaps' \subseteq Requests \X Mishaps
    BY <1>1 DEF Befall
  <1>2. job.at # "idle" => job.req \in Requests
    BY NotIdle DEF MInv, ShapeInv
  <1>3. CASE Create
    <2>1. job.req \in Requests
      BY <1>2, <1>3 DEF Create
    <2>2. mishaps' = mishaps \/ \E what \in Mishaps : Befall(job.req, what)
      BY <1>3 DEF Create, Draft, Mishaps
    <2> QED
      BY <1>0, <1>1, <2>1, <2>2
  <1>4. ASSUME NEW path, Inspect(path)
        PROVE  mishaps \subseteq mishaps' /\ mishaps' \subseteq Requests \X Mishaps
    <2>1. mishaps' = mishaps \/ \E o : Claim(o)
      BY <1>4, Zenon DEF Inspect
    <2>2. ASSUME NEW o, Claim(o)
          PROVE  mishaps' = mishaps \/ \E r \in Requests : Befall(r, "claimed by another")
      <3>1. PICK m \in Newest(Claimable(scan.epoch, o.id)) :
                IF o.id = m.req THEN UNCHANGED mishaps ELSE Befall(m.req, "claimed by another")
        BY <2>2 DEF Claim
      <3>2. m \in marks
        BY DEF Newest, Claimable
      <3> QED
        BY <3>1, <3>2, MarkTypes DEF CoreInv
    <2> QED
      BY <1>0, <1>1, <2>1, <2>2 DEF Mishaps
  <1>5. CASE TimePasses
    <2>1. PICK missed \in SUBSET marks :
              mishaps' = mishaps \cup {<<m.req, "claim window passed">> : m \in missed}
      BY <1>5 DEF TimePasses
    <2>2. \A m \in missed : m.req \in Requests
      BY MarkTypes DEF CoreInv
    <2>3. "claim window passed" \in Mishaps
      BY DEF Mishaps
    <2>4. {<<m.req, "claim window passed">> : m \in missed} \subseteq Requests \X Mishaps
      <3>1. \A m \in missed : <<m.req, "claim window passed">> \in Requests \X Mishaps
        BY <2>2, <2>3
      <3> QED
        BY <3>1, Zenon
    <2> QED
      BY <2>1, <2>4
  <1>6. CASE DaemonRestarts
    <2>1. mishaps' = mishaps \/ (job.req \in Requests /\ Befall(job.req, "daemon restarted while sending"))
      BY <1>2, <1>6 DEF DaemonRestarts
    <2> QED
      BY <1>0, <1>1, <2>1 DEF Mishaps
  <1>7. CASE Submits
    BY <1>0, <1>3, <1>7 DEF Submits, Submit, Bind, Send, SendAnswered, RecordVerdict
  <1>8. CASE Polls
    BY <1>0, <1>4, <1>8 DEF Polls, Poll, ScanBegins, Listed, ListingFails, Prune, Import
  <1>9. CASE Surroundings
    BY <1>0, <1>5, <1>6, <1>9 DEF Surroundings, Appears
  <1>10. CASE \E r \in Requests : UserAsks(r) \/ Logs(r)
    BY <1>0, <1>10 DEF UserAsks, SendAuto, SendCellular, SendVowifi, CellularStart, VowifiStart, Logs,
       cellularVars
  <1>11. CASE AmiAnswers \/ Crash \/ \E w \in watchers : Watch(w) \/ WatchEnds(w)
    BY <1>0, <1>11 DEF AmiAnswers, Crash, CellularCrash, Watch, WatchEnds, cellularVars
  <1>12. CASE UNCHANGED vars
    BY <1>0, <1>12 DEF vars, cellularVars
  <1> QED
    BY <1>7, <1>8, <1>9, <1>10, <1>11, <1>12 DEF Next

LEMMA NextGrows ==
    ASSUME MInv, CoreInv, mishaps \subseteq Requests \X Mishaps, [Next]_vars
    PROVE  Grows
  BY RowsGoOn, MishapsTyped DEF Grows

(* The window of a watcher begins in the log, which is bounded.            *)
Told == [req : Requests, what : {"ack", "error", "accepted", "rejected"}]

LEMMA WindowsTyped ==
    ASSUME MInv, OInv, [Next]_vars
    PROVE  /\ watchers' \subseteq [req : Requests, since : 0 .. MaxLog]
           /\ logged' \in Seq(Told) /\ Len(logged') <= MaxLog
           /\ job'.at = "ami" => job'.since \in 0 .. MaxLog
  <1>0. /\ watchers \subseteq [req : Requests, since : 0 .. MaxLog]
        /\ logged \in Seq(Told) /\ Len(logged) <= MaxLog
        /\ job.at = "ami" => job.since \in 0 .. MaxLog
    BY DEF OInv, HistoryInv, Told
  <1>1. <<>> \in Seq(Told) /\ Len(<<>>) <= MaxLog
    BY MessagingAssumption
  <1>2. CASE watchers' \subseteq watchers /\ logged' \in {logged, <<>>} /\ (job' = job \/ job'.at # "ami")
    BY <1>0, <1>1, <1>2
  <1>3. ASSUME NEW r \in Requests, Logs(r)
        PROVE  watchers' = watchers /\ job' = job /\ logged' \in Seq(Told) /\ Len(logged') <= MaxLog
    <2>1. PICK what \in {"ack", "error", "accepted", "rejected"} :
              logged' = Append(logged, [req |-> r, what |-> what])
      BY <1>3 DEF Logs
    <2>2. [req |-> r, what |-> what] \in Told
      BY DEF Told
    <2>3. Len(logged) < MaxLog /\ watchers' = watchers /\ job' = job
      BY <1>3 DEF Logs, cellularVars
    <2>4. Len(logged) \in Nat /\ logged' \in Seq(Told) /\ Len(logged') = Len(logged) + 1
      BY <1>0, <2>1, <2>2
    <2> QED
      BY <2>3, <2>4, MessagingAssumption
  <1>4. ASSUME NEW r \in Requests, SendCellular(r)
        PROVE  UNCHANGED vowifiVars /\ job'.at # "ami"
    <2>1. job' = Idle \/ job' = [at |-> "reserved", req |-> r, epoch |-> mm.epoch, path |-> NoPath,
                                 status |-> "none"]
      BY <1>4 DEF SendCellular, Fresh, CellularStart
    <2> QED
      BY <1>4, <2>1 DEF SendCellular, Idle
  <1>5. ASSUME NEW r \in Requests, SendVowifi(r)
        PROVE  UNCHANGED vowifiVars /\ job'.since \in 0 .. MaxLog
    <2>1. UNCHANGED vowifiVars /\ job'.since = Len(logged)
      BY <1>5 DEF SendVowifi, VowifiStart
    <2> QED
      BY <1>0, <2>1, MessagingAssumption
  <1>6. CASE AmiAnswers
    <2>1. job.at = "ami" /\ logged' = logged /\ job' = Idle
      BY <1>6 DEF AmiAnswers, FailVowifi
    <2>2. watchers' = watchers \/ watchers' = watchers \cup {[req |-> job.req, since |-> job.since]}
      BY <1>6 DEF AmiAnswers, FailVowifi
    <2>3. job.req \in Requests
      BY <2>1, NotIdle DEF MInv, ShapeInv
    <2>4. watchers' \subseteq [req : Requests, since : 0 .. MaxLog]
      BY <1>0, <2>1, <2>2, <2>3
    <2> QED
      BY <1>0, <2>1, <2>4 DEF Idle
  <1>7. CASE \E w \in watchers : Watch(w) \/ WatchEnds(w)
    <2>1. watchers' \subseteq watchers /\ logged' \in {logged, <<>>} /\ job' = job
      BY <1>7 DEF Watch, WatchEnds, Leaves, cellularVars
    <2> QED
      BY <1>2, <2>1
  <1>8. CASE Submits
    <2>1. job' = job \/ job'.at # "ami"
      <3>1. job.at \notin {"idle", "ami"} /\ job # Idle
        BY <1>8, NotIdle DEF Submits, Submit, Create, Bind, Send, SendAnswered, RecordVerdict
      <3>2. job = [at |-> job.at, req |-> job.req, epoch |-> job.epoch, path |-> job.path,
                   status |-> job.status]
        BY <3>1, JobShape
      <3>3. CASE job' = Idle
        BY <3>3 DEF Idle
      <3>4. ASSUME NEW status, Verdict(status)
            PROVE  job'.at # "ami"
        BY <3>2, <3>4 DEF Verdict
      <3>5. CASE job' = [job EXCEPT !.at = "created", !.path = mm.next]
        BY <3>2, <3>5
      <3>6. ASSUME NEW at \in {"bound", "sending"}, job' = [job EXCEPT !.at = at]
            PROVE  job'.at # "ami"
        BY <3>2, <3>6
      <3> QED
        BY <1>8, <3>3, <3>4, <3>5, <3>6
           DEF Submits, Submit, Create, Bind, Send, SendAnswered, RecordVerdict
    <2> QED
      BY <1>2, <1>8, <2>1 DEF Submits, vowifiVars
  <1>9. CASE Polls
    <2>1. job' = job
      BY <1>9 DEF Polls, Poll, ScanBegins, Listed, ListingFails, Prune, Inspect, Import
    <2> QED
      BY <1>2, <1>9, <2>1 DEF Polls, vowifiVars
  <1>10. CASE Surroundings /\ UNCHANGED vowifiVars
    <2>1. job' = job
      BY <1>10 DEF Surroundings, TimePasses, Appears, DaemonRestarts
    <2> QED
      BY <1>2, <1>10, <2>1 DEF vowifiVars
  <1>11. CASE Crash
    <2>1. job'.at # "ami" /\ watchers' = {} /\ logged' = <<>>
      BY <1>11 DEF Crash, CellularCrash, Idle
    <2> QED
      BY <1>2, <2>1
  <1>12. CASE UNCHANGED vars
    BY <1>2, <1>12 DEF vars, cellularVars, vowifiVars
  <1>13. CASE \E r \in Requests : UserAsks(r) \/ Logs(r)
    BY <1>0, <1>3, <1>4, <1>5, <1>13 DEF UserAsks, SendAuto, vowifiVars
  <1> QED
    BY <1>6, <1>7, <1>8, <1>9, <1>10, <1>11, <1>12, <1>13 DEF Next

-----------------------------------------------------------------------------
LEMMA SubmitGuards ==
    ASSUME CoreInv, MInv, Grows, Submit
    PROVE  CoreInv'
  <1>1. CASE Create
    BY <1>1, CreateGuards
  <1>2. CASE Bind
    BY <1>2, BindGuards
  <1>3. CASE Send \/ SendAnswered \/ RecordVerdict
    <2>1. job.at \notin {"idle", "ami"} /\ job # Idle /\ UNCHANGED <<mm, marks, scan, shown>>
      BY <1>3, NotIdle DEF Send, SendAnswered, RecordVerdict
    <2>2. job'.at \notin {"reserved", "created"}
      <3>1. job = [at |-> job.at, req |-> job.req, epoch |-> job.epoch, path |-> job.path,
                   status |-> job.status]
        BY <2>1, JobShape
      <3>2. \/ job' = Idle \/ job' = [job EXCEPT !.at = "sending"]
            \/ \E status : Verdict(status)
        BY <1>3 DEF Send, SendAnswered, RecordVerdict
      <3> QED
        BY <2>1, <3>1, <3>2, VerdictLeaves DEF Idle
    <2> QED
      BY <2>1, <2>2, QuietKeeps DEF Calm
  <1> QED
    BY <1>1, <1>2, <1>3 DEF Submit

LEMMA PollGuards ==
    ASSUME CoreInv, Grows, Poll
    PROVE  CoreInv'
  BY ScanBeginsKeeps, ListedKeeps, ListingFailsKeeps, PruneKeeps, InspectKeeps, ImportKeeps DEF Poll

LEMMA NextGuards ==
    ASSUME MInv, OInv, [Next]_vars
    PROVE  OInv'
  <1>1. CoreInv /\ Grows
    BY NextGrows DEF OInv, HistoryInv
  <1>2. CoreInv'
    <2>1. CASE \E r \in Requests : UserAsks(r)
      BY <1>1, <2>1, CellularStartKeeps, SendVowifiCalm DEF UserAsks, SendAuto
    <2>2. CASE \E r \in Requests : Logs(r)
      BY <1>1, <2>2, QuietKeeps DEF Logs, cellularVars, Calm
    <2>3. CASE AmiAnswers
      BY <1>1, <2>3, AmiAnswersCalm
    <2>4. CASE \E w \in watchers : Watch(w) \/ WatchEnds(w)
      BY <1>1, <2>4, QuietKeeps DEF Watch, WatchEnds, cellularVars, Calm
    <2>5. CASE Polls
      BY <1>1, <2>5, PollGuards DEF Polls
    <2>6. CASE Submits
      BY <1>1, <2>6, SubmitGuards DEF Submits
    <2>7. CASE Surroundings
      BY <1>1, <2>7, TimePassesKeeps, AppearsKeeps, DaemonRestartsGuards DEF Surroundings
    <2>8. CASE Crash
      BY <1>1, <2>8, CrashGuards
    <2>9. CASE UNCHANGED vars
      BY <1>1, <2>9, QuietKeeps DEF vars, cellularVars, Calm
    <2> QED
      BY <2>1, <2>2, <2>3, <2>4, <2>5, <2>6, <2>7, <2>8, <2>9 DEF Next
  <1>3. HistoryInv'
    <2>1. mishaps' \subseteq Requests \X Mishaps
      BY <1>1, MishapsTyped DEF OInv, HistoryInv
    <2>2. /\ watchers' \subseteq [req : Requests, since : 0 .. MaxLog]
          /\ logged' \in Seq(Told) /\ Len(logged') <= MaxLog
          /\ job'.at = "ami" => job'.since \in 0 .. MaxLog
      BY WindowsTyped
    <2> QED
      BY <2>1, <2>2 DEF HistoryInv, Told
  <1> QED
    BY <1>2, <1>3 DEF OInv

LEMMA InitGuards ==
    ASSUME Init
    PROVE  OInv
  <1>1. /\ mm = [epoch |-> 0, next |-> 0, objects |-> {}]
        /\ marks = {} /\ job = Idle /\ scan = NoScan /\ shown = {} /\ mishaps = {}
        /\ watchers = {} /\ logged = <<>>
    BY DEF Init, CellularInit
  <1>2. mm.epoch = 0 /\ mm.objects = {} /\ job.at = "idle" /\ scan.found = {}
    BY <1>1 DEF Idle, NoScan
  <1>3. ObjectsInv
    BY <1>1, <1>2, FS_EmptySet, CellularAssumption DEF ObjectsInv
  <1>4. MarksTypeOK /\ MarkInv /\ GuardInv /\ SendInv /\ FoundInv
    BY <1>1, <1>2 DEF MarksTypeOK, MarkInv, GuardInv, SendInv, FoundInv
  <1>5. ScanInv
    BY <1>1 DEF ScanInv, NoScan
  <1>6. HistoryInv
    BY <1>1, <1>2, MessagingAssumption DEF HistoryInv
  <1> QED
    BY <1>3, <1>4, <1>5, <1>6 DEF OInv, CoreInv

LEMMA ObjectsGuarded == Spec => []OInv
  <1>1. MInv /\ OInv /\ [Next]_vars => OInv'
    BY NextGuards
  <1> QED
    BY <1>1, InitGuards, SendsCorrect, PTL DEF Spec

-----------------------------------------------------------------------------
(* Whatever happens, the state of a line's messages is what it is declared *)
(* to be: the marks of one epoch name different objects, a send under way  *)
(* has a pending row, and a watcher's window begins within the log.        *)
THEOREM MessagingTypeCorrect == Spec => []MessagingTypeOK
  <1>1. MInv /\ OInv => MessagingTypeOK
    <2> SUFFICES ASSUME MInv, OInv PROVE MessagingTypeOK
      OBVIOUS
    <2>1. mm \in [epoch : 0 .. MaxEpoch, next : Nat, objects : SUBSET Objects] /\ MarksTypeOK
      BY DEF OInv, CoreInv, ObjectsInv
    <2>2. /\ rows \in [Requests -> [status : Statuses, via : {"none", "cellular", "vowifi"}]]
          /\ aired \in [Requests -> Nat]
          /\ job = Idle \/ job.req \in Requests
          /\ job # Idle => rows[job.req].status = "pending"
      BY DEF MInv, ShapeInv, JobInv, Rows
    <2>3. scan.at \in {"idle", "epoch", "objects", "import"} /\ mishaps \subseteq Requests \X Mishaps
      BY DEF OInv, CoreInv, ScanInv, HistoryInv
    <2>4. CellularTypeOK
      BY <2>1, <2>2, <2>3 DEF CellularTypeOK
    <2> QED
      BY <2>4 DEF MessagingTypeOK, OInv, HistoryInv
  <1> QED
    BY <1>1, SendsCorrect, ObjectsGuarded, PTL

(* A message of the user's own is imported as another's only in the cases  *)
(* that OwnNotImported names: every object of an own message is guarded by *)
(* a mark from before it exists until it is gone (reserve_local_modem_sms, *)
(* is_local_modem_sms, prune_local_modem_sms, _poll_cellular_sms).         *)
THEOREM OwnMessagesStayOut == Spec => []OwnNotImported
  <1>1. OInv => OwnNotImported
    BY DEF OInv, CoreInv, FoundInv, Rightful, Excused, OwnNotImported
  <1> QED
    BY <1>1, ObjectsGuarded, PTL

(* A mark that names an object of another's was claimed for it, and a send *)
(* that learned that it made no object never names one                     *)
(* (bind_local_modem_sms, cancel_local_modem_sms, is_local_modem_sms).     *)
THEOREM MarksAreTheirOwn == Spec => []MarksNameTheirOwn
  <1>1. OInv => MarksNameTheirOwn
    <2> SUFFICES ASSUME OInv, NEW m \in marks, NEW o \in mm.objects,
                        m.epoch = mm.epoch, m.path = o.path, o.id # m.req
                 PROVE  ~ m.cancelled /\ Claimed(m.req)
      BY DEF MarksNameTheirOwn, Claimed
    <2>1. m.path # NoPath
      BY ObjectTypes DEF OInv, CoreInv, NoPath
    <2>2. PICK p \in mm.objects : p.path = m.path /\ (p.id = m.req \/ Claimed(m.req))
      BY <2>1 DEF OInv, CoreInv, MarkInv
    <2>3. p = o
      BY <2>2 DEF OInv, CoreInv, ObjectsInv
    <2> QED
      BY <2>1, <2>2, <2>3 DEF OInv, CoreInv, MarkInv
  <1> QED
    BY <1>1, ObjectsGuarded, PTL
=============================================================================
