---------------------------- MODULE CellularSms ------------------------------
(***************************************************************************)
(* Text messages through the modem that holds a line's SIM                 *)
(* (control/app/cellular_sms.py, the local_modem_sms table of store.py and *)
(* the poller of main.py).                                                 *)
(*                                                                         *)
(* ModemManager keeps an object for every message, sent or received, under *)
(* a path it counts from 0 in every run of the daemon (an epoch).  A send  *)
(* therefore leaves behind an object that the poller, which imports what   *)
(* others sent and received, must know to be the program's own: a durable  *)
(* mark is made before the object and bound to its path after.             *)
(*                                                                         *)
(* One line, one modem.  ModemManager and the carrier are not part of the  *)
(* sources: drafts and sent messages are lost when the daemon restarts,    *)
(* received ones are stored on the SIM and come back under other paths.    *)
(***************************************************************************)
EXTENDS Integers, FiniteSets

CONSTANTS
    Requests,       \* sends the user asks for
    Outgoing,       \* messages another program sends through the modem
    Incoming,       \* messages the modem receives
    SameText,       \* requests and outgoing messages that share recipient and text
    MaxEpoch,       \* bound: restarts of ModemManager
    MaxFaults       \* bound: restarts of ModemManager and of the control plane

ASSUME CellularAssumption ==
    /\ Requests \cap (Outgoing \cup Incoming) = {} /\ Outgoing \cap Incoming = {}
    /\ SameText \subseteq Requests \cup Outgoing
    /\ MaxEpoch \in Nat /\ MaxFaults \in Nat

VARIABLES
    mm,         \* ModemManager: its epoch, the next path, the objects
    rows,       \* history rows of the requests
    marks,      \* the rows of local_modem_sms
    job,        \* the send under way; sms_send_locks admits one per line
    scan,       \* the poller: epoch it read, paths and objects it has yet to treat
    imports,    \* fingerprints of what was imported
    shown,      \* imported history rows
    crashes,    \* restarts so far
    aired,      \* history: how often a request went on the air
    mishaps     \* history: what befell a request, see Mishaps

cellularVars == <<mm, rows, marks, job, scan, imports, shown, crashes, aired, mishaps>>

NoEpoch == MaxEpoch + 1
NoPath == -1
Idle == [at |-> "idle"]
NoScan == [at |-> "idle", epoch |-> NoEpoch, todo |-> {}, paths |-> {}, complete |-> FALSE, found |-> {}]
Statuses == {"none", "pending", "sent", "delivered", "failed", "unknown"}
Mishaps == {"daemon restarted before create", "claimed by another", "claim window passed",
            "path not told", "daemon restarted while sending"}

(* The hash of recipient and text: all that the program tells apart.       *)
TextOf(id) == IF id \in SameText THEN "same" ELSE id
Objects == [id : Requests \cup Outgoing \cup Incoming, path : Nat]
Dir(o) == IF o.id \in Incoming THEN "in" ELSE "out"
Paths == {o.path : o \in mm.objects}
Befall(r, what) == mishaps' = mishaps \cup {<<r, what>>}

(* older: the requests whose marks have a smaller id.                      *)
Marks == [req : Requests, older : SUBSET Requests, epoch : 0 .. MaxEpoch, path : Nat \cup {NoPath},
          cancelled : BOOLEAN, age : {"claimable", "kept", "disposable"}]

(* Ids are unique and ordered, and so are the paths in one epoch           *)
(* (idx_local_modem_sms_path).                                             *)
MarksTypeOK ==
    /\ marks \subseteq Marks
    /\ \A m, n \in marks : m # n =>
          /\ m.req # n.req
          /\ m.req \in n.older <=> n.req \notin m.older
          /\ m.path # NoPath /\ m.epoch = n.epoch => m.path # n.path

CellularTypeOK ==
    /\ mm \in [epoch : 0 .. MaxEpoch, next : Nat, objects : SUBSET Objects]
    /\ rows \in [Requests -> [status : Statuses, via : {"none", "cellular", "vowifi"}]]
    /\ MarksTypeOK
    /\ job = Idle \/ job.req \in Requests
    /\ scan.at \in {"idle", "epoch", "objects", "import"}
    /\ aired \in [Requests -> Nat]
    /\ mishaps \subseteq Requests \X Mishaps
    /\ job # Idle => rows[job.req].status = "pending"

CellularInit ==
    /\ mm = [epoch |-> 0, next |-> 0, objects |-> {}]
    /\ rows = [r \in Requests |-> [status |-> "none", via |-> "none"]]
    /\ marks = {} /\ job = Idle /\ scan = NoScan
    /\ imports = {} /\ shown = {} /\ crashes = 0
    /\ aired = [r \in Requests |-> 0] /\ mishaps = {}

-----------------------------------------------------------------------------
(* The table of marks.                                                     *)

Reserved(r, epoch) ==
    LET kept == {m \in marks : m.age = "disposable" => m.epoch = epoch /\ m.path # NoPath} IN
    kept \cup {[req |-> r, older |-> {m.req : m \in kept}, epoch |-> epoch, path |-> NoPath,
                cancelled |-> FALSE, age |-> "claimable"]}

(* Bind mark m to path, at the expense of any other bound to it.           *)
BoundTo(m, path) ==
    {n \in marks \ {m} : n.epoch # m.epoch \/ n.path # path} \cup {[m EXCEPT !.path = path]}

Cancelled(r) ==
    {IF m.req = r /\ m.path = NoPath THEN [m EXCEPT !.cancelled = TRUE] ELSE m : m \in marks}

ClaimableThoughCancelled(epoch, id) ==
    {m \in marks : /\ m.epoch = epoch /\ m.path = NoPath /\ m.age = "claimable"
                   /\ TextOf(m.req) = TextOf(id)}

Claimable(epoch, id) ==
    {m \in marks : /\ m.epoch = epoch /\ m.path = NoPath /\ m.age = "claimable" /\ ~ m.cancelled
                   /\ TextOf(m.req) = TextOf(id)}

Newest(some) == {m \in some : \A n \in some : n = m \/ n.req \in m.older}

Known(epoch, o) ==
    \E m \in marks : m.epoch = epoch /\ m.path = o.path /\ TextOf(m.req) = TextOf(o.id)

Pruned(epoch, paths) ==
    {m \in marks : m.age = "disposable" => ~ m.cancelled /\ m.epoch = epoch /\ m.path \in paths}

-----------------------------------------------------------------------------
(* send(): look the modem up, reserve, create and bind under the scanner's *)
(* lock, send, and leave the verdict to the caller.                        *)

Verdict(status) == job' = [job EXCEPT !.at = "verdict", !.status = status]

(* The row and the mark are one transaction.  Without a modem nothing is   *)
(* kept; without an epoch the row is written with its verdict.             *)
CellularStart(r) ==
    /\ \/ /\ job' = Idle /\ UNCHANGED <<rows, marks>>
       \/ /\ rows' = [rows EXCEPT ![r] = [status |-> "failed", via |-> "cellular"]]
          /\ job' = Idle /\ UNCHANGED marks
       \/ /\ rows' = [rows EXCEPT ![r] = [status |-> "pending", via |-> "cellular"]]
          /\ marks' = Reserved(r, mm.epoch)
          /\ job' = [at |-> "reserved", req |-> r, epoch |-> mm.epoch, path |-> NoPath, status |-> "none"]
    /\ UNCHANGED <<mm, scan, imports, shown, crashes, aired, mishaps>>

(* The daemon makes the object; what mmcli tells of it is another matter.  *)
Listing(id) == [epoch |-> mm.epoch, next |-> mm.next + 1,
                objects |-> mm.objects \cup {[id |-> id, path |-> mm.next]}]
Draft ==
    /\ mm' = Listing(job.req)
    /\ IF job.epoch = mm.epoch THEN UNCHANGED mishaps
       ELSE Befall(job.req, "daemon restarted before create")

Create ==
    /\ job.at = "reserved"
    /\ \/ Draft /\ job' = [job EXCEPT !.at = "created", !.path = mm.next] /\ UNCHANGED marks
       \/ Draft /\ Verdict("failed") /\ UNCHANGED marks                       \* timed out
       \/ UNCHANGED <<mm, mishaps>> /\ Verdict("failed") /\ UNCHANGED marks   \* timed out
       \/ UNCHANGED <<mm, mishaps>> /\ Verdict("failed") /\ marks' = Cancelled(job.req)
       \/ /\ mm' = Listing(job.req)
          /\ Befall(job.req, "path not told")
          /\ Verdict("failed") /\ marks' = Cancelled(job.req)
    /\ UNCHANGED <<rows, scan, imports, shown, crashes, aired>>

(* The owner must still be the one that accepted Create (it may also not   *)
(* be told), and the mark must not have been claimed for another object.   *)
Bind ==
    /\ job.at = "created"
    /\ \/ Verdict("failed") /\ UNCHANGED marks
       \/ /\ mm.epoch = job.epoch
          /\ \E m \in marks :
                /\ m.req = job.req /\ m.epoch = job.epoch /\ ~ m.cancelled
                /\ \/ m.path = job.path /\ UNCHANGED marks
                   \/ m.path = NoPath /\ marks' = BoundTo(m, job.path)
          /\ job' = [job EXCEPT !.at = "bound"]
    /\ UNCHANGED <<mm, rows, scan, imports, shown, crashes, aired, mishaps>>

Send ==
    /\ job.at = "bound"
    /\ job' = [job EXCEPT !.at = "sending"]
    /\ \E onAir \in {0, 1} :
          /\ mm.epoch # job.epoch => onAir = 0
          /\ aired' = [aired EXCEPT ![job.req] = @ + onAir]
    /\ UNCHANGED <<mm, rows, marks, scan, imports, shown, crashes, mishaps>>

SendAnsweredTimeoutFails ==
    /\ job.at = "sending"
    /\ \/ mm.epoch = job.epoch /\ aired[job.req] > 0 /\ Verdict("sent")
       \/ Verdict("failed")
    /\ UNCHANGED <<mm, rows, marks, scan, imports, shown, crashes, aired, mishaps>>

(* A modem that refuses has not sent.  A daemon that dies answers with an  *)
(* error whatever it did.                                                  *)
SendAnswered ==
    /\ job.at = "sending"
    /\ \/ mm.epoch = job.epoch /\ aired[job.req] > 0 /\ Verdict("sent")
       \/ (mm.epoch = job.epoch => aired[job.req] = 0) /\ Verdict("failed")
       \/ Verdict("unknown")
    /\ UNCHANGED <<mm, rows, marks, scan, imports, shown, crashes, aired, mishaps>>

RecordVerdictAndStay ==
    /\ job.at = "verdict"
    /\ rows' = [rows EXCEPT ![job.req].status = job.status]
    /\ UNCHANGED <<mm, marks, job, scan, imports, shown, crashes, aired, mishaps>>

(* _send_sms_cellular: the row that was made with the mark is settled.     *)
RecordVerdict ==
    /\ job.at = "verdict"
    /\ rows' = [rows EXCEPT ![job.req].status = job.status]
    /\ job' = Idle
    /\ UNCHANGED <<mm, marks, scan, imports, shown, crashes, aired, mishaps>>

-----------------------------------------------------------------------------
(* The poller: Scanner.discover, then the import of what it found.         *)

ScanBegins ==
    /\ scan.at = "idle"
    /\ \E epoch \in {mm.epoch, NoEpoch} : scan' = [NoScan EXCEPT !.at = "epoch", !.epoch = epoch]
    /\ UNCHANGED <<mm, rows, marks, job, imports, shown, crashes, aired, mishaps>>

(* The listing is taken under the lock that send() holds from Create to    *)
(* the end of the bind; what follows is not.                               *)
Unlocked == job.at # "created"

Listed ==
    /\ scan.at = "epoch" /\ Unlocked
    /\ scan' = [scan EXCEPT !.at = "objects", !.todo = Paths, !.paths = Paths, !.complete = TRUE]
    /\ UNCHANGED <<mm, rows, marks, job, imports, shown, crashes, aired, mishaps>>

ListingFails ==
    /\ scan.at = "epoch" /\ Unlocked
    /\ scan' = [scan EXCEPT !.at = "objects"]
    /\ UNCHANGED <<mm, rows, marks, job, imports, shown, crashes, aired, mishaps>>

(* is_local_modem_sms: a bound mark, or the newest unbound one, which is   *)
(* bound to this object from now on.                                       *)
Claim(o) ==
    \E m \in Newest(Claimable(scan.epoch, o.id)) :
        /\ marks' = BoundTo(m, o.path)
        /\ IF o.id = m.req THEN UNCHANGED mishaps ELSE Befall(m.req, "claimed by another")

Found(o) == scan.found \cup {[id |-> o.id, path |-> o.path, epoch |-> scan.epoch, made |-> mm.epoch]}

(* The next path: the object now under it, if any, is read and judged.  An *)
(* outgoing one is left for a later poll while the epoch is not known.     *)
Inspect(path) ==
    /\ scan.at = "objects" /\ path \in scan.todo /\ \A other \in scan.todo : path <= other
    /\ LET rest == [scan EXCEPT !.todo = @ \ {path}]
           here == {o \in mm.objects : o.path = path}
       IN  \/ here = {} /\ scan' = rest /\ UNCHANGED <<marks, mishaps>>
           \/ \E o \in here :
                 \/ /\ Dir(o) = "in" \/ /\ scan.epoch # NoEpoch /\ ~ Known(scan.epoch, o)
                                        /\ Claimable(scan.epoch, o.id) = {}
                    /\ scan' = [rest EXCEPT !.found = Found(o)] /\ UNCHANGED <<marks, mishaps>>
                 \/ /\ Dir(o) = "out" /\ (scan.epoch = NoEpoch \/ Known(scan.epoch, o))
                    /\ scan' = rest /\ UNCHANGED <<marks, mishaps>>
                 \/ /\ Dir(o) = "out" /\ scan.epoch # NoEpoch /\ ~ Known(scan.epoch, o)
                    /\ Claimable(scan.epoch, o.id) # {}
                    /\ scan' = rest /\ Claim(o)
    /\ UNCHANGED <<mm, rows, job, imports, shown, crashes, aired>>

PruneOnAnyListing ==
    /\ scan.at = "objects" /\ scan.todo = {}
    /\ scan' = IF scan.found = {} THEN NoScan ELSE [scan EXCEPT !.at = "import"]
    /\ marks' = IF scan.epoch # NoEpoch THEN Pruned(scan.epoch, scan.paths) ELSE marks
    /\ UNCHANGED <<mm, rows, job, imports, shown, crashes, aired, mishaps>>

(* Only a whole listing of a known daemon may remove marks.                *)
Prune ==
    /\ scan.at = "objects" /\ scan.todo = {}
    /\ scan' = IF scan.found = {} THEN NoScan ELSE [scan EXCEPT !.at = "import"]
    /\ marks' = IF scan.complete /\ scan.epoch # NoEpoch THEN Pruned(scan.epoch, scan.paths) ELSE marks
    /\ UNCHANGED <<mm, rows, job, imports, shown, crashes, aired, mishaps>>

Fingerprint(item) ==
    IF item.id \in Incoming THEN <<"in", item.path, item.id>>
    ELSE <<"out", item.path, TextOf(item.id), item.epoch>>

(* add_imported_message: the fingerprint and the row are one transaction.  *)
Import(item) ==
    /\ scan.at = "import" /\ item \in scan.found /\ \A other \in scan.found : item.path <= other.path
    /\ scan' = IF scan.found = {item} THEN NoScan ELSE [scan EXCEPT !.found = @ \ {item}]
    /\ IF Fingerprint(item) \in imports THEN UNCHANGED <<imports, shown>>
       ELSE imports' = imports \cup {Fingerprint(item)} /\ shown' = shown \cup {item}
    /\ UNCHANGED <<mm, rows, marks, job, crashes, aired, mishaps>>

-----------------------------------------------------------------------------
(* The surroundings.                                                       *)

(* Five minutes pass, or a day.  A send and a poll are over before.        *)
Later == [claimable |-> "kept", kept |-> "disposable", disposable |-> "disposable"]
TimePasses ==
    /\ job = Idle /\ scan = NoScan
    /\ \E m \in marks : m.age # "disposable"
    /\ marks' = {[m EXCEPT !.age = Later[@]] : m \in marks}
    /\ LET missed == {m \in marks : m.age = "claimable" /\ m.path = NoPath /\ ~ m.cancelled} IN
       mishaps' = mishaps \cup {<<m.req, "claim window passed">> : m \in missed}
    /\ UNCHANGED <<mm, rows, job, scan, imports, shown, crashes, aired>>

(* Another program sends, or a message comes in.                           *)
Appears(id) ==
    /\ id \in Outgoing \cup Incoming
    /\ \A o \in mm.objects : o.id # id
    /\ \A item \in shown \cup scan.found : item.id # id
    /\ mm' = Listing(id)
    /\ UNCHANGED <<rows, marks, job, scan, imports, shown, crashes, aired, mishaps>>

DaemonRestarts ==
    /\ mm.epoch < MaxEpoch /\ crashes + mm.epoch < MaxFaults
    /\ LET kept == {o.id : o \in {o \in mm.objects : Dir(o) = "in"}}
           count == Cardinality(kept)
       IN  \E place \in [kept -> 0 .. count - 1] :
              /\ \A a, b \in kept : place[a] = place[b] => a = b
              /\ mm' = [epoch |-> mm.epoch + 1, next |-> count,
                        objects |-> {[id |-> id, path |-> place[id]] : id \in kept}]
    /\ IF job.at = "sending" THEN Befall(job.req, "daemon restarted while sending")
       ELSE UNCHANGED mishaps
    /\ UNCHANGED <<rows, marks, job, scan, imports, shown, crashes, aired>>

(* The control plane dies and starts: what a send was about to record is   *)
(* not known any more, and the startup says so.                            *)
SettledNothing == rows

Settled == [r \in Requests |-> IF rows[r].via = "cellular" /\ rows[r].status = "pending"
                               THEN [rows[r] EXCEPT !.status = "unknown"] ELSE rows[r]]

CellularCrash ==
    /\ crashes + mm.epoch < MaxFaults /\ crashes' = crashes + 1
    /\ rows' = Settled /\ job' = Idle /\ scan' = NoScan
    /\ UNCHANGED <<mm, marks, imports, shown, aired, mishaps>>

Poll ==
    \/ ScanBegins \/ Listed \/ ListingFails \/ Prune
    \/ \E path \in scan.todo : Inspect(path)
    \/ \E item \in scan.found : Import(item)
Submit == Create \/ Bind \/ Send \/ SendAnswered \/ RecordVerdict
Surroundings ==
    \/ TimePasses
    \/ \E id \in Outgoing \cup Incoming : Appears(id)
    \/ DaemonRestarts
=============================================================================
