----------------------------- MODULE StatusRead -----------------------------
(***************************************************************************)
(* How the device owner reads the printer's status: pt_read_live_tape (the *)
(* drain, the request, the reply) and pt_await_ready (the phases a printed *)
(* page reports), over one byte stream that also carries what earlier      *)
(* exchanges left behind.  PrintRun takes the outcome of each for granted. *)
(*                                                                         *)
(* A 32-byte packet is two fragments, so that it can arrive split.  The    *)
(* printer and the connection are external: a request may stay unanswered, *)
(* and what the printer owes is delivered at any later time.               *)
(***************************************************************************)
EXTENDS Naturals, Sequences

CONSTANTS
    Tries,        \* PT_STATUS_POLL_TRIES: reads in one exchange
    MaxRequests,  \* bound: status requests sent
    MaxPages      \* bound: pages released

ASSUME TriesAssumption  == Tries \in Nat \ {0}
ASSUME BoundsAssumption == MaxRequests \in Nat /\ MaxPages \in Nat

VARIABLES
    pc,         \* what the device owner is doing
    tries,      \* reads left in this exchange
    packet,     \* fragments of the packet being collected
    result,     \* how the last exchange or wait ended
    answered,   \* number of the request or page that ended it
    requests, pages,   \* sent so far
    wire,       \* fragments that have arrived and were not read
    owed,       \* fragments the printer has yet to send
    settled     \* history: nothing was owed when the last drain ended

vars == <<pc, tries, packet, result, answered, requests, pages, wire, owed,
          settled>>

-----------------------------------------------------------------------------
(* Packets.  buf[18] and buf[19] tell the kinds apart: a reply has type 0, *)
(* ready is type 6 phase 0, printing type 6 phase 1, completed type 1; an  *)
(* error notification carries error bits.                                  *)

Kinds     == {"reply", "printing", "completed", "ready", "error"}
Fragments == [kind : Kinds, of : Nat, head : BOOLEAN]
Split(k, n) == << [kind |-> k, of |-> n, head |-> TRUE],
                  [kind |-> k, of |-> n, head |-> FALSE] >>

(* Deliberate bug: the two header bytes are not checked.                   *)
Parses_Anything(p) == TRUE

(* pt_parse_status: only the first fragment begins with 0x80 0x20.         *)
Parses(p) == p[1].head

TypeOK ==
    /\ pc \in {"idle", "drain", "request", "collect", "await"}
    /\ tries \in 0 .. Tries
    /\ packet \in Seq(Fragments) /\ Len(packet) <= 1
    /\ result \in {"none", "error", "silent", "partial", "parsed", "ready",
                   "uncertain"}
    /\ answered \in Nat /\ requests \in 0 .. MaxRequests /\ pages \in 0 .. MaxPages
    /\ wire \in Seq(Fragments) /\ owed \in Seq(Fragments) /\ settled \in BOOLEAN

(* What a USB endpoint kept from a server that stopped in the middle.      *)
Leftovers == {<<>>, Tail(Split("reply", 0)),
              Split("completed", 0) \o Split("ready", 0)}

Init ==
    /\ pc = "idle" /\ tries = 0 /\ packet = <<>>
    /\ result = "none" /\ answered = 0
    /\ requests = 0 /\ pages = 0
    /\ wire \in Leftovers /\ owed = <<>> /\ settled = FALSE

Smaller(m, n) == IF m < n THEN m ELSE n

(* One read of at most n fragments: it waits for all of them and returns   *)
(* what had arrived when its time ran out.                                 *)
Received(n) == SubSeq(wire, 1, Smaller(n, Len(wire)))
Consume(n)  == wire' = SubSeq(wire, Smaller(n, Len(wire)) + 1, Len(wire))

End(outcome, n) ==
    pc' = "idle" /\ result' = outcome /\ answered' = n /\ packet' = <<>>

-----------------------------------------------------------------------------
(* pt_read_live_tape.                                                      *)

(* By a job before its first output, a cut, or a poll: never once output   *)
(* is uncertain, never between the pages of a batch.                       *)
BeginExchange ==
    /\ pc = "idle" /\ result \notin {"uncertain", "ready"}
    /\ requests < MaxRequests
    /\ pc' = "drain" /\ tries' = Tries /\ packet' = <<>>
    /\ result' = "none" /\ answered' = 0
    /\ UNCHANGED <<requests, pages, wire, owed, settled>>

DrainRead ==
    /\ pc = "drain" /\ tries > 0 /\ wire # <<>>
    /\ Consume(2)
    /\ tries' = tries - 1
    /\ UNCHANGED <<pc, packet, result, answered, requests, pages,
                   owed, settled>>

(* Deliberate bug: the request is sent over queued input.                  *)
DrainEmpty_Skipped ==
    /\ pc = "drain" /\ tries > 0
    /\ pc' = "request" /\ tries' = tries - 1
    /\ settled' = (owed = <<>>)
    /\ UNCHANGED <<packet, result, answered, requests, pages, wire, owed>>

DrainEmpty ==
    /\ pc = "drain" /\ tries > 0 /\ wire = <<>>
    /\ pc' = "request" /\ tries' = tries - 1
    /\ settled' = (owed = <<>>)
    /\ UNCHANGED <<packet, result, answered, requests, pages, wire, owed>>

(* The printer may be too busy to answer, or off.                          *)
SendRequest ==
    /\ pc = "request"
    /\ requests' = requests + 1
    /\ owed' \in {owed, owed \o Split("reply", requests + 1)}
    /\ pc' = "collect"
    /\ UNCHANGED <<tries, packet, result, answered, pages, wire, settled>>

(* Page notifications before the reply are dropped.  Out of step with the  *)
(* packets, buf[18] is some other byte: the exchange ends or goes on.      *)
CollectRead ==
    /\ pc = "collect" /\ tries > 0
    /\ Consume(2 - Len(packet))
    /\ tries' = tries - 1
    /\ LET p == packet \o Received(2 - Len(packet)) IN
       \/ Len(p) < 2 /\ packet' = p /\ UNCHANGED <<pc, result, answered>>
       \/ /\ Len(p) = 2 /\ Parses(p) /\ p[1].kind = "reply"
          /\ End("parsed", p[1].of)
       \/ Len(p) = 2 /\ ~Parses(p) /\ End("partial", 0)
       \/ /\ Len(p) = 2 /\ (Parses(p) => p[1].kind # "reply")
          /\ packet' = <<>> /\ UNCHANGED <<pc, result, answered>>
    /\ UNCHANGED <<requests, pages, owed, settled>>

(* Deliberate bug: an exhausted budget starts over.                        *)
ExchangeExhausted_StartsOver ==
    /\ pc \in {"drain", "collect"} /\ tries = 0
    /\ tries' = Tries
    /\ UNCHANGED <<pc, packet, result, answered, requests, pages, wire,
                   owed, settled>>

ExchangeExhausted ==
    /\ pc \in {"drain", "collect"} /\ tries = 0
    /\ End(IF packet = <<>> THEN "silent" ELSE "partial", 0)
    /\ UNCHANGED <<tries, requests, pages, wire, owed, settled>>

(* A read fails, or the request is not sent.                               *)
ExchangeFails ==
    /\ pc \in {"drain", "request", "collect"}
    /\ End("error", 0)
    /\ UNCHANGED <<tries, requests, pages, wire, owed, settled>>

-----------------------------------------------------------------------------
(* Output, and pt_await_ready after it.                                    *)

Reports(n) ==
    LET good == Split("printing", n) \o Split("completed", n) \o Split("ready", n)
    IN {good, <<>>, Split("printing", n),
        Split("printing", n) \o Split("error", n) \o Split("ready", n)}

(* FF or EJECT: a job's label, or the blank continuation.  Only after a    *)
(* status confirmed the tape, or the preceding page confirmed readiness.   *)
ReleasePage ==
    /\ pc = "idle" /\ result \in {"parsed", "ready"} /\ pages < MaxPages
    /\ pages' = pages + 1
    /\ \E r \in Reports(pages + 1) : owed' = owed \o r
    /\ pc' = "await" /\ packet' = <<>> /\ result' = "none" /\ answered' = 0
    /\ UNCHANGED <<tries, requests, wire, settled>>

(* Deliberate bug: print-completed is taken for readiness.                 *)
IsReady_Completed(p) == p[1].kind \in {"completed", "ready"}

IsReady(p) == p[1].kind = "ready"

AwaitRead ==
    /\ pc = "await"
    /\ Consume(2 - Len(packet))
    /\ LET p == packet \o Received(2 - Len(packet)) IN
       \/ Len(p) < 2 /\ packet' = p /\ UNCHANGED <<pc, result, answered>>
       \/ /\ Len(p) = 2 /\ (~Parses(p) \/ p[1].kind = "error")
          /\ End("uncertain", 0)
       \/ Len(p) = 2 /\ Parses(p) /\ IsReady(p) /\ End("ready", p[1].of)
       \/ /\ Len(p) = 2 /\ Parses(p) /\ p[1].kind # "error" /\ ~IsReady(p)
          /\ packet' = <<>> /\ UNCHANGED <<pc, result, answered>>
    /\ UNCHANGED <<tries, requests, pages, owed, settled>>

(* A read error, twenty seconds, a canceled job.                           *)
AwaitFails ==
    /\ pc = "await"
    /\ End("uncertain", 0)
    /\ UNCHANGED <<tries, requests, pages, wire, owed, settled>>

-----------------------------------------------------------------------------
(* The connection and the printer.                                         *)

Deliver ==
    /\ owed # <<>>
    /\ wire' = Append(wire, Head(owed)) /\ owed' = Tail(owed)
    /\ UNCHANGED <<pc, tries, packet, result, answered, requests, pages, settled>>

(* Closed by one owner and opened by the next: a Bluetooth socket discards *)
(* what it held, a USB endpoint keeps it.                                  *)
Reopen ==
    /\ pc = "idle" /\ result # "uncertain"
    /\ \/ UNCHANGED <<wire, owed>>
       \/ wire' = <<>> /\ owed' = <<>>
    /\ result' = "none" /\ answered' = 0
    /\ UNCHANGED <<pc, tries, packet, requests, pages, settled>>

(* The recovery an uncertain run asks for: power-cycle, then restart.      *)
Recover ==
    /\ result = "uncertain"
    /\ wire' = <<>> /\ owed' = <<>> /\ result' = "none"
    /\ UNCHANGED <<pc, tries, packet, answered, requests, pages, settled>>

ReaderStep ==
    \/ DrainRead \/ DrainEmpty \/ SendRequest \/ CollectRead
    \/ ExchangeExhausted \/ ExchangeFails
    \/ AwaitRead \/ AwaitFails

Next == BeginExchange \/ ReaderStep \/ ReleasePage \/ Deliver \/ Reopen \/ Recover

Spec == Init /\ [][Next]_vars

-----------------------------------------------------------------------------
(* Properties.                                                             *)

Coming == wire \o owed
Notices(n) == {i \in 1 .. Len(Coming) :
                   Coming[i].of <= n /\ Coming[i].kind # "reply"}

(* The readiness that lets a run become healthy is that of the page just   *)
(* released, and none of its phases is left to satisfy the next wait:      *)
(* whatever late replies and notifications the stream still carried.       *)
ReadyIsCurrent == result = "ready" => answered = pages /\ Notices(pages) = {}

(* A page's wait starts in step with the packets: an earlier exchange that *)
(* ended halfway through a packet never makes a good page look invalid.    *)
AwaitInStep ==
    pc = "await" =>
        LET rest == packet \o Coming IN rest # <<>> => rest[1].head

(* The status an exchange returns answers its own request, not an earlier  *)
(* one that went unanswered, unless the answer to that was still under way *)
(* when the drain ended: it can only discard what has arrived.             *)
SnapshotIsRequested == result = "parsed" /\ settled => answered = requests

(* An exchange and a wait for readiness end, however many fragments arrive *)
(* or if none does.                                                        *)
ReadsEnd == pc # "idle" ~> pc = "idle"

-----------------------------------------------------------------------------
(* Inductive strengthenings of the invariants above (StatusReadProofs).    *)
(* The stream is the fragments collected, arrived and owed, in this order; *)
(* "after" fragments of it follow those of s.                              *)

(* What an idle owner and each step of an exchange have left to do.        *)
StepInv ==
    /\ pc \notin {"collect", "await"} => packet = <<>>
    /\ pc # "idle" => result = "none"
    /\ pc \in {"drain", "request"} => requests < MaxRequests

(* Whole packets end the stream, and it starts with one whenever a page is *)
(* or may be released.                                                     *)
Paired(s, after) ==
    \A i \in 1 .. Len(s) : s[i].head <=> (Len(s) - i + after) % 2 = 1
PairInv ==
    /\ Paired(packet, Len(wire) + Len(owed))
    /\ Paired(wire, Len(owed)) /\ Paired(owed, 0)
    /\ pc = "await" \/ result \in {"parsed", "ready"}
          => (Len(packet) + Len(wire) + Len(owed)) % 2 = 0

(* Outside a page's wait notices come before replies, so a reply has none  *)
(* behind it; during the wait all are the page's, and readiness is last.   *)
Replies(s) == \A i \in 1 .. Len(s) : s[i].kind = "reply"
OfPage(s, after) ==
    \A i \in 1 .. Len(s) : s[i].kind # "reply" =>
        s[i].of = pages /\ (s[i].kind = "ready" => Len(s) - i + after <= 1)
NoticeInv ==
    /\ pc # "await" /\ result # "uncertain" =>
        /\ Replies(owed)
        /\ \A i, j \in 1 .. Len(wire) :
              i <= j /\ wire[i].kind = "reply" => wire[j].kind = "reply"
        /\ \A i \in 1 .. Len(packet) : packet[i].kind = "reply" => Replies(wire)
        /\ result = "parsed" => Replies(wire)
    /\ result = "ready" => wire = <<>> /\ owed = <<>> /\ answered = pages
    /\ pc = "await" => /\ OfPage(packet, Len(wire) + Len(owed))
                       /\ OfPage(wire, Len(owed)) /\ OfPage(owed, 0)

(* A request sent when nothing was owed finds nothing in the stream.       *)
OfRequest(s) == \A i \in 1 .. Len(s) : s[i].of = requests
SnapshotInv == settled =>
    /\ pc = "request" => wire = <<>> /\ owed = <<>>
    /\ pc = "collect" => OfRequest(packet) /\ OfRequest(wire) /\ OfRequest(owed)
    /\ result = "parsed" => answered = requests

-----------------------------------------------------------------------------
(* Fairness: the reader's thread runs, and the clock reaches the deadline  *)
(* of a wait.                                                              *)

FairSpec == Spec /\ WF_vars(ReaderStep) /\ WF_vars(AwaitFails)
=============================================================================
