------------------------------ MODULE SnmpPoll ------------------------------
(***************************************************************************)
(* snmp.Poll, byte by byte: the request it sends, the printer's reply, and *)
(* what it makes of it.  Module ScanToPC takes a poll as one step that     *)
(* succeeds exactly when the printer has an entry of the InstanceID asked  *)
(* for; this module shows that the codec gives it that.                    *)
(***************************************************************************)
EXTENDS SnmpCodec

CONSTANT InstanceIDs
\* instanceID is an int of Go, of nine digits to the base 128 at most.
ASSUME InstanceIDsAssumption ==
    /\ InstanceIDs \subseteq Nat \ {0}
    /\ \A n \in InstanceIDs : Len(digits[n]) <= 9

VARIABLES
    phase,      \* "ask", "asked", "replied", "done"
    id,         \* instanceID
    entry,      \* the InstanceID of the Mac's entry on the printer, or 0
    menu,       \* the state of that entry
    request, reply,
    fate,       \* of the reply: "whole", "brief" (a value of another
                \* length), "cut" or "lost", or of the request: "unsent"
    answer      \* the state returned, "none" for ErrNoResponse, "error" for
                \* an error of the socket

printerVars == <<entry, menu>>
vars        == <<phase, id, printerVars, request, reply, fate, answer>>

States == <<"idle", "triggered", "ready">>

Init ==
    /\ phase = "ask" /\ id \in InstanceIDs
    /\ entry \in InstanceIDs \cup {0} /\ menu \in 0..2
    /\ request = <<>> /\ reply = <<>> /\ fate = "whole" /\ answer = "none"

-----------------------------------------------------------------------------
(***************************************************************************)
(* The printer.                                                            *)
(***************************************************************************)
\* The OID a request asks for, as bytes and as the arcs they stand for.
NameIn(req) == nth(nth(nth(nth(nth(req, 0).value, 2).value, 3).value, 0).value,
                   0).value
Arcs(body) ==
    LET Add(a, b) == IF b < 128 THEN [arcs |-> Append(a.arcs, a.high + b),
                                      high |-> 0]
                     ELSE [a EXCEPT !.high = 128 * (@ + b - 128)]
        read[i \in 1..Len(body)] ==
          IF i = 1 THEN [arcs |-> <<body[1] \div 40, body[1] % 40>>, high |-> 0]
          ELSE Add(read[i - 1], body[i])
    IN  read[Len(body)].arcs

Known(req) == entry # 0 /\ Arcs(NameIn(req)) = Append(oidBase, entry)

\* Lengths may come in any of the three forms, the request-id in four bytes,
\* and the state as OCTET STRING or INTEGER, in either byte order.
Wrap(form, tag, value) ==
    CASE form = 0 -> tlv(tag, value)
      [] form = 1 -> <<tag, 129, Len(value)>> \o value
      [] form = 2 -> <<tag, 130, 0, Len(value)>> \o value

RequestIDs == { <<2, 1, 1>>, <<2, 4, 114, 117, 193, 10>> }
Values(n)  == { tlv(t, v) : t \in {2, 4}, v \in {<<0, 0, 0, n>>, <<n, 0, 0, 0>>} }

Response(form, requestID, status, name, value) ==
    LET varbind == Wrap(form, 48, tlv(6, name) \o value)
        pdu     == Wrap(form, 162, requestID \o INTEGER(status)
                                   \o INTEGER(status \div 2)
                                   \o Wrap(form, 48, varbind))
    IN  Wrap(form, 48, INTEGER(0) \o tlv(4, community) \o pdu)

Reply ==
    /\ phase = "asked" /\ phase' = "replied"
    /\ \E form \in 0..2, requestID \in RequestIDs :
         LET Answered(status, value) ==
               reply' = Response(form, requestID, status, NameIn(request), value)
         IN \/ /\ Known(request)
               /\ \E v \in Values(menu) : Answered(0, v)
               /\ fate' = "whole"
            \/ /\ Known(request)
               /\ Answered(0, INTEGER(menu)) /\ fate' = "brief"
            \/ /\ ~Known(request)
               /\ Answered(2, <<5, 0>>) /\ fate' = "whole"
    /\ UNCHANGED <<id, printerVars, request, answer>>

\* A reply that breaks off.
Cut ==
    /\ phase = "replied" /\ fate # "cut"
    /\ \E n \in 0..(Len(reply) - 1) : reply' = SubSeq(reply, 1, n)
    /\ fate' = "cut"
    /\ UNCHANGED <<phase, id, printerVars, request, answer>>

-----------------------------------------------------------------------------
(***************************************************************************)
(* pollAddr.                                                               *)
(***************************************************************************)
Ask ==
    /\ phase = "ask" /\ phase' = "asked"
    /\ request' = buildGetRequest(id)
    /\ UNCHANGED <<id, printerVars, reply, fate, answer>>

\* The socket cannot be opened or written to, and the error is returned as it
\* is.
Unsent ==
    /\ phase = "ask" /\ phase' = "done"
    /\ request' = buildGetRequest(id)
    /\ fate' = "unsent" /\ answer' = "error"
    /\ UNCHANGED <<id, printerVars, reply>>

\* No reply before the deadline.
GiveUp ==
    /\ phase = "asked" /\ phase' = "done"
    /\ fate' = "lost" /\ answer' = "none"
    /\ UNCHANGED <<id, printerVars, request, reply>>

Parse ==
    /\ phase = "replied" /\ phase' = "done"
    /\ LET val == parseResponse(reply)
       IN  answer' = IF val = NoValue THEN "none" ELSE parseValue(val)
    /\ UNCHANGED <<id, printerVars, request, reply, fate>>

\* The next poll; meanwhile the entry and its menu may have changed.
Return ==
    /\ phase = "done" /\ phase' = "ask"
    /\ entry' \in {entry, 0} /\ menu' \in 0..2
    /\ request' = <<>> /\ reply' = <<>> /\ fate' = "whole" /\ answer' = "none"
    /\ UNCHANGED id

Next == Ask \/ Unsent \/ Reply \/ Cut \/ GiveUp \/ Parse \/ Return

Spec == Init /\ [][Next]_vars

-----------------------------------------------------------------------------
(***************************************************************************)
(* Properties.                                                             *)
(***************************************************************************)
\* The request names the agent's own entry and no other, whatever its
\* InstanceID: read as BER it is the OID of PROTOCOL.md with that last arc.
RequestNamesEntry ==
    phase \in {"asked", "replied"} =>
      Arcs(NameIn(request)) = Append(oidBase, id)

\* A poll that is sent returns the state of the agent's own entry if the
\* printer has it and the reply arrives, and ErrNoResponse otherwise: a lost
\* entry, a lost reply and a damaged one never pass for a state, and no
\* InstanceID, request id or form of length makes the value be found in the
\* wrong place.
PollExact ==
    phase = "done" =>
      answer = IF fate = "unsent" THEN "error"
               ELSE IF fate = "whole" /\ entry = id THEN States[menu + 1]
               ELSE "none"
=============================================================================
