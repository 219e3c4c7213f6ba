---------------------------- MODULE EventStream ----------------------------
(***************************************************************************)
(* listen (src/push.rs): state changes are cut out of a stream of server-  *)
(* sent events that arrives in chunks, which end anywhere.                 *)
(*                                                                         *)
(* A token is a line end's CR or LF, the name of a field, or a piece of    *)
(* its value.  A stream ends all its lines in one way, LF or CRLF.         *)
(***************************************************************************)
EXTENDS Integers, Sequences, SequencesExt

CONSTANTS
  NULL,
  Streams,      \* the streams a server may send: sequences of events
  CloseAfters   \* the values of close_after

VARIABLES
  stream,    \* what the server sends: its events, and the tokens they come to
  limit,     \* close_after, 0 for none
  pos,       \* how many tokens have arrived
  buffer,    \* buffer
  got,       \* the changes handed to on_change, in order
  pc         \* "connect", "read", "drain", "ok", "err"

vars == <<stream, limit, pos, buffer, got, pc>>

CR      == [is |-> "cr"]
LF      == [is |-> "lf"]
Event   == [is |-> "event:"]
Data    == [is |-> "data:"]
Comment == [is |-> ":"]
Text(v) == [is |-> v]

\* Piece part of the n that make up the JSON of a change of an account.
Json(account, change, part, n) ==
  [is |-> "json", account |-> account, change |-> change, part |-> part, n |-> n]

\* The lines of an event (external): the change it carries is its number.
LinesOf(kind, k) ==
  LET whole == <<Data, Json("own", k, 1, 1)>>
      state == <<Event, Text("state")>>
  IN  CASE kind = "state"   -> <<state, whole>>
        [] kind = "halves"  -> <<<<Data, Json("own", k, 1, 2)>>, <<Data, Json("own", k, 2, 2)>>, state>>
        [] kind = "untyped" -> <<whole>>
        [] kind = "empty"   -> <<state>>
        [] kind = "foreign" -> <<state, <<Data, Json("other", k, 1, 1)>>>>
        [] kind = "ping"    -> <<<<Event, Text("ping")>>, whole>>
        [] kind = "comment" -> <<<<Comment, Text("keep-alive")>>>>

Kinds == {"state", "halves", "untyped", "empty", "foreign", "ping", "comment"}

\* The kinds that tell the client of a change of its account.
Telling == {"state", "halves", "untyped"}

Token ==
  {CR, LF, Event, Data, Comment} \cup {Text(v) : v \in {"state", "ping", "keep-alive"}}
    \cup [is : {"json"}, account : {"own", "other"}, change : Nat, part : Nat, n : Nat]

ASSUME StreamAssumption ==
  /\ Streams \subseteq Seq(Kinds) /\ CloseAfters \subseteq Nat
  /\ NULL \notin Nat /\ NULL \notin [block : Seq(Token), rest : Seq(Token)]

\* The tokens of event k of a stream: its lines and a blank one (external).
Encode(kind, k, nl) == FlattenSeq([i \in 1..Len(LinesOf(kind, k)) |-> LinesOf(kind, k)[i] \o nl]) \o nl

\* A stream, and the position of the end of each of its events (external).
Sent(kinds, nl) ==
  LET blocks == [k \in 1..Len(kinds) |-> Encode(kinds[k], k, nl)]
  IN  [kinds |-> kinds, wire |-> FlattenSeq(blocks),
       ends |-> [k \in 1..Len(kinds) |-> Len(FlattenSeq(SubSeq(blocks, 1, k)))]]

Init ==
  /\ stream \in {Sent(kinds, nl) : kinds \in Streams, nl \in {<<LF>>, <<CR, LF>>}}
  /\ limit \in CloseAfters
  /\ pos = 0 /\ buffer = <<>> /\ got = <<>> /\ pc = "connect"

-----------------------------------------------------------------------------
\* Parsing.

\* Where a pattern first occurs, 0 if it does not.
Find(buf, pattern) ==
  LET at == {i \in 1..(Len(buf) - Len(pattern) + 1) :
               SubSeq(buf, i, i + Len(pattern) - 1) = pattern}
  IN  IF at = {} THEN 0 ELSE CHOOSE i \in at : \A j \in at : i <= j

SplitAt(buf, i, width) ==
  [block |-> SubSeq(buf, 1, i - 1), rest |-> SubSeq(buf, i + width, Len(buf))]

\* split_sse_event: the first CR LF CR LF, or else the first LF LF.
Split(buf) ==
  LET crlf == Find(buf, <<CR, LF, CR, LF>>)
      lf   == Find(buf, <<LF, LF>>)
  IN  IF crlf # 0 THEN SplitAt(buf, crlf, 4)
      ELSE IF lf # 0 THEN SplitAt(buf, lf, 2) ELSE NULL

\* The values of one field, in order: a field's name stands only where a line
\* begins, and a line has one value.
Values(block, field) ==
  LET found[i \in 0..Len(block)] ==
        IF i = 0 THEN <<>>
        ELSE IF block[i] = field THEN Append(found[i - 1], block[i + 1]) ELSE found[i - 1]
  IN  found[Len(block)]

\* parse_sse_block and the filters of listen: the last event: counts, and all of
\* the data: lines; an event of another type or without data is passed over.
Payload(block) ==
  LET types == Values(block, Event)
  IN  IF types # <<>> /\ Last(types) # Text("state") THEN <<>>
      ELSE Values(block, Data)

\* parse_state_change: the change, if the data is all of one of the own account.
ChangeOf(data) ==
  IF /\ data # <<>> /\ data[1].is = "json" /\ data[1].account = "own"
     /\ data = [i \in 1..data[1].n |-> Json("own", data[1].change, i, data[1].n)]
  THEN data[1].change ELSE NULL

-----------------------------------------------------------------------------
\* listen.

\* No event source URL, no connection, a status that is no success; or the stream.
Connect ==
  /\ pc = "connect"
  /\ pc' \in {"read", "err"}
  /\ UNCHANGED <<stream, limit, pos, buffer, got>>

\* Mutant: the chunk goes before what is left over.
ReadInFront ==
  /\ pc = "read"
  /\ \E upto \in (pos + 1)..Len(stream.wire) :
       /\ buffer' = SubSeq(stream.wire, pos + 1, upto) \o buffer
       /\ pos' = upto
  /\ pc' = "drain"
  /\ UNCHANGED <<stream, limit, got>>

\* The next chunk, cut anywhere.
Read ==
  /\ pc = "read"
  /\ \E upto \in (pos + 1)..Len(stream.wire) :
       /\ buffer' = buffer \o SubSeq(stream.wire, pos + 1, upto)
       /\ pos' = upto
  /\ pc' = "drain"
  /\ UNCHANGED <<stream, limit, got>>

\* The connection ends, or breaks, or is cut by the HTTP client's timeout.
Close ==
  /\ pc = "read"
  /\ pc' \in {"ok", "err"}
  /\ UNCHANGED <<stream, limit, pos, buffer, got>>

\* Mutant: one event of each chunk (if let for while let).
HandleOne ==
  /\ pc = "drain" /\ Split(buffer) # NULL
  /\ buffer' = Split(buffer).rest
  /\ LET change == ChangeOf(Payload(Split(buffer).block))
     IN  got' = IF change = NULL THEN got ELSE Append(got, change)
  /\ pc' = IF got' # got /\ limit > 0 /\ Len(got') >= limit THEN "ok" ELSE "read"
  /\ UNCHANGED <<stream, limit, pos>>

\* One complete event of the buffer.
Handle ==
  /\ pc = "drain" /\ Split(buffer) # NULL
  /\ buffer' = Split(buffer).rest
  /\ LET change == ChangeOf(Payload(Split(buffer).block))
     IN  got' = IF change = NULL THEN got ELSE Append(got, change)
  /\ pc' = IF got' # got /\ limit > 0 /\ Len(got') >= limit THEN "ok" ELSE "drain"
  /\ UNCHANGED <<stream, limit, pos>>

\* No complete event is left.
Drained ==
  /\ pc = "drain" /\ Split(buffer) = NULL
  /\ pc' = "read"
  /\ UNCHANGED <<stream, limit, pos, buffer, got>>

Next == Connect \/ Read \/ Close \/ Handle \/ Drained

Spec == Init /\ [][Next]_vars

-----------------------------------------------------------------------------
\* Properties.

\* The changes told by the events that have arrived to their blank line, up to
\* close_after: a definition by the events, not by the tokens.
Told ==
  LET told[k \in 0..Len(stream.kinds)] ==
        IF k = 0 THEN <<>>
        ELSE IF stream.ends[k] <= pos /\ stream.kinds[k] \in Telling THEN Append(told[k - 1], k)
        ELSE told[k - 1]
      arrived == told[Len(stream.kinds)]
  IN  IF limit = 0 \/ Len(arrived) <= limit THEN arrived ELSE SubSeq(arrived, 1, limit)

\* The shape of the state; the buffer is the tail of what has arrived, nothing
\* less and nothing twice (push.rs, listen).
TypeOK ==
  /\ pc \in {"connect", "read", "drain", "ok", "err"}
  /\ pos \in 0..Len(stream.wire)
  /\ Len(buffer) <= pos
  /\ buffer = SubSeq(stream.wire, pos - Len(buffer) + 1, pos)

\* However the stream is cut, on_change gets the changes in order, each once, none
\* before its event is complete, all of them before listen waits again or ends, and
\* listen does not wait again after the last one of close_after (push.rs, listen).
ChunksDoNotMatter ==
  /\ IsPrefix(got, Told)
  /\ pc # "drain" => got = Told
  /\ pc = "read" => limit = 0 \/ Len(got) < limit
=============================================================================
