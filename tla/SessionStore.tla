----------------------------- MODULE SessionStore -----------------------------
(* src/session/session.c: the file of a session, written anew after every turn  *)
(* and read by --resume.  A file is its lines: the metadata, here the number of *)
(* requests, and one message per line.  What a crash leaves of a line does not  *)
(* parse and is skipped by session_load, so a cut file is a prefix of lines.    *)
EXTENDS Integers, Sequences, SequencesExt

NoFile == <<[type |-> "no file"]>>

Metadata(requests) == [type |-> "metadata", requests |-> requests]

\* A session in memory; a new one is empty.
Session(uuid, msgs, requests) == [uuid |-> uuid, messages |-> msgs, requests |-> requests]

\* The lines session_save writes.
SavedLines(s) == <<Metadata(s.requests)>> \o s.messages

IsMetadata(line) == line.type = "metadata"

\* Slip: the metadata is not told from a message.
session_load_Slip(uuid, lines) ==
  Session(uuid, lines,
          IF lines # <<>> /\ IsMetadata(lines[1]) THEN lines[1].requests ELSE 0)

\* session_load: the counters if the metadata is there, and the messages in order.
\* session_save writes no other line of metadata than the first.
session_load(uuid, lines) ==
  IF lines # <<>> /\ IsMetadata(lines[1])
    THEN Session(uuid, Tail(lines), lines[1].requests)
    ELSE Session(uuid, lines, 0)

session_add_message(s, msg) == [s EXCEPT !.messages = Append(@, msg)]

\* session_track_usage: what the agent has counted since the last time.
session_track_usage(s, counted, last) == [s EXCEPT !.requests = @ + counted - last]
===============================================================================
