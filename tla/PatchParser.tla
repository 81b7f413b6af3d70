---------------------------- MODULE PatchParser ----------------------------
(***************************************************************************)
(* What the parser of acugw makes of one event of the upstream             *)
(* (acugw/src/sse.rs): a patch with the optional fields p (path), o (op)   *)
(* and v (value) is applied to the parser's PatchState, in which path and  *)
(* op outlive the event, and gives the events to send on.                  *)
(*                                                                         *)
(* A path is the sequence of its components, "" the empty one.  A text is  *)
(* "words", "blank" (nothing is left of it after sanitize_content) or one  *)
(* of the two statuses.  An optional JSON field is a field that a record   *)
(* may have; a value is a record with the one field text (a string), items *)
(* (an array) or response (an object with fragments).                      *)
(***************************************************************************)
EXTENDS Naturals, Sequences, SequencesExt

Kind == {"THINK", "RESPONSE"}   \* FragmentKind
NewState == [path |-> <<>>, op |-> "", fragments |-> <<>>]

Has(json, field) == field \in DOMAIN json

(* What a Fragment, a status, a Ready and a Hint are to those who read     *)
(* the channel: only pieces of the answer are relayed.                     *)
Piece(kind, text) ==
    IF text = "blank" THEN <<>> ELSE <<IF kind = "RESPONSE" THEN "text" ELSE "other">>

(* An array of fragments: their kinds, and the pieces in them.             *)
Kinds(items) == [i \in DOMAIN items |-> items[i].kind]

Pieces(items) == FlattenSeq([i \in DOMAIN items |-> Piece(items[i].kind, items[i].text)])

Result(st, evs) == [st |-> st, evs |-> evs]

Snapshot(st, items) == Result([st EXCEPT !.fragments = Kinds(items)], Pieces(items))

Appended(st, items) == Result([st EXCEPT !.fragments = @ \o Kinds(items)], Pieces(items))

(* Index -1 is the last fragment; without such a fragment the text is lost. *)
Slot(st, index) == IF index = "-1" THEN Len(st.fragments) ELSE 1

Increment(st, index, text) ==
    LET slot == Slot(st, index)
    IN  Result(st, IF slot \in DOMAIN st.fragments
                   THEN Piece(st.fragments[slot], text) ELSE <<>>)

ApplyAt(st, path, op, v) ==
    CASE path = <<"response", "status">> /\ Has(v, "text") ->
            Result(st, IF v.text \in {"FINISHED", "INCOMPLETE"} THEN <<"finished">> ELSE <<>>)
      [] path = <<"response", "content">> /\ Has(v, "text") ->
            Result(st, Piece("RESPONSE", v.text))
      [] path = <<"response", "fragments">> /\ op = "APPEND" /\ Has(v, "items") ->
            Appended(st, v.items)
      [] Len(path) = 4 /\ path[2] = "fragments" /\ path[4] = "content" /\ Has(v, "text") ->
            Increment(st, path[3], v.text)
      [] OTHER -> Result(st, <<>>)   \* metadata too

(* A child of a BATCH: its path is absolute, or relative to the batch's,   *)
(* its op SET if it has none.                                              *)
ChildPath(path, child) ==
    CASE ~Has(child, "p") -> path
      [] Has(child, "p") /\ child.p[1] = "response" -> child.p
      [] OTHER -> path \o child.p

Batch(st, path, items) ==
    LET Child(sofar, child) ==
            LET next == ApplyAt(sofar.st, ChildPath(path, child),
                                IF Has(child, "o") THEN child.o ELSE "SET", child.v)
            IN  Result(next.st, sofar.evs \o next.evs)
    IN  FoldLeft(Child, Result(st, <<>>), items)

(* Mutation: the op does not outlive its event.                            *)
PersistPath(st, json) ==
    [st EXCEPT !.path = IF Has(json, "p") THEN json.p ELSE @,
               !.op = IF Has(json, "o") THEN json.o ELSE ""]

Persist(st, json) ==
    [st EXCEPT !.path = IF Has(json, "p") THEN json.p ELSE @,
               !.op = IF Has(json, "o") THEN json.o ELSE @]

Apply(old, json) ==
    LET st == Persist(old, json)
    IN  CASE ~Has(json, "v") -> Result(st, <<>>)
          [] Has(json, "v") /\ st.path = <<>> ->
                CASE Has(json.v, "response") -> Snapshot(st, json.v.response)
                  [] Has(json.v, "text") -> Result(st, Piece("RESPONSE", json.v.text))
                  [] OTHER -> Result(st, <<>>)
          [] Has(json, "v") /\ st.path # <<>> /\ st.op = "BATCH" ->
                Batch(st, st.path, IF Has(json.v, "items") THEN json.v.items ELSE <<>>)
          [] OTHER -> ApplyAt(st, st.path, st.op, json.v)

(* An event without data (or with data that is no JSON object) has no      *)
(* effect; one with a name is no patch.                                    *)
FlushEvent(st, event, json) ==
    CASE event = "none" -> Apply(st, json)
      [] event = "hint" -> Result(st, <<"hint">>)
      [] event \in {"ready", "unknown"} -> Result(st, <<"other">>)
      [] event \in {"update_session", "close"} -> Result(st, <<>>)
=============================================================================
