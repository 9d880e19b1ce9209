----------------------------- MODULE MCDropTransfer -----------------------------
(***************************************************************************)
(* Small instances of DropTransfer.                                        *)
(*  - Changed: two attempts on one drop_id and key; the second sends a     *)
(*    file whose middle changed, so that a resume would mix two contents.  *)
(*  - Retry: attempts on one key with fresh drop_ids (what the CLI and the *)
(*    dashboard send), the third with other content under that key.        *)
(*  - Live: two streams of undeclared size on one drop_id.                 *)
(***************************************************************************)
EXTENDS DropTransfer

One(v) == [a \in Attempts |-> v]
Old == <<"h", "x", "y">>
New == <<"h", "w", "y">>
DeclaredLen == [a \in Attempts |-> Len(Payload[a])]

\* By attempt number.
ChangedPayload == [a \in Attempts |-> IF a = 1 THEN Old ELSE New]
SameDrop == One("d")
OwnDrop == [a \in Attempts |-> a]
SameKey == One("k")
Files == One("file")
Single == One(<<"h">>)
RetryPayload == [a \in Attempts |-> IF a = 3 THEN <<"h", "w">> ELSE <<"h", "x">>]
UnknownSize == One(0)
=============================================================================
