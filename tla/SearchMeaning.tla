--------------------------- MODULE SearchMeaning ----------------------------
(***************************************************************************)
(* What a search means: the expression in prefix order that a packet       *)
(* holds, and the rows that satisfy it.  The properties compare the        *)
(* parser, the walk and the query of module Search with it.                *)
(***************************************************************************)
EXTENDS Search

(* The tree below a node, as the terms in prefix order. *)
RECURSIVE Prefix(_)
Prefix(i) ==
  LET t == [type |-> nodes[i].type, str_val |-> nodes[i].str_val,
            int_val |-> nodes[i].int_val]
  IN  IF IsOperator(i)
      THEN <<t>> \o Prefix(nodes[i].left) \o Prefix(nodes[i].right)
      ELSE <<t>>

(* A prefix expression has one operand more than it has operators, and no  *)
(* proper beginning of it does.                                            *)
Excess(s) ==
  Cardinality({i \in DOMAIN s : s[i].type \notin Operators})
    - Cardinality({i \in DOMAIN s : s[i].type \in Operators})

WellFormed(s) ==
  Excess(s) = 1 /\ \A i \in 0 .. Len(s) - 1 : Excess(SubSeq(s, 1, i)) < 1

(* Only names and operators on names. *)
RECURSIVE Pure(_)
Pure(i) == IF IsOperator(i) THEN Pure(nodes[i].left) /\ Pure(nodes[i].right)
                            ELSE nodes[i].type = "ST_STRING"

RECURSIVE Satisfies(_, _)
Satisfies(r, i) ==
  LET l == nodes[i].left
      g == nodes[i].right
  IN  CASE nodes[i].type = "ST_AND" -> Satisfies(r, l) /\ Satisfies(r, g)
        [] nodes[i].type = "ST_OR" -> Satisfies(r, l) \/ Satisfies(r, g)
        [] nodes[i].type = "ST_NOT" -> Satisfies(r, l) /\ ~Satisfies(r, g)
        [] nodes[i].type = "ST_STRING" -> <<nodes[i].str_val>> \in r.words
        [] OTHER -> Holds(r, nodes[i].type, Value(i))

Nodes == 1 .. Len(nodes)

(* The largest subtrees that consist of names. *)
NameParts == {i \in Nodes : Pure(i) /\ (nodes[i].parent = NULL
                                         \/ ~Pure(nodes[i].parent))}

(* The searches that the query can express: one part made of names, and    *)
(* constraints of different kinds and other than zero, joined by AND.      *)
Expressible ==
  /\ Cardinality(NameParts) = 1
  /\ \A i \in Nodes : IsOperator(i) /\ ~Pure(i) => nodes[i].type = "ST_AND"
  /\ \A i, j \in Nodes :
       nodes[i].type \in Kinds /\ nodes[j].type = nodes[i].type => i = j
  /\ \A i \in Nodes : nodes[i].type \in NumberKinds => nodes[i].int_val # 0

(* Bytes of the name terms below a node, with what joins them. *)
RECURSIVE NameBytes(_)
NameBytes(i) ==
  IF ~IsOperator(i)
  THEN IF nodes[i].type = "ST_STRING" THEN StrLen(nodes[i].str_val) ELSE 0
  ELSE NameBytes(nodes[i].left) + NameBytes(nodes[i].right)
         + (IF Pure(i) THEN 2 + PartLen(nodes[i].type) ELSE 0)

(* The names fit the buffer, and the text index understands them. *)
Answerable ==
  /\ NameBytes(1) <= MAX_NAME_TERM_LEN
  /\ \A i \in DOMAIN input : input[i].str_val \notin Garbled

-----------------------------------------------------------------------------
TypeOK ==
  /\ phase \in {"parse", "walk", "query", "write"} \cup Ended
  /\ n \in Nodes
  /\ stuck \in BOOLEAN
  /\ input \in Seq(Terms)
  /\ name_term \in Seq(Names \cup Operators \cup {"(", ")"})
  /\ name_len \in Nat
  /\ rows \subseteq Rows
  /\ Len(reply) <= MAX_SEARCH_FILES

(* The parser follows the prefix order although it keeps its place with    *)
(* parent pointers only: once it has climbed above the root, the tree read *)
(* back in prefix order is what the packet held, with no term lost,        *)
(* doubled or hung under another operator.                                 *)
TreeIsInput ==
  phase \in {"walk", "query", "write", "replied"} /\ ~stuck
    => Prefix(1) = input

(* A search is answered when its packet starts with a complete expression, *)
(* its names fit the buffer and the text index understands them, and only  *)
(* then: a truncated packet or an unknown term, wherever it stands, never  *)
(* leads to a reply for a part of the expression.                          *)
AnsweredIffComplete ==
  /\ phase = "replied" => ~stuck /\ WellFormed(input) /\ Answerable
  /\ phase = "failed" => stuck \/ ~Answerable
  /\ phase = "malformed" => ~WellFormed(input)

(* The result of a search that the query can express is what the           *)
(* expression means: the names keep their operators and parentheses while  *)
(* the constraints are taken out of the tree.                              *)
ResultIsMeant ==
  (phase = "replied" /\ Expressible
     /\ Cardinality(Selected) <= MAX_SEARCH_FILES) =>
    {reply[i].row : i \in DOMAIN reply} = {r \in Rows : Satisfies(r, 1)}

(* A reader of the reply finds the next entry where the last one ends: the *)
(* number of tags is the announced one, for a file that has both a length  *)
(* and a bitrate or neither.  No file is in the reply twice.               *)
EntriesAsAnnounced ==
  /\ \A i \in DOMAIN reply :
       ((reply[i].row.mlength > 0) = (reply[i].row.mbitrate > 0))
         => reply[i].tag_count = Cardinality(Tags(reply[i].row))
  /\ \A i, j \in DOMAIN reply : reply[i].row = reply[j].row => i = j

(* The two loops end for every packet. *)
SearchEnds == <>(phase \in Ended)

=============================================================================
