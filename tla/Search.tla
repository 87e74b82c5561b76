------------------------------- MODULE Search -------------------------------
(***************************************************************************)
(* One OP_SEARCHREQUEST: process_search_request builds a tree from the     *)
(* packet without a stack, db_search_files walks it without a stack,       *)
(* collects the name terms in a buffer of fixed size and the other terms   *)
(* in one slot for each kind, runs the query, and writes the rows found.   *)
(*                                                                         *)
(* A term of the packet is one token.  The tree lives in an array of       *)
(* nodes; a pointer is an index and 0 is NULL.  Every turn of the two      *)
(* loops is a step.                                                        *)
(***************************************************************************)
EXTENDS Naturals, Sequences, FiniteSets, SequencesExt, FiniteSetsExt

CONSTANTS
  Names,             \* texts of name terms
  Garbled,           \* those that are no expression for the text index
  Limits,            \* values of numeric constraints
  Exts,              \* values of extension constraints
  Kinds,             \* kinds of constraints that packets have
  StrLen(_),         \* length of a name term in bytes
  Rows,              \* table files, joined with the index of names
  MAX_NAME_TERM_LEN,
  MAX_SEARCH_FILES,
  MaxTokens          \* bound: terms in a packet

Operators == {"ST_AND", "ST_OR", "ST_NOT"}

StringKinds == {"ST_EXTENSION", "ST_CODEC", "ST_TYPE"}

NumberKinds == {"ST_MINSIZE", "ST_MAXSIZE", "ST_SRCAVAIL", "ST_SRCCOMLETE",
                "ST_MINBITRATE", "ST_MINLENGTH"}

ASSUME KindsKnown == Kinds \subseteq StringKinds \cup NumberKinds
ASSUME GarbledAreNames == Garbled \subseteq Names
ASSUME SearchBoundsNat ==
  {MAX_NAME_TERM_LEN, MAX_SEARCH_FILES, MaxTokens} \cup Limits \subseteq Nat

(* The terms that process_search_request knows. *)
Terms ==
  [type : Operators, str_val : {""}, int_val : {0}]
    \cup [type : {"ST_STRING"}, str_val : Names, int_val : {0}]
    \cup [type : Kinds \cap StringKinds, str_val : Exts, int_val : {0}]
    \cup [type : Kinds \cap NumberKinds, str_val : {""}, int_val : Limits]

NULL == 0

VARIABLES
  phase,       \* "parse", "walk", "query", "write", or how it ended
  nodes,       \* the search nodes made so far; the root is the first
  n,           \* the local variable n, later snode
  stuck,       \* the token at pb->ptr is no term that is known
  input,       \* history: the tokens read
  name_term,   \* params.name_term, as a sequence of its parts
  name_len,    \* params.name_len
  params,      \* the other members of params, by kind; {} when not set
  rows,        \* rows that the statement has still to return
  reply        \* entries written to the reply

vars == <<phase, nodes, n, stuck, input, name_term, name_len, params, rows,
          reply>>

parseVars == <<nodes, stuck, input>>
queryVars == <<name_term, name_len, params>>
replyVars == <<rows, reply>>

EmptyNode(parent) ==
  [type |-> "ST_EMPTY", str_val |-> "", int_val |-> 0, parent |-> parent,
   left |-> NULL, right |-> NULL, left_visited |-> FALSE,
   right_visited |-> FALSE, string_term |-> FALSE]

Ended == {"replied", "malformed", "failed"}

Init ==
  /\ phase = "parse"
  /\ nodes = <<EmptyNode(NULL)>>
  /\ n = 1
  /\ stuck = FALSE
  /\ input = <<>>
  /\ name_term = <<>>
  /\ name_len = 0
  /\ params = [k \in Kinds |-> {}]
  /\ rows = {}
  /\ reply = <<>>

(* n = n->parent; the loop ends above the root. *)
Up(next) ==
  IF nodes[n].parent # NULL
  THEN n' = nodes[n].parent /\ UNCHANGED phase
  ELSE n' = 1 /\ phase' = next

-----------------------------------------------------------------------------
(* process_search_request                                                  *)

IsOperator(i) == nodes[i].type \in Operators

(* An operator gets its next child, which becomes the current node. *)
ParseChild ==
  LET child == Len(nodes) + 1
  IN  /\ phase = "parse"
      /\ IsOperator(n)
      /\ nodes[n].right = NULL
      /\ nodes' = Append(
           IF nodes[n].left = NULL THEN [nodes EXCEPT ![n].left = child]
                                   ELSE [nodes EXCEPT ![n].right = child],
           EmptyNode(n))
      /\ n' = child
      /\ UNCHANGED <<phase, stuck, input, queryVars, replyVars>>

(* Both children are there: the operator joins names when both do. *)
ParseJoin ==
  /\ phase = "parse"
  /\ IsOperator(n)
  /\ nodes[n].right # NULL
  /\ nodes' = [nodes EXCEPT ![n].string_term =
                 /\ nodes[nodes[n].left].string_term
                 /\ nodes[nodes[n].right].string_term]
  /\ Up("walk")
  /\ UNCHANGED <<stuck, input, queryVars, replyVars>>

(* Faulty variant of ParseTerm: the branch for NOT makes an AND. *)
ParseTermCopied(t) ==
  /\ phase = "parse"
  /\ nodes[n].type = "ST_EMPTY" /\ ~stuck
  /\ Len(input) < MaxTokens
  /\ input' = Append(input, t)
  /\ nodes' = [nodes EXCEPT
                 ![n].type = IF t.type = "ST_NOT" THEN "ST_AND" ELSE t.type,
                 ![n].str_val = t.str_val, ![n].int_val = t.int_val,
                 ![n].string_term = t.type = "ST_STRING"]
  /\ IF t.type \in Operators THEN UNCHANGED <<phase, n>> ELSE Up("walk")
  /\ UNCHANGED <<stuck, queryVars, replyVars>>

(* A term is read into an empty node; an operator stays current. *)
ParseTerm(t) ==
  /\ phase = "parse"
  /\ nodes[n].type = "ST_EMPTY" /\ ~stuck
  /\ Len(input) < MaxTokens
  /\ input' = Append(input, t)
  /\ nodes' = [nodes EXCEPT ![n].type = t.type,
                            ![n].str_val = t.str_val,
                            ![n].int_val = t.int_val,
                            ![n].string_term = t.type = "ST_STRING"]
  /\ IF t.type \in Operators THEN UNCHANGED <<phase, n>> ELSE Up("walk")
  /\ UNCHANGED <<stuck, queryVars, replyVars>>

(* No branch is taken for what is at pb->ptr, which may lie behind the end *)
(* of the packet: the node stays empty, and so do all that follow, since   *)
(* pb->ptr does not move.                                                  *)
ParseUnknown ==
  /\ phase = "parse"
  /\ nodes[n].type = "ST_EMPTY"
  /\ stuck' = TRUE
  /\ Up("walk")
  /\ UNCHANGED <<nodes, input, queryVars, replyVars>>

(* A term with an unknown tail, one that runs over the end of the packet,  *)
(* or bytes behind the end that look like a term.                          *)
ParseMalformed ==
  /\ phase = "parse"
  /\ nodes[n].type = "ST_EMPTY" /\ ~stuck
  /\ phase' = "malformed"
  /\ UNCHANGED <<parseVars, n, queryVars, replyVars>>

Parse ==
  \/ ParseChild \/ ParseJoin \/ \E t \in Terms : ParseTerm(t)
  \/ ParseUnknown \/ ParseMalformed

-----------------------------------------------------------------------------
(* The walk of db_search_files.                                            *)

PartLen(p) ==
  CASE p \in {"(", ")"} -> 1
    [] p \in {"ST_AND", "ST_NOT"} -> 5
    [] p = "ST_OR" -> 4
    [] OTHER -> StrLen(p)

(* The parts of a name term are added while the buffer holds them. *)
Emit(p) ==
  /\ name_len' = name_len + PartLen(p)
  /\ name_len + PartLen(p) < MAX_NAME_TERM_LEN + 1
  /\ name_term' = Append(name_term, p)

(* What an operator adds, at its three visits. *)
EmitIf(b, p) == IF b THEN Emit(p) ELSE UNCHANGED <<name_term, name_len>>

(* Faulty variant of WalkLeft: the visit is not noted. *)
WalkLeftAgain ==
  /\ phase = "walk" /\ IsOperator(n)
  /\ ~nodes[n].left_visited
  /\ EmitIf(nodes[n].string_term, "(")
  /\ n' = nodes[n].left
  /\ UNCHANGED <<phase, parseVars, params, replyVars>>

WalkLeft ==
  /\ phase = "walk" /\ IsOperator(n)
  /\ ~nodes[n].left_visited
  /\ EmitIf(nodes[n].string_term, "(")
  /\ nodes' = [nodes EXCEPT ![n].left_visited = TRUE]
  /\ n' = nodes[n].left
  /\ UNCHANGED <<phase, stuck, input, params, replyVars>>

(* Faulty variant of WalkRight: the kind of operator is forgotten. *)
WalkRightAnds ==
  /\ phase = "walk" /\ IsOperator(n)
  /\ nodes[n].left_visited /\ ~nodes[n].right_visited
  /\ EmitIf(nodes[n].string_term, "ST_AND")
  /\ nodes' = [nodes EXCEPT ![n].right_visited = TRUE]
  /\ n' = nodes[n].right
  /\ UNCHANGED <<phase, stuck, input, params, replyVars>>

WalkRight ==
  /\ phase = "walk" /\ IsOperator(n)
  /\ nodes[n].left_visited /\ ~nodes[n].right_visited
  /\ EmitIf(nodes[n].string_term, nodes[n].type)
  /\ nodes' = [nodes EXCEPT ![n].right_visited = TRUE]
  /\ n' = nodes[n].right
  /\ UNCHANGED <<phase, stuck, input, params, replyVars>>

WalkUp ==
  /\ phase = "walk" /\ IsOperator(n)
  /\ nodes[n].right_visited
  /\ EmitIf(nodes[n].string_term, ")")
  /\ Up("query")
  /\ UNCHANGED <<parseVars, params, replyVars>>

WalkName ==
  /\ phase = "walk" /\ nodes[n].type = "ST_STRING"
  /\ Emit(nodes[n].str_val)
  /\ Up("query")
  /\ UNCHANGED <<parseVars, params, replyVars>>

Value(i) == IF nodes[i].type \in StringKinds THEN nodes[i].str_val
                                             ELSE nodes[i].int_val

(* Faulty variant of WalkConstraint: an empty node is passed over. *)
WalkConstraintOrNothing ==
  /\ phase = "walk" /\ nodes[n].type \in Kinds \cup {"ST_EMPTY"}
  /\ params' = [k \in Kinds |->
                 IF k = nodes[n].type THEN {Value(n)} ELSE params[k]]
  /\ Up("query")
  /\ UNCHANGED <<parseVars, name_term, name_len, replyVars>>

(* A later node of the same kind replaces an earlier one. *)
WalkConstraint ==
  /\ phase = "walk" /\ nodes[n].type \in Kinds
  /\ params' = [params EXCEPT ![nodes[n].type] = {Value(n)}]
  /\ Up("query")
  /\ UNCHANGED <<parseVars, name_term, name_len, replyVars>>

(* What the node at hand would add to the name terms. *)
Part ==
  CASE nodes[n].type = "ST_STRING" -> nodes[n].str_val
    [] ~nodes[n].left_visited -> "("
    [] nodes[n].left_visited /\ ~nodes[n].right_visited -> nodes[n].type
    [] OTHER -> ")"

(* DB_CHECK: an empty node, or a name buffer that is full. *)
WalkFails ==
  /\ phase = "walk"
  /\ \/ nodes[n].type = "ST_EMPTY"
     \/ nodes[n].string_term /\ name_len + PartLen(Part) > MAX_NAME_TERM_LEN
  /\ phase' = "failed"
  /\ UNCHANGED <<parseVars, n, queryVars, replyVars>>

Walk ==
  \/ WalkLeft \/ WalkRight \/ WalkUp \/ WalkName \/ WalkConstraint
  \/ WalkFails

-----------------------------------------------------------------------------
(* The query and the reply.                                                *)

(* A constraint on a number is part of the query when it is not zero. *)
Active(k) == params[k] # {} /\ (k \in NumberKinds => params[k] # {0})

Column == [ST_EXTENSION |-> "ext", ST_CODEC |-> "mcodec", ST_TYPE |-> "type",
           ST_MINSIZE |-> "size", ST_MAXSIZE |-> "size",
           ST_SRCAVAIL |-> "srcavail", ST_SRCCOMLETE |-> "srccomplete",
           ST_MINBITRATE |-> "mbitrate", ST_MINLENGTH |-> "mlength"]

(* The comparison in the query for a constraint of kind k with value v. *)
Holds(r, k, v) ==
  CASE k \in StringKinds -> r[Column[k]] = v
    [] k = "ST_MAXSIZE" -> r[Column[k]] < v
    [] OTHER -> r[Column[k]] > v

IsName(p) == p \in Names

(* MATCH of the text index, with the enhanced syntax: a word, which is all *)
(* the text up to the next operator or parenthesis, or a group.  Terms     *)
(* next to each other all have to match, and an empty one matches nothing. *)
(* The result is the value and the place behind the expression.            *)
RECURSIVE MatchAt(_, _, _)
MatchAt(q, i, words) ==
  IF q[i] # "("
  THEN LET j == Max({k \in i .. Len(q) : \A l \in i .. k : IsName(q[l])})
       IN  [val |-> SubSeq(q, i, j) \in words, next |-> j + 1]
  ELSE LET l == MatchAt(q, i + 1, words)
           r == MatchAt(q, l.next + 1, words)
       IN  [val |-> CASE q[l.next] = "ST_AND" -> l.val /\ r.val
                      [] q[l.next] = "ST_OR" -> l.val \/ r.val
                      [] q[l.next] = "ST_NOT" -> l.val /\ ~r.val,
            next |-> r.next + 1]

RECURSIVE MatchFrom(_, _, _)
MatchFrom(q, i, words) ==
  i > Len(q) \/ LET m == MatchAt(q, i, words)
                IN  m.val /\ MatchFrom(q, m.next, words)

Match(q, words) == q # <<>> /\ MatchFrom(q, 1, words)

Selected ==
  {r \in Rows : /\ Match(name_term, r.words)
                /\ \A k \in Kinds : Active(k) =>
                     \A v \in params[k] : Holds(r, k, v)}

(* The statement runs; LIMIT leaves open which rows are dropped. *)
RunQuery ==
  /\ phase = "query"
  /\ ToSet(name_term) \cap Garbled = {}
  /\ \E found \in {Selected} :
       rows' \in kSubset(Min({MAX_SEARCH_FILES, Cardinality(found)}), found)
  /\ phase' = "write"
  /\ UNCHANGED <<parseVars, n, queryVars, reply>>

(* The first sqlite3_step finds no expression in the name term. *)
QueryFails ==
  /\ phase = "query"
  /\ ToSet(name_term) \cap Garbled # {}
  /\ phase' = "failed"
  /\ UNCHANGED <<parseVars, n, queryVars, replyVars>>

(* What write_search_file writes after the entry's header. *)
Tags(r) ==
  {"name", "size", "sources", "complete"}
    \cup {t \in {"ext"} : r.ext # ""}
    \cup {t \in {"rating"} : r.rated_count > 0}
    \cup {t \in {"length"} : r.mlength > 0}
    \cup {t \in {"bitrate"} : r.mbitrate > 0}
    \cup {t \in {"codec"} : r.mcodec # ""}

One(b) == IF b THEN 1 ELSE 0

(* Faulty variant of TagCount: the rating is not announced. *)
TagCountUnrated(r) ==
  4 + One(r.ext # "") + 2 * One(r.mlength > 0) + One(r.mcodec # "")

(* sfe.tag_count, in which the length stands for length and bitrate. *)
TagCount(r) ==
  4 + One(r.ext # "") + One(r.rated_count > 0) + 2 * One(r.mlength > 0)
    + One(r.mcodec # "")

WriteRow(r) ==
  /\ phase = "write" /\ r \in rows
  /\ rows' = rows \ {r}
  /\ reply' = Append(reply, [row |-> r, tag_count |-> TagCount(r)])
  /\ UNCHANGED <<phase, parseVars, n, queryVars>>

(* SQLITE_DONE: the header gets the number of entries, and all is sent. *)
SendReply ==
  /\ phase = "write" /\ rows = {}
  /\ phase' = "replied"
  /\ UNCHANGED <<parseVars, n, queryVars, replyVars>>

Next ==
  \/ Parse \/ Walk \/ RunQuery \/ QueryFails
  \/ \E r \in Rows : WriteRow(r)
  \/ SendReply

Spec == Init /\ [][Next]_vars

FairSpec == Spec /\ WF_vars(Next)

=============================================================================
