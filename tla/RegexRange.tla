------------------------------ MODULE RegexRange ------------------------------
(***************************************************************************)
(* The character-class builder of nova.api.validation.parameter_types and  *)
(* the name-validation regexes built from it when the module is imported. *)
(*                                                                         *)
(* _build_regex_range scans the code points range(0xFFFF) once and emits  *)
(* a regex character class of maximal runs "x" or "x-y" of the code       *)
(* points valid_char accepts; it is wrapped by the memorize decorator,    *)
(* whose _REGEX_RANGE_CACHE is keyed by the name and the printed          *)
(* positional and keyword arguments.  The import makes eleven calls; the  *)
(* scan is modelled one loop iteration per step.                          *)
(*                                                                         *)
(* Code points are 0..CodeCount-1, the scan covers 0..CodeSpace-1 (the    *)
(* first 0xFFFF of them) and cat[x] is unicodedata.category(chr(x)), a    *)
(* two-letter pair <<major, minor>> fixed for a behaviour.  re.escape(x)  *)
(* is the token Lit(x): a character the class reads literally.           *)
(***************************************************************************)
EXTENDS Naturals, Sequences, SequencesExt

CONSTANTS
  CodeCount,   \* code points a name can contain
  CodeSpace,   \* the bound of range(0xFFFF) in _get_all_chars
  Categories,  \* the unicode categories the model assigns
  Colon,       \* the code point of ':'
  NoValue,     \* None
  MaxNameLen,  \* length of the longest name validated
  Newline      \* the code point of '\n' (outside 0..CodeCount-1: no newline)

ASSUME 1 <= CodeSpace /\ CodeSpace <= CodeCount /\ Colon \in 0..CodeCount-1
ASSUME Newline \in Nat /\ Newline # Colon

Codes == 0..CodeCount-1

VARIABLES
  cat,         \* cat[x]: unicodedata.category(chr(x))
  pending,     \* the calls the module import has still to make
  cache,       \* _REGEX_RANGE_CACHE: key -> regex
  call,        \* keyword arguments of the call being computed, or NoValue
  c, regex, in_range, last, last_added,  \* the locals of _build_regex_range
  built,       \* the values the calls of the import returned, in order
  probe,       \* a name checked against the regexes after the import
  stmt,        \* the next schema statement of the import (Stmts)
  objs,        \* the dict objects the schema statements created: addr -> dict
  names        \* the module globals they bound: name -> reference

schemaVars == <<stmt, objs, names>>
vars == <<cat, pending, cache, call, c, regex, in_range, last, last_added, built, probe,
          stmt, objs, names>>

Lit(x) == <<"lit", x>>
Dash == <<"dash", 0>>

\* _is_printable: neither "other" (C*) nor a non-horizontal space (Z* but Zs).
IsPrintable(x) ==
  cat[x][1] # "C" /\ (cat[x][1] # "Z" \/ cat[x] = <<"Z", "s">>)

\* A keyword argument of a call (a sequence of name/value pairs, in the
\* order written), or its default.
Kwarg(kw, name, default) ==
  LET found == {i \in 1..Len(kw) : kw[i][1] = name}
  IN  IF found = {} THEN default ELSE kw[CHOOSE i \in found : TRUE][2]

\* valid_char of _build_regex_range(ws=True, invert=False, exclude=None)
ValidChar(kw, x) ==
  LET result == IF x \in Kwarg(kw, "exclude", {}) THEN FALSE
                ELSE IF Kwarg(kw, "ws", TRUE) THEN IsPrintable(x)
                ELSE IsPrintable(x) /\ cat[x] # <<"Z", "s">>
  IN  IF Kwarg(kw, "invert", FALSE) THEN ~result ELSE result

\* The calls of the import, in order: the three classes of
\* valid_name_regex, of valid_az_name_regex, the two of
\* valid_az_name_leading_trailing_spaces_regex and of
\* valid_name_leading_trailing_spaces_regex, and valid_description_regex.
NoWsInvert == <<<<"ws", FALSE>>, <<"invert", TRUE>>>>
NoColon == <<<<"exclude", {Colon}>>>>
CallSites ==
  <<NoWsInvert, <<>>, NoWsInvert,
    NoWsInvert, NoColon, NoWsInvert,
    NoColon, <<<<"ws", FALSE>>, <<"exclude", {Colon}>>>>,
    <<>>, <<<<"ws", FALSE>>>>,
    <<>>>>

\* Faulty variant: the cache key leaves the keyword arguments out.
KeyNoKwargs(kw) == <<"_build_regex_range", <<>>>>

\* "%s:%s:%s" % (func.__name__, hash(str(args)), hash(str(kwargs))): no
\* call passes positional arguments; str and hash are taken as injective.
Key(kw) == <<"_build_regex_range", <<>>, kw>>

Init ==
  /\ cat \in {f \in [Codes -> Categories] : Newline \in Codes => f[Newline] = <<"C", "c">>}
  /\ pending = CallSites
  /\ cache = [k \in {} |-> NoValue]
  /\ call = NoValue
  /\ c = 0 /\ regex = <<>> /\ in_range = FALSE
  /\ last = NoValue /\ last_added = NoValue
  /\ built = <<>>
  /\ probe = <<>>
  /\ stmt = 1
  /\ objs = [a \in {} |-> NoValue]
  /\ names = [n \in {} |-> NoValue]

\* memorizer: the next call of the import returns the cached value, or
\* starts _build_regex_range with empty locals.
Call ==
  /\ call = NoValue /\ pending # <<>>
  /\ LET kw == Head(pending) IN
       IF Key(kw) \in DOMAIN cache
       THEN /\ built' = Append(built, cache[Key(kw)])
            /\ UNCHANGED <<call, c, regex, in_range, last, last_added>>
       ELSE /\ call' = kw
            /\ c' = 0 /\ regex' = <<>> /\ in_range' = FALSE
            /\ last' = NoValue /\ last_added' = NoValue
            /\ UNCHANGED built
  /\ pending' = Tail(pending)
  /\ UNCHANGED <<cat, cache, probe>> /\ UNCHANGED schemaVars

\* One iteration of "for c in _get_all_chars()".
ScanChar ==
  /\ call # NoValue /\ c < CodeSpace
  /\ IF ValidChar(call, c)
     THEN /\ regex' = IF in_range THEN regex ELSE Append(regex, Lit(c))
          /\ last_added' = IF in_range THEN last_added ELSE c
          /\ in_range' = TRUE
     ELSE /\ regex' = IF in_range /\ last # last_added
                      THEN regex \o <<Dash, Lit(last)>> ELSE regex
          /\ in_range' = FALSE
          /\ UNCHANGED last_added
  /\ last' = c
  /\ c' = c + 1
  /\ UNCHANGED <<cat, pending, cache, call, built, probe>> /\ UNCHANGED schemaVars

\* Faulty variant: the loop variable taken as one past the last code point.
LoopVarPastEnd == c

\* c after "for c in _get_all_chars()": the last code point scanned.
LoopVar == c - 1

\* The for-else closes an open range with the last code point scanned,
\* and memorizer stores the value under the call's key and returns it.
ScanEnd ==
  /\ call # NoValue /\ c = CodeSpace
  /\ LET value == IF in_range THEN regex \o <<Dash, Lit(LoopVar)>> ELSE regex
     IN  /\ cache' = cache @@ (Key(call) :> value)
         /\ built' = Append(built, value)
  /\ call' = NoValue
  /\ UNCHANGED <<cat, pending, c, regex, in_range, last, last_added, probe>>
  /\ UNCHANGED schemaVars

\* _reset_cache, called by the unit tests once the module is loaded.
ResetCache ==
  /\ pending = <<>> /\ call = NoValue /\ DOMAIN cache # {}
  /\ cache' = [k \in {} |-> NoValue]
  /\ UNCHANGED <<cat, pending, call, c, regex, in_range, last, last_added, built, probe>>
  /\ UNCHANGED schemaVars

-----------------------------------------------------------------------------
(* The schema dicts of the import *)

\* A JSON-schema dict is a tree of tagged values: a dict literal, a plain
\* value, a reference to a dict object, or a module global read by name.
D(f) == <<"dict", f>>
V(x) == <<"val", x>>
Ref(a) == <<"ref", a>>
Global(n) == <<"name", n>>

\* The one key of the metadata patternProperties.
MetaKey == "^[a-zA-Z0-9-_:. ]{1,255}$"
MaxInt == 2147483647   \* 0x7FFFFFFF, db constants MAX_INT

\* multi_params(schema): {'type': 'array', 'items': schema}
multi_params(schema) == D([type |-> V("array"), items |-> schema])

positive_integer ==
  D([type |-> V({"integer", "string"}), pattern |-> V("^[0-9]*$"),
     minimum |-> V(1), minLength |-> V(1)])
non_negative_integer ==
  D([type |-> V({"integer", "string"}), pattern |-> V("^[0-9]*$"),
     minimum |-> V(0), minLength |-> V(1)])
metadata ==
  D([type |-> V("object"),
     patternProperties |-> D(MetaKey :> D([type |-> V({"string"}), maxLength |-> V(255)])),
     additionalProperties |-> V(FALSE)])
volume_size ==
  D([type |-> V({"integer", "string"}), pattern |-> V("^[0-9]+$"),
     minimum |-> V(1), maximum |-> V(MaxInt)])
pagination_parameters ==
  D([limit |-> multi_params(Global("non_negative_integer")),
     marker |-> multi_params(D([type |-> V("string")]))])

\* The module-level statements that build or change a schema dict, in order.
Stmts ==
  << [kind |-> "assign", name |-> "common_query_param",
      tree |-> multi_params(D([type |-> V("string")]))],
     [kind |-> "assign", name |-> "positive_integer", tree |-> positive_integer],
     [kind |-> "assign", name |-> "non_negative_integer", tree |-> non_negative_integer],
     [kind |-> "assign", name |-> "metadata", tree |-> metadata],
     [kind |-> "deepcopy", name |-> "metadata_with_null", src |-> "metadata"],
     [kind |-> "set", name |-> "metadata_with_null",
      path |-> <<"patternProperties", MetaKey>>, key |-> "type",
      val |-> V({"string", "null"})],
     [kind |-> "assign", name |-> "volume_size", tree |-> volume_size],
     [kind |-> "deepcopy", name |-> "flavor_param_positive", src |-> "volume_size"],
     [kind |-> "deepcopy", name |-> "flavor_param_non_negative", src |-> "volume_size"],
     [kind |-> "set", name |-> "flavor_param_non_negative", path |-> <<>>,
      key |-> "minimum", val |-> V(0)],
     [kind |-> "assign", name |-> "pagination_parameters", tree |-> pagination_parameters] >>

\* A set of <<address, dict>> pairs as a function.
AsObjs(S) == [a \in {p[1] : p \in S} |-> (CHOOSE p \in S : p[1] = a)[2]]

\* Evaluating a dict literal at address a = <<statement, key path>>: each
\* nested literal is a new object, a global is the object it is bound to.
RECURSIVE Alloc(_, _, _)
Alloc(a, t, env) ==
  LET f == t[2]
      Sub(k) == <<a[1], Append(a[2], k)>>
      Value(k) == CASE f[k][1] = "dict" -> Ref(Sub(k))
                    [] f[k][1] = "name" -> env[f[k][2]]
                    [] OTHER -> f[k]
  IN  {<<a, [k \in DOMAIN f |-> Value(k)]>>}
        \cup UNION {Alloc(Sub(k), f[k], env) : k \in {k \in DOMAIN f : f[k][1] = "dict"}}

\* Faulty variant: copy.copy, the nested dicts stay shared.
ShallowCopy(h, r, a) == {<<a, h[r]>>}

\* copy.deepcopy of the object at r to new objects at a and below.
RECURSIVE DeepCopy(_, _, _)
DeepCopy(h, r, a) ==
  LET o == h[r]
      Sub(k) == <<a[1], Append(a[2], k)>>
      refs == {k \in DOMAIN o : o[k][1] = "ref"}
  IN  {<<a, [k \in DOMAIN o |-> IF k \in refs THEN Ref(Sub(k)) ELSE o[k]]>>}
        \cup UNION {DeepCopy(h, o[k][2], Sub(k)) : k \in refs}

\* The object reached from r along a path of keys.
RECURSIVE Lookup(_, _, _)
Lookup(h, r, path) ==
  IF path = <<>> THEN r ELSE Lookup(h, h[r][Head(path)][2], Tail(path))

\* The next statement of the module body, once the regexes are built.
SchemaStmt ==
  /\ pending = <<>> /\ call = NoValue /\ stmt <= Len(Stmts)
  /\ LET s == Stmts[stmt]
         a == <<stmt, <<>>>>
     IN  CASE s.kind = "assign" ->
                /\ objs' = objs @@ AsObjs(Alloc(a, s.tree, names))
                /\ names' = names @@ (s.name :> Ref(a))
           [] s.kind = "deepcopy" ->
                /\ objs' = objs @@ AsObjs(DeepCopy(objs, names[s.src][2], a))
                /\ names' = names @@ (s.name :> Ref(a))
           [] OTHER ->
                /\ objs' = [objs EXCEPT ![Lookup(objs, names[s.name][2], s.path)][s.key] = s.val]
                /\ UNCHANGED names
  /\ stmt' = stmt + 1
  /\ UNCHANGED <<cat, pending, cache, call, c, regex, in_range, last, last_added, built, probe>>

Imported == pending = <<>> /\ call = NoValue /\ stmt > Len(Stmts)

\* A name submitted to the API once the regexes exist.
Validate ==
  /\ Imported
  /\ probe' \in BoundedSeq(Codes, MaxNameLen)
  /\ UNCHANGED <<cat, pending, cache, call, c, regex, in_range, last, last_added, built>>
  /\ UNCHANGED schemaVars

Next == Call \/ ScanChar \/ ScanEnd \/ ResetCache \/ SchemaStmt \/ Validate

Spec == Init /\ [][Next]_vars

-----------------------------------------------------------------------------
(* The regexes of the import *)

\* The code points a character class matches, as re reads it: a literal
\* followed by "-" and a literal is a range, any other literal itself.
RECURSIVE CharClass(_)
CharClass(cls) ==
  IF cls = <<>> THEN {}
  ELSE IF Len(cls) >= 3 /\ cls[2] = Dash
       THEN (cls[1][2]..cls[3][2]) \cup CharClass(SubSeq(cls, 4, Len(cls)))
       ELSE {cls[1][2]} \cup CharClass(Tail(cls))

\* The class of the k-th call of the import.
Class(k) == CharClass(built[k])

AllIn(s, C) == \A i \in 1..Len(s) : s[i] \in C
\* The ways of cutting s into a prefix s[1..i], a middle s[i+1..j] and a
\* suffix s[j+1..].
Splits(s) == {<<i, j>> \in (0..Len(s)) \X (0..Len(s)) : i <= j}
Part(s, i, j) == SubSeq(s, i + 1, j)

\* Faulty variant: the lookarounds built with ws=True, so that they only
\* refuse non-printable first and last characters.
NameRegexBaseWsLookaround(s, t, first, body, final) ==
  /\ AllIn(t, body)
  /\ s # <<>> => s[1] \notin first \cap {x \in Codes : ~IsPrintable(x)}
  /\ t # <<>> => t[Len(t)] \notin final \cap {x \in Codes : ~IsPrintable(x)}

\* valid_name_regex_base '^(?![%s])[%s]*(?<![%s])$' searched in s, with
\* t the part the body matches: the lookahead reads the first character
\* of s, the lookbehind the last one of t.
NameRegexBase(s, t, first, body, final) ==
  /\ AllIn(t, body)
  /\ s # <<>> => s[1] \notin first
  /\ t # <<>> => t[Len(t)] \notin final

\* valid_name_leading_trailing_spaces_regex_base
\* "^[ws]*[no_ws]+[ws]*$|^[ws]*[no_ws][no_ws ws]+[no_ws][ws]*$"
LeadingTrailingBase(s, ws, nows) ==
  \E p \in Splits(s) :
    LET i == p[1]  j == p[2] IN
    /\ AllIn(Part(s, 0, i), ws) /\ AllIn(Part(s, j, Len(s)), ws)
    /\ \/ j > i /\ AllIn(Part(s, i, j), nows)
       \/ /\ j >= i + 3
          /\ s[i + 1] \in nows /\ s[j] \in nows
          /\ AllIn(Part(s, i + 1, j - 1), nows \cup ws)

\* The strings the part of a pattern before its final '$' may match when
\* the pattern is searched in s: '$' matches at the end of s and, in
\* Python's re, also just before a newline that ends s.
Dollar(s) == {s} \cup (IF s # <<>> /\ Last(s) = Newline THEN {Front(s)} ELSE {})

\* The name, az_name and *_with_leading_trailing_spaces schemas:
\* minLength 1, maxLength 255, and the format's regex, applied with
\* re.search.
NameLength(s) == 1 <= Len(s) /\ Len(s) <= 255
ValidName(s) ==
  NameLength(s) /\ \E t \in Dollar(s) : NameRegexBase(s, t, Class(1), Class(2), Class(3))
ValidAzName(s) ==
  NameLength(s) /\ \E t \in Dollar(s) : NameRegexBase(s, t, Class(4), Class(5), Class(6))
ValidAzNameLT(s) ==
  NameLength(s) /\ \E t \in Dollar(s) : LeadingTrailingBase(t, Class(7), Class(8))
ValidNameLT(s) ==
  NameLength(s) /\ \E t \in Dollar(s) : LeadingTrailingBase(t, Class(9), Class(10))
\* description: minLength 0, maxLength 255, 'pattern' '^[%s]*$' (re.search)
ValidDescription(s) == Len(s) <= 255 /\ \E t \in Dollar(s) : AllIn(t, Class(11))

-----------------------------------------------------------------------------
(* Properties *)

Printable == {x \in Codes : IsPrintable(x)}
Space == {x \in Codes : cat[x] = <<"Z", "s">>}

TypeOK ==
  /\ cat \in [Codes -> Categories]
  /\ Len(built) + Len(pending) + (IF call = NoValue THEN 0 ELSE 1) = Len(CallSites)
  /\ c \in 0..CodeSpace
  /\ \A k \in 1..Len(built) :
       \A i \in 1..Len(built[k]) : built[k][i] \in {Lit(x) : x \in 0..CodeSpace-1} \cup {Dash}
  /\ in_range \in BOOLEAN
  /\ probe \in BoundedSeq(Codes, MaxNameLen)
  /\ stmt \in 1..Len(Stmts) + 1

(* Every value the memoized _build_regex_range returned to the import,    *)
(* computed by the scan or taken from _REGEX_RANGE_CACHE, is a class of   *)
(* exactly the scanned code points valid_char accepts for that call's     *)
(* arguments.                                                             *)
RangeCorrect ==
  \A k \in 1..Len(built) :
    Class(k) = {x \in 0..CodeSpace-1 : ValidChar(CallSites[k], x)}

(* Each validation regex accepts exactly the names its ValidationRegex    *)
(* reason describes: "printable characters. Can not start or end with    *)
(* whitespace." (valid_name_regex), the same "except :"                   *)
(* (valid_az_name_regex), "printable characters with at least one non    *)
(* space character" (the leading/trailing spaces regexes), and only      *)
(* printable characters (valid_description_regex).                       *)
NamesMatchReasons ==
  LET s == probe
      Ends(allowed) == NameLength(s) /\ AllIn(s, allowed)
                       /\ s[1] \notin Space /\ s[Len(s)] \notin Space
      Some(allowed) == NameLength(s) /\ AllIn(s, allowed)
                       /\ \E i \in 1..Len(s) : s[i] \notin Space
  IN  Imported =>
        /\ ValidName(s) = Ends(Printable)
        /\ ValidAzName(s) = Ends(Printable \ {Colon})
        /\ ValidNameLT(s) = Some(Printable)
        /\ ValidAzNameLT(s) = Some(Printable \ {Colon})
        /\ ValidDescription(s) = AllIn(s, Printable)

(* The same for every name that does not end in a newline: the classes   *)
(* the memoized builder returned and the structure of the five patterns  *)
(* (lookarounds on the first and last character, the two alternatives of *)
(* the leading/trailing spaces regexes) implement the reasons.  A name    *)
(* ending in '\n' is where '$' lets them differ (run regex_final_newline). *)
NamesMatchReasonsBeforeNewline ==
  probe = <<>> \/ Last(probe) # Newline => NamesMatchReasons

\* The objects reachable from the dict at r.
RECURSIVE Reach(_, _)
Reach(h, r) ==
  {r} \cup UNION {Reach(h, h[r][k][2]) : k \in {k \in DOMAIN h[r] : h[r][k][1] = "ref"}}

\* The value at a key path below the dict bound to global n.
Get(n, path) == LET p == SubSeq(path, 1, Len(path) - 1)
                IN  objs[Lookup(objs, names[n][2], p)][path[Len(path)]]

(* The copies the import makes with copy.deepcopy and then changes stay   *)
(* apart from their originals: metadata_with_null admits null metadata   *)
(* values and metadata still refuses them; flavor_param_non_negative has *)
(* minimum 0 while volume_size and flavor_param_positive keep minimum 1  *)
(* and all three the MAX_INT maximum; no object is shared between a copy *)
(* and its original.  pagination_parameters' limit items are the         *)
(* non_negative_integer schema itself, minimum 0.                         *)
SchemasIsolated ==
  stmt > Len(Stmts) =>
    /\ Get("metadata", <<"patternProperties", MetaKey, "type">>) = V({"string"})
    /\ Get("metadata_with_null", <<"patternProperties", MetaKey, "type">>)
         = V({"string", "null"})
    /\ Reach(objs, names["metadata"][2]) \cap Reach(objs, names["metadata_with_null"][2]) = {}
    /\ \A n \in {"volume_size", "flavor_param_positive", "flavor_param_non_negative"} :
         /\ Get(n, <<"minimum">>) = V(IF n = "flavor_param_non_negative" THEN 0 ELSE 1)
         /\ Get(n, <<"maximum">>) = V(MaxInt)
         /\ n # "volume_size" =>
              Reach(objs, names[n][2]) \cap Reach(objs, names["volume_size"][2]) = {}
    /\ Get("pagination_parameters", <<"limit", "items">>) = names["non_negative_integer"]
    /\ Get("pagination_parameters", <<"limit", "items", "minimum">>) = V(0)

=============================================================================
