------------------------------ MODULE JsonValue ------------------------------
(***************************************************************************)
(* JSON values as the parsers of this program see them through simdjson: a *)
(* kind, and a value if it matters.  An object is a function from the      *)
(* names of its fields.                                                    *)
(***************************************************************************)

Absent    == <<"absent">>
Damaged   == <<"damaged">>      \* looking for the field is a syntax error
Other     == <<"other">>        \* null, a fraction ...: a kind nobody asks for
Int64(n)  == <<"int", n>>
Bool(b)   == <<"bool", b>>
Str(s)    == <<"string", s>>
Arr(s)    == <<"array", s>>
Object(f) == <<"object", f>>

Kind(v) == v[1]
Val(v)  == v[2]

\* obj[key]
Field(obj, key) == IF key \in DOMAIN obj THEN obj[key] ELSE Absent
=============================================================================
