--------------------------- MODULE MCAuthorization ---------------------------
(* An instance of Authorization for TLC: a target that opens, tightens, hides  *)
(* and fences its ability, another that may be unreachable, and grants that    *)
(* are enough, too narrow, or stale.                                           *)
EXTENDS Authorization, TLC

CONSTANTS s1, s2, u1, read, write, get, put, files, mail

D(access, exposure, brokers, declared) ==
  [access |-> access, exposure |-> exposure, brokers |-> brokers,
   declared |-> declared, scopes |-> declared,
   needs |-> (get :> {read} @@ put :> (IF write \in declared THEN {read, write} ELSE {read}))]

MCDefinitions ==
  (files :> {D("plane", "published", {}, {read, write}),
             D("service", "published", {}, {read, write}),
             D("plane", "published", {Plane}, {read, write}),
             D("plane", "private", {s2}, {read})})
  @@ (mail :> {D("plane", "published", {}, {read})})

G(caller, target, scopes) == [caller |-> caller, target |-> target, scopes |-> scopes]

MCGrantTables ==
  {{G(s1, files, {read, write}), G(Plane, files, {read}), G(s1, mail, {read})},
   {G(s1, files, {read}), G(Plane, files, {read, write}), G(Plane, mail, {write})}}
=============================================================================
