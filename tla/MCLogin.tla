------------------------------ MODULE MCLogin ------------------------------
(* Constants of Login for TLC. *)
EXTENDS Login, TLC

CONSTANTS c1, a1, a2, base, role

Section(sso, source) == [sso_start_url |-> "", sso_session |-> sso, source_profile |-> source]
RoleSourcesBase == (base :> Section(base, "")) @@ (role :> Section("", base))
=============================================================================
