------------------------------ MODULE MC_Users ------------------------------
(***************************************************************************)
(* Instances of Users for TLC: one site, and an account beside that of the *)
(* administrator, which is registered as a manager or by a person or a     *)
(* business that chose the password.  Updates make it a supplier with a    *)
(* name and a password of its own.                                         *)
(***************************************************************************)
EXTENDS Users, TLC

MC_Form(endpoint, role, home, docs, password) ==
    [endpoint |-> endpoint, role |-> role, home |-> home, account |-> "none",
     docs |-> docs, password |-> password]

MC_Forms ==
    {MC_Form("sitemanager", "SITE_MANAGER", "s1", {}, "none"),
     MC_Form("client/personal", "CLIENT", "s1", {"nationalId"}, "own"),
     MC_Form("client/business", "CLIENT", "s1", Docs, "own")}

MC_Keep == [role |-> Keep, account |-> Keep, named |-> Keep, active |-> Keep, password |-> Keep]

MC_Change    == [MC_Keep EXCEPT !.named = TRUE, !.role = "SUPPLIER", !.password = "own"]
MC_Changes   == {MC_Change}

Slots == Permutations(Requests)

=============================================================================
