----------------------- MODULE MCPrivateConversation -----------------------
(* PrivateConversation with a host, a co-host and a member, or fewer. *)
EXTENDS PrivateConversation, TLC

CONSTANTS h, c, m, n

Roles2 == h :> "host" @@ m :> "member"
Roles3 == h :> "host" @@ c :> "co-host" @@ m :> "member"
Roles4 == h :> "host" @@ c :> "co-host" @@ m :> "member" @@ n :> "member"
Symmetry == Permutations({m, n})

=============================================================================
