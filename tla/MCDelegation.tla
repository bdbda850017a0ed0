---------------------------- MODULE MCDelegation ----------------------------
(***************************************************************************)
(* Values for the constants of Delegation: root, alice and bob, with       *)
(* entries that lead to a service, to the wrong user, back to root, and    *)
(* from alice to herself.                                                  *)
(***************************************************************************)
EXTENDS Delegation, TLC

MCUsers == {"alice", "bob"}
MCLabels == {"", TLD, "app", "App", "Alice", ReservedName, "unix", "127", "0", "1",
             Root} \cup MCUsers
Valid == {TLD, "app", ReservedName, "unix", "127", "0", "1"} \cup MCUsers
MCLower == [l \in MCLabels |-> CASE l = "App"   -> "app"
                                 [] l = "Alice" -> "alice"
                                 [] OTHER       -> l]
Entry(kind, name, to) ==
    [kind |-> kind, name |-> name, to |-> to, by |-> "unix", scheme |-> "http", clean |-> FALSE]

(* The service belongs to alice.                                           *)
Owners == [s \in Services |-> "alice"]

MCOffers ==
    Root :> {Entry("user", "alice", "alice"), Entry("user", "alice", "bob"),
             [Entry("user", "alice", "alice") EXCEPT !.clean = TRUE],
             Entry("socket", "alice", "service"),
             [Entry("relay", "app", Root) EXCEPT !.by = "tcp", !.scheme = "https"]}
    @@ "alice" :> {Entry("user", "alice", "alice"), Entry("user", "bob", "bob"),
                   Entry("relay", "app", "service"),
                   Entry("socket", "app", "bob"), Entry("socket", "App", "service"),
                   [Entry("relay", "app", Root) EXCEPT !.by = "tcp", !.clean = TRUE]}
    @@ "bob" :> {Entry("relay", "app", "service")}

(* alice has HTTP on what is the standard port of HTTPS.                   *)
MCPorts ==
    Root :> [http |-> 80, https |-> 8443]
    @@ "alice" :> [http |-> 443, https |-> 1443]
    @@ "bob" :> [http |-> 2080, https |-> 2443]

MCAsked ==
    {Localhost, <<"Alice", TLD>>, <<"app", "alice", TLD>>, <<"alice", "Alice", TLD>>,
     <<"", TLD>>, <<"app", TLD>>, <<"", "alice", TLD>>}
=============================================================================
