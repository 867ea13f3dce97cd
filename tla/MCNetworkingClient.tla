------------------------- MODULE MCNetworkingClient -------------------------
(***************************************************************************)
(* Model-checking instance of NetworkingClient: one user with two          *)
(* passwords, salts of two letters, and memory that holds something else   *)
(* before it is written.                                                   *)
(***************************************************************************)
EXTENDS NetworkingClient

CONSTANTS u1,           \* the user
          a, b,         \* letters
          p, q,         \* characters of passwords
          junk, addr    \* bytes of memory that are not letters

MCPasswords == { <<p>>, <<q>> }
MCJunk      == { <<junk>> }
\* No field, or one of those that the client uses.
MCDamage    == { {}, {"length"}, {"status"}, {"text"} }
MCPointers  == { <<addr, addr>> }

=============================================================================
