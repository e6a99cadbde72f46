--------------------------- MODULE MCSocks5Server ---------------------------
(* Socks5Server with a buffer of 24 bytes instead of 128. *)
EXTENDS Socks5Server

Fill(b, n) == [i \in 1 .. n |-> b]

MCHellos == {<<5, 1, 0>>, <<5, 3, 2, 1, 0>>,       \* good
             <<5, 1, 2>>, <<4, 1, 0>>, <<5, 1, 0, 0>>, \* refused
             <<5, 30>> \o Fill(0, 30)}             \* does not fit

Target(type, n) == [type |-> type, host |-> Fill(7, n), port |-> <<0, 80>>]

\* Addresses, a domain shorter than an IPv4 address, longer, and too long.
MCTargets == {Target(1, 4), Target(4, 16),
              Target(3, 1), Target(3, 6), Target(3, 18)}

MCMalformed == {<<5, 2, 0, 1>> \o Fill(7, 6),      \* not CONNECT
                <<5, 1, 0, 9>> \o Fill(7, 6),      \* no such address type
                Encode(Target(1, 4)) \o <<7>>}     \* a byte too many
=============================================================================
