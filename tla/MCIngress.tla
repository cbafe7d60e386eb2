------------------------------- MODULE MCIngress -------------------------------
(***************************************************************************)
(* Bytes of two low bits, VarInts of up to two bytes.  Letters: a and A,   *)
(* b and B, and one that stands for an address literal.                    *)
(***************************************************************************)
EXTENDS Ingress, TLC

CONSTANTS i1, i2

MCLowerOf == [b \in 0..7 |-> CASE b = 7 -> 3 [] b = 6 -> 5 [] OTHER -> b]
MCLiteralOf == (<<4>> :> i1)

Server(ip, hostnames) == [ip |-> ip, hostnames |-> hostnames]

\* Two addresses; one address and one name of two servers; names that Validate
\* refuses and two that it does not; a server without an address, and no other.
MCConfig == {
    <<Server(i1, {<<7>>}), Server(i2, {<<3, 3, 3, 3>>})>>,
    <<Server(i1, {<<3>>}), Server(i2, {<<5, 2>>, <<5, 0, 3>>, <<3>>}), Server(i1, {})>>,
    <<Server(i1, {}), Server(i2, {<<1>>})>>,
    <<Server(i1, {}), Server(i2, {<<2>>})>>,
    <<Server(i1, {}), Server(i2, {<<0, 3>>})>>,
    <<Server(i1, {}), Server(None, {<<3>>})>>,
    <<Server(None, {<<3>>})>> }

\* a in several spellings; none; the literal; unknown ones; a long one.
MCHost == {<<>>, <<3>>, <<1, 7, 2>>, <<3, 0, 5>>, <<4>>, <<5>>, <<2>>, <<7, 3, 7, 3>>}

MCDamaged == {<<>>, <<7, 3, 7, 3>>}

MCRest == {<<1, 3>>}

=================================================================================
