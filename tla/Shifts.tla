------------------------------- MODULE Shifts -------------------------------
\* The shift that the backoffs of transactions and of registrations are made of.
EXTENDS Integers

\* 1 << n
Shifted[n \in Nat] == IF n = 0 THEN 1 ELSE 2 * Shifted[n - 1]
=============================================================================
