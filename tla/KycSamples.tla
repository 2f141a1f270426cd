------------------------------ MODULE KycSamples ------------------------------
(***************************************************************************)
(* What customers declare and what Didit answers, for small instances of   *)
(* Kyc: one supported country, an answer nothing is wrong with, and one    *)
(* with an AML hit and a proof of address from another country.            *)
(***************************************************************************)
EXTENDS Naturals

Supported == {"DE"}

Home == [residence |-> "DE", tax |-> "DE"]

Abroad == [residence |-> "DE", tax |-> "US"]

HomeOnly == {Home}

HomeOrAbroad == {Home, Abroad}

Passed == [ok |-> TRUE, risks |-> {}]

Clean ==
  [id |-> {[ok |-> TRUE, risks |-> {}, dateOfBirth |-> 1]}, liveness |-> {Passed},
   face |-> {Passed}, aml |-> {[ok |-> TRUE, risks |-> {}, hits |-> FALSE]},
   poa |-> {[ok |-> TRUE, risks |-> {}, issued |-> 2, country |-> "DE"]}]

Screened ==
  [Clean EXCEPT !.aml = {[ok |-> FALSE, risks |-> {"PEP"}, hits |-> TRUE]},
                !.poa = {[ok |-> TRUE, risks |-> {}, issued |-> 2, country |-> "FR"]}]

CleanOnly == {Clean}

CleanOrScreened == {Clean, Screened}
=============================================================================
