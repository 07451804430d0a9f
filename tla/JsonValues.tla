------------------------------ MODULE JsonValues ------------------------------
(* What the modules of the Python host's wire protocol share.               *)

CONSTANTS
    None,     \* Rust's Option::None; JSON's null or missing field
    Bad,      \* JSON of a type or shape the host cannot parse
    Refused,  \* a conversion returned a HostError
    Rejected  \* an identity plugin rejected the credential

ASSUME MarkersAssumption ==
    None \notin {Bad, Refused, Rejected} /\ Bad \notin {Refused, Rejected} /\ Refused # Rejected
=============================================================================
