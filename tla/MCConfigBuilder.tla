-------------------------- MODULE MCConfigBuilder --------------------------
(***************************************************************************)
(* Values for the constants of ConfigBuilder.                              *)
(***************************************************************************)
EXTENDS ConfigBuilder

CONSTANTS exponential, transient

\* Fixed(d), told apart by d alone.
MCFixedWait(d) == <<"Fixed", d>>

\* Below the range, at either end, inside it, above it, and not a number.
MCRates == {-1, 0, 1, 2, 3, NaN}

=============================================================================
