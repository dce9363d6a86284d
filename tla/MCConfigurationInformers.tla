---------------------- MODULE MCConfigurationInformers ----------------------
(* A small instance of ConfigurationInformers for TLC.                     *)
EXTENDS ConfigurationInformers

CONSTANTS u1, u2, c1
=============================================================================
