---------------------------- MODULE MCSetupSteps ----------------------------
EXTENDS SetupSteps
\* A document that cannot be decoded, with one behind it and a file behind
\* that; two documents in one file.
MCManifests == {
  <<<<"document", "malformed", "document">>, <<"document">>>>,
  <<<<"document", "document">>>>}
=============================================================================
