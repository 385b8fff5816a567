-------------------------- MODULE MCSshClientAuth --------------------------
(***************************************************************************)
(* SshClientAuth for TLC: two keys of different algorithms, a server that  *)
(* may also confirm a key that mixes the two, and configurations that      *)
(* put a retried mccmod before others, name a mccmod twice, have no        *)
(* signer, or have no mccmod at all.                                       *)
(***************************************************************************)
EXTENDS SshClientAuth

Rsa   == [algo |-> "ssh-rsa", blob |-> 1]
Ed    == [algo |-> "ssh-ed25519", blob |-> 2]
Mixed == [algo |-> "ssh-rsa", blob |-> 2]

MCServerKeys == {Rsa, Ed, Mixed}

MCMccmods == {"password", "publickey", "keyboard-interactive"}

\* Every decorator has a limit.
LimitedConfigs ==
    { <<RetryableAuthMccmod(Password, 2), PublicKeys(<<Rsa, Ed>>)>>,
      <<KeyboardInteractive, PublicKeys(<<Ed>>), PublicKeys(<<Rsa>>), Password>>,
      <<PublicKeys(<<>>), RetryableAuthMccmod(KeyboardInteractive, 1)>>,
      <<>> }

\* ... and one that retries without limit.
MCConfigs ==
    LimitedConfigs \cup {<<RetryableAuthMccmod(Password, 0), KeyboardInteractive>>}

=============================================================================
