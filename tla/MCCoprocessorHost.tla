------------------------- MODULE MCCoprocessorHost --------------------------
(***************************************************************************)
(* A short chain with plaintexts that forks after its first event, and an  *)
(* operator who starts from a sound local configuration, from a Nitro      *)
(* configuration whose Enclave is not the one MPC approved at first, or    *)
(* from one that never starts: without an attempt, or with a label of      *)
(* white space.  The MPC endpoint serves a new key for each Enclave, a     *)
(* configuration of another domain, and one that does not parse.           *)
(***************************************************************************)
EXTENDS CoprocessorHost

CONSTANTS a, p, d,                    \* Handle Keys
          D1, D2,                     \* Domain Ids
          r1, r2, s2, s3,             \* references: r of the one branch, s of the other
          v,                          \* a public value
          key1, key2, key3, key4, key5,
          m0, m1, m2,                 \* measurements
          Mpc, Enclave                \* two dependencies

MCHandleKey     == {a, p, d}
\* One chain and one contract: Handle Ids are Handle Keys.
MCHandleIdOf(k) == k
MCChainEventRef == {r1, r2, s2, s3}
MCKeyId         == {key1, key2, key3, key4, key5}

Plaintext(k, r) ==
  [kind |-> "PlaintextHandle", domain_id |-> D1, handle_key |-> k,
   handle_type |-> "Suint256", public_value |-> v, event_ref |-> r]
Derive(k, ins, r) ==
  [kind |-> "DerivedHandleOperation", domain_id |-> D1, handle_key |-> k,
   operation_code |-> "Add", output_handle_type |-> "Suint256",
   input_handle_keys |-> ins, event_ref |-> r]

First == Plaintext(a, r1)
Main  == {First, Derive(d, <<a, a>>, r2)}
Side  == {First, Plaintext(p, s2), Derive(d, <<a, p>>, s3)}

MCChainEvents == Main \cup Side
MCBranch      == {Main, Side}

PositionOf == [x \in {r1} |-> 1] @@ [x \in {r2, s2} |-> 2] @@ [x \in {s3} |-> 3]
MCLogPosition == [e \in MCChainEvents |-> PositionOf[e.event_ref]]

PublicConfig(domain, key, measurement) ==
  [chain_id |-> 1, domain_id |-> domain, key_id |-> key,
   reader_key_algorithm |-> "X25519",
   ciphertext_suite |-> "HpkeX25519HkdfSha256Aes256Gcm",
   approved_enclave_measurement |-> measurement]

\* The scaffold both constructors start from.
Config(max_attempts, mode, measurement) ==
  [deployment_label |-> "label", max_attempts |-> max_attempts,
   public_config |-> PublicConfig(D1, key1, m1),
   expectations |-> [chain_id |-> 1, domain_id |-> D1, reader_key_algorithm |-> "X25519",
                     ciphertext_suite |-> "HpkeX25519HkdfSha256Aes256Gcm"],
   enclave_attestation |-> [mode |-> mode, enclave_measurement |-> measurement,
                            expected_public_key_len |-> 48]]

MCBlankLabel   == {"", " "}
MCFirstConfigs ==
  {Config(3, "Local", m1), Config(3, "Nitro", m2), Config(0, "Local", m1),
   [Config(3, "Local", m1) EXCEPT !.deployment_label = " "]}

MCDocuments == {PublicConfig(D1, key2, m1), PublicConfig(D1, key4, m2),
                PublicConfig(D2, key3, m1),
                [chain_id |-> 1, domain_id |-> D1]}
=============================================================================
