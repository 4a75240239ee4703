------------------------------ MODULE DbTables ------------------------------
(***************************************************************************)
(* The seven tables of the enforcer's database as the row objects of       *)
(* enforcer/src/db describe them.  Every table has its own hand-written    *)
(* file of the same shape, and each file lists the same columns several    *)
(* times by position: X_new_object names the columns a SELECT returns,     *)
(* X_from_result assigns the values of a result to the members of the C    *)
(* structure, X_create and X_update list the columns again and the members *)
(* they are written from.  A column in the wrong place of one of these     *)
(* lists compiles, and shows up as another column's value.  dbw.c copies   *)
(* the members once more, to and from the structures the enforcer works    *)
(* with.                                                                   *)
(*                                                                         *)
(* A list is a sequence of records: the name of the column or member, and  *)
(* its type, for an enumeration with the values of its enum_set.  Only the *)
(* order, the names and the types matter, so X_create and X_update, whose  *)
(* lists the source repeats unchanged, refer to the lists they repeat.     *)
(* DbRows gives the lists their meaning.                                   *)
(***************************************************************************)
EXTENDS Integers, Sequences

TEXT == [kind |-> "TEXT", values |-> {}]

UINT32 == [kind |-> "UINT32", values |-> {}]

INT32 == [kind |-> "INT32", values |-> {}]

ANY == [kind |-> "ANY", values |-> {}]

ENUM(set) == [kind |-> "ENUM", values |-> set]

(* Every list starts with the primary key and the revision; the data       *)
(* columns are DB_TYPE_UINT32 unless special says otherwise.               *)
Columns(names, special) ==
  <<[name |-> "id", type |-> [kind |-> "PRIMARY_KEY", values |-> {}]],
    [name |-> "rev", type |-> [kind |-> "REVISION", values |-> {}]]>>
  \o [i \in DOMAIN names |->
        [name |-> names[i],
         type |-> IF names[i] \in DOMAIN special THEN special[names[i]] ELSE UINT32]]

(* The columns X_create and X_update write: all but id and rev.            *)
Data(columns) == SubSeq(columns, 3, Len(columns))

(* The template of the seven files (gen.pl): what X_create and X_update    *)
(* write, from which members, and which row X_update, X_delete and         *)
(* X_get_by_id are about.                                                  *)
create(columns, members) == [fields |-> columns, values |-> members]

update(columns, members) ==
  [fields |-> columns, values |-> members, clauses |-> {"id", "rev"}]

delete == {"id", "rev"}

get_by_id == {"id"}

Names(columns) == {columns[i].name : i \in DOMAIN columns}

(* policy_key.c and key_dependency.c have no update, and dbw.c asserts that *)
(* none is asked for.                                                      *)
NotImplemented == [fields |-> <<>>, values |-> <<>>, clauses |-> {}]

(* policy.c: the policy table. *)
policy_signatures_columns ==
  <<"name", "description", "signaturesResign", "signaturesRefresh",
    "signaturesJitter", "signaturesInceptionOffset",
    "signaturesValidityDefault", "signaturesValidityDenial",
    "signaturesValidityKeyset", "signaturesMaxZoneTtl">>

policy_denial_columns ==
  <<"denialType", "denialOptout", "denialTtl", "denialResalt",
    "denialAlgorithm", "denialIterations", "denialSaltLength", "denialSalt",
    "denialSaltLastChange">>

policy_keys_columns ==
  <<"keysTtl", "keysRetireSafety", "keysPublishSafety", "keysShared",
    "keysPurgeAfter">>

policy_zone_columns ==
  <<"zonePropagationDelay", "zoneSoaTtl", "zoneSoaMinimum", "zoneSoaSerial",
    "parentRegistrationDelay", "parentPropagationDelay", "parentDsTtl",
    "parentSoaTtl", "parentSoaMinimum", "passthrough">>

policy_new_object ==
  Columns(policy_signatures_columns \o policy_denial_columns
            \o policy_keys_columns \o policy_zone_columns,
          [name |-> TEXT, description |-> TEXT, denialSalt |-> TEXT,
           denialType |-> ENUM(0..1), zoneSoaSerial |-> ENUM(0..3)])

policy_from_result ==
  Columns(<<"name", "description", "signatures_resign", "signatures_refresh",
            "signatures_jitter", "signatures_inception_offset",
            "signatures_validity_default", "signatures_validity_denial",
            "signatures_validity_keyset", "signatures_max_zone_ttl",
            "denial_type", "denial_optout", "denial_ttl", "denial_resalt",
            "denial_algorithm", "denial_iterations", "denial_salt_length",
            "denial_salt", "denial_salt_last_change", "keys_ttl",
            "keys_retire_safety", "keys_publish_safety", "keys_shared",
            "keys_purge_after", "zone_propagation_delay", "zone_soa_ttl",
            "zone_soa_minimum", "zone_soa_serial",
            "parent_registration_delay", "parent_propagation_delay",
            "parent_ds_ttl", "parent_soa_ttl", "parent_soa_minimum",
            "passthrough">>,
          [name |-> TEXT, description |-> TEXT, denial_salt |-> TEXT,
           denial_type |-> ENUM(0..1), zone_soa_serial |-> ENUM(0..3)])

policy_get_by_id == get_by_id

policy_create_signatures == SubSeq(Data(policy_new_object), 1, 10)

policy_create_denial == SubSeq(Data(policy_new_object), 11, 19)

policy_create_zone == SubSeq(Data(policy_new_object), 20, 34)

policy_create_fields ==
  policy_create_signatures \o policy_create_denial \o policy_create_zone

policy_create_values == Data(policy_from_result)

policy_create == create(policy_create_fields, policy_create_values)

policy_update_signatures == SubSeq(Data(policy_new_object), 1, 10)

policy_update_denial == SubSeq(Data(policy_new_object), 11, 19)

policy_update_zone == SubSeq(Data(policy_new_object), 20, 34)

policy_update_fields ==
  policy_update_signatures \o policy_update_denial \o policy_update_zone

policy_update_values == Data(policy_from_result)

policy_update == update(policy_update_fields, policy_update_values)

policy_delete == delete

dbw_policy_update == Names(Data(policy_from_result))

policy_dbx_to_dbw == Names(policy_from_result)

(* policy_key.c: the policyKey table. *)
policy_key_new_object ==
  Columns(<<"policyId", "role", "algorithm", "bits", "lifetime", "repository",
            "standby", "manualRollover", "rfc5011", "minimize">>,
          [repository |-> TEXT, policyId |-> ANY, role |-> ENUM(1..3)])

policy_key_from_result ==
  Columns(<<"policy_id", "role", "algorithm", "bits", "lifetime",
            "repository", "standby", "manual_rollover", "rfc5011", "minimize">>,
          [repository |-> TEXT, policy_id |-> ANY, role |-> ENUM(1..3)])

policy_key_get_by_id == get_by_id

policy_key_create_fields == Data(policy_key_new_object)

policy_key_create_values == Data(policy_key_from_result)

policy_key_create == create(policy_key_create_fields, policy_key_create_values)

policy_key_delete == delete

dbw_policykey_update == Names(Data(policy_key_from_result))

policykey_dbx_to_dbw == Names(policy_key_from_result)

(* zone_db.c: the zone table. *)
zone_db_enforcer_columns ==
  <<"policyId", "name", "signconfNeedsWriting", "signconfPath", "nextChange",
    "ttlEndDs", "ttlEndDk", "ttlEndRs", "rollKskNow", "rollZskNow",
    "rollCskNow">>

zone_db_adapter_columns ==
  <<"inputAdapterType", "inputAdapterUri", "outputAdapterType",
    "outputAdapterUri", "nextKskRoll", "nextZskRoll", "nextCskRoll">>

zone_db_new_object ==
  Columns(zone_db_enforcer_columns \o zone_db_adapter_columns,
          [name |-> TEXT, signconfPath |-> TEXT, inputAdapterType |-> TEXT,
           inputAdapterUri |-> TEXT, outputAdapterType |-> TEXT,
           outputAdapterUri |-> TEXT, nextChange |-> INT32, policyId |-> ANY])

zone_db_from_result ==
  Columns(<<"policy_id", "name", "signconf_needs_writing", "signconf_path",
            "next_change", "ttl_end_ds", "ttl_end_dk", "ttl_end_rs",
            "roll_ksk_now", "roll_zsk_now", "roll_csk_now",
            "input_adapter_type", "input_adapter_uri", "output_adapter_type",
            "output_adapter_uri", "next_ksk_roll", "next_zsk_roll",
            "next_csk_roll">>,
          [name |-> TEXT, signconf_path |-> TEXT, input_adapter_type |-> TEXT,
           input_adapter_uri |-> TEXT, output_adapter_type |-> TEXT,
           output_adapter_uri |-> TEXT, next_change |-> INT32,
           policy_id |-> ANY])

zone_db_get_by_id == get_by_id

zone_db_create_enforcer == SubSeq(Data(zone_db_new_object), 1, 11)

zone_db_create_adapters == SubSeq(Data(zone_db_new_object), 12, 18)

zone_db_create_fields == zone_db_create_enforcer \o zone_db_create_adapters

zone_db_create_values == Data(zone_db_from_result)

zone_db_create == create(zone_db_create_fields, zone_db_create_values)

zone_db_update_enforcer == SubSeq(Data(zone_db_new_object), 1, 11)

zone_db_update_adapters == SubSeq(Data(zone_db_new_object), 12, 18)

zone_db_update_fields == zone_db_update_enforcer \o zone_db_update_adapters

\* Mutant: the values are bound one column off.
zone_db_update_shifted ==
  LET d == Data(zone_db_from_result) IN Append(Tail(d), d[1])

zone_db_update_values == Data(zone_db_from_result)

zone_db_update == update(zone_db_update_fields, zone_db_update_values)

zone_db_delete == delete

dbw_zone_update == Names(Data(zone_db_from_result))

zone_dbx_to_dbw == Names(zone_db_from_result)

(* hsm_key.c: the hsmKey table. *)
hsm_key_new_object ==
  Columns(<<"policyId", "locator", "state", "bits", "algorithm", "role",
            "inception", "isRevoked", "keyType", "repository", "backup">>,
          [locator |-> TEXT, repository |-> TEXT, policyId |-> ANY,
           state |-> ENUM(1..4), role |-> ENUM(1..3), keyType |-> ENUM(1..1),
           backup |-> ENUM(0..3)])

hsm_key_from_result ==
  Columns(<<"policy_id", "locator", "state", "bits", "algorithm", "role",
            "inception", "is_revoked", "key_type", "repository", "backup">>,
          [locator |-> TEXT, repository |-> TEXT, policy_id |-> ANY,
           state |-> ENUM(1..4), role |-> ENUM(1..3), key_type |-> ENUM(1..1),
           backup |-> ENUM(0..3)])

hsm_key_get_by_id == get_by_id

hsm_key_create_fields == Data(hsm_key_new_object)

hsm_key_create_values == Data(hsm_key_from_result)

hsm_key_create == create(hsm_key_create_fields, hsm_key_create_values)

hsm_key_update_fields == Data(hsm_key_new_object)

hsm_key_update_values == Data(hsm_key_from_result)

hsm_key_update == update(hsm_key_update_fields, hsm_key_update_values)

hsm_key_delete == delete

dbw_hsmkey_update == Names(Data(hsm_key_from_result))

hsmkey_dbx_to_dbw == Names(hsm_key_from_result)

(* key_data.c: the keyData table. *)
key_data_key_columns ==
  <<"zoneId", "hsmKeyId", "algorithm", "inception", "role", "introducing",
    "shouldRevoke", "standby">>

key_data_use_columns ==
  <<"activeZsk", "publish", "activeKsk", "dsAtParent", "keytag", "minimize">>

key_data_new_object ==
  Columns(key_data_key_columns \o key_data_use_columns,
          [zoneId |-> ANY, hsmKeyId |-> ANY, role |-> ENUM(1..3),
           dsAtParent |-> ENUM(0..6)])

key_data_from_result ==
  Columns(<<"zone_id", "hsm_key_id", "algorithm", "inception", "role",
            "introducing", "should_revoke", "standby", "active_zsk",
            "publish", "active_ksk", "ds_at_parent", "keytag", "minimize">>,
          [zone_id |-> ANY, hsm_key_id |-> ANY, role |-> ENUM(1..3),
           ds_at_parent |-> ENUM(0..6)])

key_data_get_by_id == get_by_id

key_data_create_key == SubSeq(Data(key_data_new_object), 1, 8)

key_data_create_use == SubSeq(Data(key_data_new_object), 9, 14)

key_data_create_fields == key_data_create_key \o key_data_create_use

key_data_create_values == Data(key_data_from_result)

key_data_create == create(key_data_create_fields, key_data_create_values)

key_data_update_key == SubSeq(Data(key_data_new_object), 1, 8)

key_data_update_use == SubSeq(Data(key_data_new_object), 9, 14)

key_data_update_fields == key_data_update_key \o key_data_update_use

key_data_update_values == Data(key_data_from_result)

key_data_update == update(key_data_update_fields, key_data_update_values)

key_data_delete == delete

dbw_key_update == Names(Data(key_data_from_result))

key_dbx_to_dbw == Names(key_data_from_result)

(* key_state.c: the keyState table. *)
key_state_new_object ==
  Columns(<<"keyDataId", "type", "state", "lastChange", "minimize", "ttl">>,
          [keyDataId |-> ANY, type |-> ENUM(0..3), state |-> ENUM(0..4)])

key_state_from_result ==
  Columns(<<"key_data_id", "type", "state", "last_change", "minimize", "ttl">>,
          [key_data_id |-> ANY, type |-> ENUM(0..3), state |-> ENUM(0..4)])

key_state_get_by_id == get_by_id

key_state_create_fields == Data(key_state_new_object)

key_state_create_values == Data(key_state_from_result)

key_state_create == create(key_state_create_fields, key_state_create_values)

key_state_update_fields == Data(key_state_new_object)

key_state_update_values == Data(key_state_from_result)

key_state_update == update(key_state_update_fields, key_state_update_values)

key_state_delete == delete

dbw_keystate_update == Names(Data(key_state_from_result))

keystate_dbx_to_dbw == Names(key_state_from_result)

(* key_dependency.c: the keyDependency table. *)
key_dependency_new_object ==
  Columns(<<"zoneId", "fromKeyDataId", "toKeyDataId", "type">>,
          [zoneId |-> ANY, fromKeyDataId |-> ANY, toKeyDataId |-> ANY,
           type |-> ENUM(0..3)])

key_dependency_from_result ==
  Columns(<<"zone_id", "from_key_data_id", "to_key_data_id", "type">>,
          [zone_id |-> ANY, from_key_data_id |-> ANY, to_key_data_id |-> ANY,
           type |-> ENUM(0..3)])

key_dependency_get_by_id == get_by_id

key_dependency_create_fields == Data(key_dependency_new_object)

key_dependency_create_values == Data(key_dependency_from_result)

key_dependency_create == create(key_dependency_create_fields, key_dependency_create_values)

key_dependency_delete == delete

dbw_keydependency_update == Names(Data(key_dependency_from_result))

keydependency_dbx_to_dbw == Names(key_dependency_from_result)

=============================================================================
