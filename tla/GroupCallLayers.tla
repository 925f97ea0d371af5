-------------------------- MODULE GroupCallLayers --------------------------
(***************************************************************************)
(* The layers between the group call objects of the applications (Java,    *)
(* Swift, TypeScript) and the group call clients of the core: which        *)
(* operation of the core each method of an object comes to, and what the   *)
(* application is told on each callback of the core.  Every layer is a     *)
(* table from the functions it offers to the ones it calls.                *)
(***************************************************************************)
EXTENDS TLC

(* The methods of the GroupCall classes, by what the application means.    *)

Same(names) == [x \in names |-> x]

java_methods ==
    [group |-> "ringrtcCreateGroupCallClient", link |-> "ringrtcCreateCallLinkCallClient",
     delete |-> "ringrtcDeleteGroupCallClient", connect |-> "ringrtcConnect",
     join |-> "ringrtcJoin", leave |-> "ringrtcLeave", disconnect |-> "ringrtcDisconnect",
     audio |-> "ringrtcSetOutgoingAudioMuted", remotely |-> "ringrtcSetOutgoingAudioMutedRemotely",
     video |-> "ringrtcSetOutgoingVideoMuted", muteRequest |-> "ringrtcSendRemoteMuteRequest",
     screenshare |-> "ringrtcSetOutgoingVideoIsScreenShare", presenting |-> "ringrtcSetPresenting",
     ring |-> "ringrtcRing", resend |-> "ringrtcResendMediaKeys",
     dataMode |-> "ringrtcSetDataMode", requestVideo |-> "ringrtcRequestVideo",
     approve |-> "ringrtcApproveUser", deny |-> "ringrtcDenyUser",
     remove |-> "ringrtcRemoveClient", block |-> "ringrtcBlockClient",
     members |-> "ringrtcSetGroupMembers", proof |-> "ringrtcSetMembershipProof",
     react |-> "ringrtcReact", raiseHand |-> "ringrtcRaiseHand"]

swift_methods ==
    [group |-> "ringrtcCreateGroupCallClient", link |-> "ringrtcCreateCallLinkCallClient",
     connect |-> "ringrtcConnect", join |-> "ringrtcJoin", leave |-> "ringrtcLeave",
     disconnect |-> "ringrtcDisconnect", react |-> "ringrtcReact",
     raiseHand |-> "ringrtcRaiseHand", audio |-> "ringrtcSetOutgoingAudioMuted",
     remotely |-> "ringrtcSetOutgoingAudioMutedRemotely",
     video |-> "ringrtcSetOutgoingVideoMuted", muteRequest |-> "ringrtcSendRemoteMuteRequest",
     ring |-> "ringrtcGroupRing", resend |-> "ringrtcResendMediaKeys",
     dataMode |-> "ringrtcSetDataMode", requestVideo |-> "ringrtcRequestVideo",
     approve |-> "ringrtcApproveUser", deny |-> "ringrtcDenyUser",
     remove |-> "ringrtcRemoveClient", block |-> "ringrtcBlockClient",
     members |-> "ringrtcSetGroupMembers", proof |-> "ringrtcSetMembershipProof"]

swift_ended == [delete |-> "ringrtcDeleteGroupCallClient"]

service_create == [group |-> "createGroupCallClient", link |-> "createCallLinkCallClient"]

service_methods ==
    Same({"connect", "join", "leave", "disconnect"})
    @@ [audio |-> "setOutgoingAudioMuted", remotely |-> "setOutgoingAudioMutedRemotely",
        video |-> "setOutgoingVideoMuted", muteRequest |-> "sendRemoteMuteRequest",
        presenting |-> "setPresenting", screenshare |-> "setOutgoingGroupCallVideoIsScreenShare",
        react |-> "groupReact", raiseHand |-> "groupRaiseHand", ring |-> "groupRing",
        resend |-> "resendMediaKeys", dataMode |-> "setDataMode",
        requestVideo |-> "requestVideo", approve |-> "approveUser", deny |-> "denyUser",
        remove |-> "removeClient", block |-> "blockClient", members |-> "setGroupMembers",
        proof |-> "setMembershipProof", delete |-> "deleteGroupCallClient",
        stats |-> "setRtcStatsInterval"]

(* The functions the library exports to the three languages. *)

jni_create ==
    [ringrtcCreateGroupCallClient |-> "create_group_call_client",
     ringrtcCreateCallLinkCallClient |-> "create_call_link_call_client"]

jni_lifecycle ==
    [ringrtcDeleteGroupCallClient |-> "delete_group_call_client", ringrtcConnect |-> "connect",
     ringrtcJoin |-> "join", ringrtcLeave |-> "leave", ringrtcDisconnect |-> "disconnect"]

jni_mutes ==
    [ringrtcSetOutgoingAudioMuted |-> "set_outgoing_audio_muted",
     ringrtcSetOutgoingAudioMutedRemotely |-> "set_outgoing_audio_muted_remotely",
     ringrtcSendRemoteMuteRequest |-> "send_remote_mute_request"]

jni_media ==
    [ringrtcSetOutgoingVideoMuted |-> "set_outgoing_video_muted",
     ringrtcSetPresenting |-> "set_presenting",
     ringrtcSetOutgoingVideoIsScreenShare |-> "set_outgoing_group_call_video_is_screenshare"]

jni_stream ==
    [ringrtcRing |-> "group_ring", ringrtcResendMediaKeys |-> "resend_media_keys",
     ringrtcSetDataMode |-> "set_data_mode", ringrtcRequestVideo |-> "request_video"]

jni_admin_swapped ==
    [ringrtcApproveUser |-> "deny_user", ringrtcDenyUser |-> "approve_user",
     ringrtcRemoveClient |-> "remove_client", ringrtcBlockClient |-> "block_client"]

jni_admin ==
    [ringrtcApproveUser |-> "approve_user", ringrtcDenyUser |-> "deny_user",
     ringrtcRemoveClient |-> "remove_client", ringrtcBlockClient |-> "block_client"]

jni_members ==
    [ringrtcSetGroupMembers |-> "set_group_members",
     ringrtcSetMembershipProof |-> "set_membership_proof", ringrtcReact |-> "react",
     ringrtcRaiseHand |-> "raise_hand"]

ringrtc_create ==
    [ringrtcCreateGroupCallClient |-> "create_group_call_client",
     ringrtcCreateCallLinkCallClient |-> "create_call_link_call_client"]

ringrtc_lifecycle ==
    [ringrtcDeleteGroupCallClient |-> "delete_group_call_client", ringrtcConnect |-> "connect",
     ringrtcJoin |-> "join", ringrtcLeave |-> "leave", ringrtcDisconnect |-> "disconnect"]

ringrtc_mutes ==
    [ringrtcSetOutgoingAudioMuted |-> "set_outgoing_audio_muted",
     ringrtcSetOutgoingAudioMutedRemotely |-> "set_outgoing_audio_muted_remotely",
     ringrtcSendRemoteMuteRequest |-> "send_remote_mute_request",
     ringrtcSetOutgoingVideoMuted |-> "set_outgoing_video_muted"]

ringrtc_stream ==
    [ringrtcGroupRing |-> "group_ring", ringrtcResendMediaKeys |-> "resend_media_keys",
     ringrtcSetDataMode |-> "set_data_mode"]

ringrtc_video == [ringrtcRequestVideo |-> "request_video"]

ringrtc_admin ==
    [ringrtcApproveUser |-> "approve_user", ringrtcDenyUser |-> "deny_user",
     ringrtcRemoveClient |-> "remove_client", ringrtcBlockClient |-> "block_client"]

ringrtc_members ==
    [ringrtcSetGroupMembers |-> "set_group_members",
     ringrtcSetMembershipProof |-> "set_membership_proof", ringrtcReact |-> "react",
     ringrtcRaiseHand |-> "raise_hand"]

(* JavaScript takes the functions of the library by the names that it      *)
(* exports them under.                                                     *)
NativeCallManager ==
    [createGroupCallClient |-> "cm_createGroupCallClient",
     createCallLinkCallClient |-> "cm_createCallLinkCallClient",
     deleteGroupCallClient |-> "cm_deleteGroupCallClient", connect |-> "cm_connect",
     join |-> "cm_join", leave |-> "cm_leave", disconnect |-> "cm_disconnect",
     groupRing |-> "cm_groupRing", groupReact |-> "cm_groupReact",
     groupRaiseHand |-> "cm_groupRaiseHand",
     setOutgoingAudioMuted |-> "cm_setOutgoingAudioMuted",
     setOutgoingAudioMutedRemotely |-> "cm_setOutgoingAudioMutedRemotely",
     sendRemoteMuteRequest |-> "cm_sendRemoteMuteRequest",
     setOutgoingVideoMuted |-> "cm_setOutgoingVideoMuted",
     setOutgoingGroupCallVideoIsScreenShare |-> "cm_setOutgoingGroupCallVideoIsScreenShare",
     setPresenting |-> "cm_setPresenting", resendMediaKeys |-> "cm_resendMediaKeys",
     setDataMode |-> "cm_setDataMode", requestVideo |-> "cm_requestVideo",
     approveUser |-> "cm_approveUser", denyUser |-> "cm_denyUser",
     removeClient |-> "cm_removeClient", blockClient |-> "cm_blockClient",
     setGroupMembers |-> "cm_setGroupMembers", setMembershipProof |-> "cm_setMembershipProof",
     setRtcStatsInterval |-> "cm_setRtcStatsInterval"]

register ==
    [cm_createGroupCallClient |-> "createGroupCallClient",
     cm_createCallLinkCallClient |-> "createCallLinkCallClient",
     cm_deleteGroupCallClient |-> "deleteGroupCallClient", cm_connect |-> "connect",
     cm_join |-> "join", cm_leave |-> "leave", cm_disconnect |-> "disconnect",
     cm_setOutgoingAudioMuted |-> "setOutgoingAudioMuted",
     cm_setOutgoingAudioMutedRemotely |-> "setOutgoingAudioMutedRemotely",
     cm_sendRemoteMuteRequest |-> "sendRemoteMuteRequest",
     cm_setOutgoingVideoMuted |-> "setOutgoingVideoMuted",
     cm_setPresenting |-> "setPresenting",
     cm_setOutgoingGroupCallVideoIsScreenShare |-> "setOutgoingGroupCallVideoIsScreenShare",
     cm_groupRing |-> "groupRing", cm_groupReact |-> "groupReact",
     cm_groupRaiseHand |-> "groupRaiseHand", cm_resendMediaKeys |-> "resendMediaKeys",
     cm_setDataMode |-> "setDataMode", cm_requestVideo |-> "requestVideo",
     cm_approveUser |-> "approveUser", cm_denyUser |-> "denyUser",
     cm_removeClient |-> "removeClient", cm_blockClient |-> "blockClient",
     cm_setGroupMembers |-> "setGroupMembers", cm_setMembershipProof |-> "setMembershipProof",
     cm_setRtcStatsInterval |-> "setRtcStatsInterval"]

electron_create ==
    [createGroupCallClient |-> "create_group_call_client",
     createCallLinkCallClient |-> "create_call_link_call_client"]

electron_lifecycle ==
    [deleteGroupCallClient |-> "delete_group_call_client"]
    @@ Same({"connect", "join", "leave", "disconnect"})

electron_mutes ==
    [setOutgoingAudioMuted |-> "set_outgoing_audio_muted",
     setOutgoingAudioMutedRemotely |-> "set_outgoing_audio_muted_remotely",
     setOutgoingVideoMuted |-> "set_outgoing_video_muted"]

electron_media ==
    [setPresenting |-> "set_presenting",
     setOutgoingGroupCallVideoIsScreenShare |-> "set_sharing_screen",
     sendRemoteMuteRequest |-> "send_remote_mute_request"]

electron_stream ==
    [groupRing |-> "group_ring", groupReact |-> "react", groupRaiseHand |-> "raise_hand",
     resendMediaKeys |-> "resend_media_keys", setDataMode |-> "set_data_mode",
     requestVideo |-> "request_video"]

electron_admin ==
    [approveUser |-> "approve_user", denyUser |-> "deny_user", removeClient |-> "remove_client",
     blockClient |-> "block_client"]

electron_members ==
    [setGroupMembers |-> "set_group_members", setMembershipProof |-> "set_membership_proof"]

electron_stats == [setRtcStatsInterval |-> "set_rtc_stats_interval"]

(* The call managers of the two mobile platforms. *)

android_create_group == Same({"create_group_call_client"})

android_create_link == Same({"create_call_link_call_client"})

android_lifecycle ==
    Same({"delete_group_call_client", "connect", "join", "leave", "disconnect"})

android_mutes ==
    Same({"set_outgoing_audio_muted", "set_outgoing_audio_muted_remotely",
          "send_remote_mute_request", "set_outgoing_video_muted"})

android_media ==
    [set_presenting |-> "set_presenting",
     set_outgoing_group_call_video_is_screenshare |-> "set_sharing_screen"]

android_stream == Same({"group_ring", "resend_media_keys", "set_data_mode"})

android_request_video == Same({"request_video"})

android_admin == Same({"approve_user", "deny_user", "remove_client", "block_client"})

android_members == Same({"set_group_members", "set_membership_proof", "react", "raise_hand"})

ios_create == Same({"create_group_call_client", "create_call_link_call_client"})

ios_lifecycle ==
    Same({"delete_group_call_client", "connect", "join", "leave", "disconnect"})

ios_mutes ==
    Same({"set_outgoing_audio_muted", "set_outgoing_audio_muted_remotely",
          "send_remote_mute_request", "set_outgoing_video_muted"})

ios_stream == Same({"group_ring", "resend_media_keys", "set_data_mode", "request_video"})

ios_members ==
    Same({"approve_user", "deny_user", "remove_client", "block_client", "set_group_members",
          "set_membership_proof", "react", "raise_hand"})

(* What calls of one layer come to in the next: a call that it does not    *)
(* offer comes to nothing.                                                 *)
Compose(first, second) ==
    [x \in {y \in DOMAIN first : first[y] \in DOMAIN second} |-> second[first[x]]]

JavaCalls ==
    LET exports == jni_create @@ jni_lifecycle @@ jni_mutes @@ jni_media @@ jni_stream
                       @@ jni_admin @@ jni_members
    IN Compose(Compose(java_methods, exports),
               android_create_group @@ android_create_link @@ android_lifecycle @@ android_mutes
                   @@ android_media @@ android_stream @@ android_request_video @@ android_admin
                   @@ android_members)

SwiftCalls ==
    LET exports == ringrtc_create @@ ringrtc_lifecycle @@ ringrtc_mutes @@ ringrtc_stream
                       @@ ringrtc_video @@ ringrtc_admin @@ ringrtc_members
    IN Compose(Compose(swift_methods @@ swift_ended, exports),
               ios_create @@ ios_lifecycle @@ ios_mutes @@ ios_stream @@ ios_members)

ServiceCalls ==
    Compose(Compose(service_create @@ service_methods, Compose(NativeCallManager, register)),
            electron_create @@ electron_lifecycle @@ electron_mutes @@ electron_media
                @@ electron_stream @@ electron_admin @@ electron_members @@ electron_stats)

(* The operation of the core that each operation of an application comes   *)
(* to, where its platform offers it.                                       *)
Calls == [android |-> JavaCalls, ios |-> SwiftCalls, electron |-> ServiceCalls]

(* What the application means by its operations. *)
Meaning ==
    [presenting |-> "set_presenting", screenshare |-> "set_sharing_screen",
     muteRequest |-> "send_remote_mute_request", ring |-> "group_ring",
     resend |-> "resend_media_keys", dataMode |-> "set_data_mode",
     requestVideo |-> "request_video", approve |-> "approve_user", deny |-> "deny_user",
     remove |-> "remove_client", block |-> "block_client", members |-> "set_group_members",
     proof |-> "set_membership_proof", react |-> "react", raiseHand |-> "raise_hand",
     stats |-> "set_rtc_stats_interval"]

--------------------------------------------------------------------------
(* The layers on the way back, from the callbacks of the core.  The        *)
(* platforms of the library call the methods of the application's call     *)
(* manager, which call the methods of the object the client is of.         *)

android_requests ==
    [proof |-> "requestMembershipProof", members |-> "requestGroupMembers",
     connection |-> "handleConnectionStateChanged", route |-> "handleNetworkRouteChanged",
     speaking |-> "handleSpeakingNotification"]

android_levels == [levels |-> "handleAudioLevels", bandwidth |-> "handleLowBandwidthForVideo"]

android_participants ==
    [reactions |-> "handleReactions", hands |-> "handleRaisedHands",
     join |-> "handleJoinStateChanged"]

android_devices == [devices |-> "handleRemoteDevicesChanged"]

android_peek == [peek |-> "handlePeekChanged"]

android_mute_callbacks ==
    [ended |-> "handleEnded", muted |-> "handleRemoteMuteRequest",
     observed |-> "handleObservedRemoteMute"]

java_finds ==
    Same({"requestMembershipProof", "requestGroupMembers", "handleConnectionStateChanged",
          "handleNetworkRouteChanged", "handleAudioLevels", "handleLowBandwidthForVideo",
          "handleReactions", "handleRaisedHands", "handleJoinStateChanged",
          "handleRemoteDevicesChanged", "handlePeekChanged", "handleEnded",
          "handleRemoteMuteRequest", "handleObservedRemoteMute", "handleSpeakingNotification"})

ios_requests ==
    [proof |-> "requestMembershipProof", members |-> "requestGroupMembers",
     connection |-> "handleConnectionStateChanged", route |-> "handleNetworkRouteChanged"]

ios_participants ==
    [levels |-> "handleAudioLevels", bandwidth |-> "handleLowBandwidthForVideo",
     reactions |-> "handleReactions", join |-> "handleJoinStateChanged"]

ios_devices == [devices |-> "handleRemoteDevicesChanged"]

ios_hands == [hands |-> "handleRaisedHands"]

ios_peek ==
    [peek |-> "handlePeekChanged", ended |-> "handleEnded",
     speaking |-> "handleSpeakingNotification", muted |-> "handleRemoteMuteRequest",
     observed |-> "handleObservedRemoteMute"]

(* The structure of functions the library is given, and those functions. *)
getWrapper ==
    [requestMembershipProof |-> "callManagerInterfaceRequestMembershipProof",
     requestGroupMembers |-> "callManagerInterfaceRequestGroupMembers",
     handleConnectionStateChanged |-> "callManagerInterfaceHandleConnectionStateChanged",
     handleNetworkRouteChanged |-> "callManagerInterfaceHandleNetworkRouteChanged",
     handleAudioLevels |-> "callManagerInterfaceHandleAudioLevels",
     handleLowBandwidthForVideo |-> "callManagerInterfaceHandleLowBandwidthForVideo",
     handleReactions |-> "callManagerInterfaceHandleReactions",
     handleRaisedHands |-> "callManagerInterfaceHandleRaisedHands",
     handleJoinStateChanged |-> "callManagerInterfaceHandleJoinStateChanged",
     handleRemoteDevicesChanged |-> "callManagerInterfaceHandleRemoteDevicesChanged",
     handlePeekChanged |-> "callManagerInterfaceHandlePeekChanged",
     handleEnded |-> "callManagerInterfaceHandleEnded",
     handleSpeakingNotification |-> "callManagerInterfaceHandleSpeakingNotification",
     handleRemoteMuteRequest |-> "callManagerInterfaceHandleRemoteMuteRequest",
     handleObservedRemoteMute |-> "callManagerInterfaceHandleObservedRemoteMute"]

interface_functions ==
    [callManagerInterfaceRequestMembershipProof |-> "requestMembershipProof",
     callManagerInterfaceRequestGroupMembers |-> "requestGroupMembers",
     callManagerInterfaceHandleConnectionStateChanged |-> "handleConnectionStateChanged",
     callManagerInterfaceHandleNetworkRouteChanged |-> "handleNetworkRouteChanged",
     callManagerInterfaceHandleAudioLevels |-> "handleAudioLevels",
     callManagerInterfaceHandleLowBandwidthForVideo |-> "handleLowBandwidthForVideo",
     callManagerInterfaceHandleReactions |-> "handleReactions",
     callManagerInterfaceHandleRaisedHands |-> "handleRaisedHands",
     callManagerInterfaceHandleJoinStateChanged |-> "handleJoinStateChanged",
     callManagerInterfaceHandleRemoteDevicesChanged |-> "handleRemoteDevicesChanged",
     callManagerInterfaceHandlePeekChanged |-> "handlePeekChanged",
     callManagerInterfaceHandleEnded |-> "handleEnded",
     callManagerInterfaceHandleSpeakingNotification |-> "handleSpeakingNotification",
     callManagerInterfaceHandleRemoteMuteRequest |-> "handleRemoteMuteRequest",
     callManagerInterfaceHandleObservedRemoteMute |-> "handleObservedRemoteMute"]

callManagerObserverDelegate ==
    Same({"requestMembershipProof", "requestGroupMembers", "handleConnectionStateChanged",
          "handleNetworkRouteChanged", "handleAudioLevels", "handleLowBandwidthForVideo",
          "handleReactions", "handleRaisedHands", "handleJoinStateChanged",
          "handleRemoteDevicesChanged", "handlePeekChanged", "handleEnded",
          "handleSpeakingNotification", "handleRemoteMuteRequest", "handleObservedRemoteMute"})

swift_finds ==
    Same({"requestMembershipProof", "requestGroupMembers", "handleConnectionStateChanged",
          "handleNetworkRouteChanged", "handleAudioLevels", "handleLowBandwidthForVideo",
          "handleReactions", "handleRaisedHands", "handleJoinStateChanged",
          "handleRemoteDevicesChanged", "handlePeekChanged", "handleEnded",
          "handleSpeakingNotification", "handleRemoteMuteRequest", "handleObservedRemoteMute"})

native_requests ==
    [proof |-> "RequestMembershipProof", members |-> "RequestGroupMembers",
     connection |-> "ConnectionStateChanged", route |-> "NetworkRouteChanged",
     speaking |-> "SpeechEvent", levels |-> "AudioLevels", bandwidth |-> "LowBandwidthForVideo"]

native_participants ==
    [reactions |-> "Reactions", hands |-> "RaisedHands", join |-> "JoinStateChanged",
     devices |-> "RemoteDeviceStatesChanged", peek |-> "PeekChanged"]

native_mute_callbacks ==
    [muted |-> "RemoteMute", observed |-> "ObservedRemoteMute", ended |-> "Ended"]

electron_requests ==
    [RequestMembershipProof |-> "requestMembershipProof",
     RequestGroupMembers |-> "requestGroupMembers",
     ConnectionStateChanged |-> "handleConnectionStateChanged",
     NetworkRouteChanged |-> "handleNetworkRouteChanged",
     JoinStateChanged |-> "handleJoinStateChanged"]

electron_devices == [RemoteDeviceStatesChanged |-> "handleRemoteDevicesChanged"]

electron_peek == [PeekChanged |-> "handlePeekChanged", Ended |-> "handleEnded"]

electron_levels ==
    [AudioLevels |-> "handleAudioLevels", LowBandwidthForVideo |-> "handleLowBandwidthForVideo",
     Reactions |-> "handleReactions", RaisedHands |-> "handleRaisedHands"]

electron_mute_callbacks ==
    [SpeechEvent |-> "handleSpeechEvent", RemoteMute |-> "onRemoteMute",
     ObservedRemoteMute |-> "onObservedRemoteMute"]

service_finds ==
    Same({"requestMembershipProof", "requestGroupMembers", "handleConnectionStateChanged",
          "handleJoinStateChanged", "handleNetworkRouteChanged", "handleAudioLevels",
          "handleLowBandwidthForVideo", "handleReactions", "handleRaisedHands",
          "handleRemoteDevicesChanged", "handlePeekChanged", "handleEnded",
          "handleSpeechEvent", "onRemoteMute", "onObservedRemoteMute"})

(* What the methods of the object then tell the application. *)
java_observer ==
    Same({"requestMembershipProof", "requestGroupMembers"})
    @@ [handleNetworkRouteChanged |-> "onLocalDeviceStateChanged",
        handleSpeakingNotification |-> "onSpeakingNotification",
        handleAudioLevels |-> "onAudioLevels",
        handleLowBandwidthForVideo |-> "onLowBandwidthForVideo",
        handleReactions |-> "onReactions", handleRaisedHands |-> "onRaisedHands",
        handleRemoteDevicesChanged |-> "onRemoteDeviceStatesChanged",
        handlePeekChanged |-> "onPeekChanged", handleRemoteMuteRequest |-> "onRemoteMuteRequest",
        handleObservedRemoteMute |-> "onObservedRemoteMute"]

swift_delegate ==
    Same({"requestMembershipProof", "requestGroupMembers"})
    @@ [handleNetworkRouteChanged |-> "onLocalDeviceStateChanged",
        handleAudioLevels |-> "onAudioLevels",
        handleLowBandwidthForVideo |-> "onLowBandwidthForVideo",
        handleReactions |-> "onReactions", handleRaisedHands |-> "onRaisedHands",
        handleRemoteDevicesChanged |-> "onRemoteDeviceStatesChanged",
        handlePeekChanged |-> "onPeekChanged",
        handleSpeakingNotification |-> "onSpeakingNotification",
        handleRemoteMuteRequest |-> "onRemoteMuteRequest",
        handleObservedRemoteMute |-> "onObservedRemoteMute"]

service_observer ==
    Same({"requestMembershipProof", "requestGroupMembers", "onRemoteMute",
          "onObservedRemoteMute"})
    @@ [handleNetworkRouteChanged |-> "onLocalDeviceStateChanged",
        handleAudioLevels |-> "onAudioLevels",
        handleLowBandwidthForVideo |-> "onLowBandwidthForVideo",
        handleReactions |-> "onReactions", handleRaisedHands |-> "onRaisedHands",
        handleRemoteDevicesChanged |-> "onRemoteDeviceStatesChanged",
        handlePeekChanged |-> "onPeekChanged", handleSpeechEvent |-> "onSpeechEvent"]

JavaCallbacks ==
    Compose(android_requests @@ android_levels @@ android_participants @@ android_devices
                @@ android_peek @@ android_mute_callbacks,
            java_finds)

SwiftCallbacks ==
    LET fields == ios_requests @@ ios_participants @@ ios_devices @@ ios_hands @@ ios_peek
        functions == Compose(getWrapper, interface_functions)
    IN Compose(Compose(fields, functions), Compose(callManagerObserverDelegate, swift_finds))

ServiceCallbacks ==
    LET updates == native_requests @@ native_participants @@ native_mute_callbacks
        methods == electron_requests @@ electron_devices @@ electron_peek @@ electron_levels
                       @@ electron_mute_callbacks
    IN Compose(Compose(updates, methods), service_finds)

(* The method of the object that each callback of the core comes to, and   *)
(* what the application is told by it.                                     *)
Callbacks == [android |-> JavaCallbacks, ios |-> SwiftCallbacks, electron |-> ServiceCallbacks]

Observers ==
    [android |-> Compose(JavaCallbacks, java_observer),
     ios |-> Compose(SwiftCallbacks, swift_delegate),
     electron |-> Compose(ServiceCallbacks, service_observer)]

(* What the application is to be told. *)
Tells ==
    [proof |-> {"requestMembershipProof"}, members |-> {"requestGroupMembers"},
     route |-> {"onLocalDeviceStateChanged"}, levels |-> {"onAudioLevels"},
     speaking |-> {"onSpeakingNotification", "onSpeechEvent"},
     bandwidth |-> {"onLowBandwidthForVideo"}, reactions |-> {"onReactions"},
     hands |-> {"onRaisedHands"}, devices |-> {"onRemoteDeviceStatesChanged"},
     peek |-> {"onPeekChanged"}, muted |-> {"onRemoteMuteRequest", "onRemoteMute"},
     observed |-> {"onObservedRemoteMute"}]
=============================================================================
