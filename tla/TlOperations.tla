----------------------------- MODULE TlOperations -----------------------------
(***************************************************************************)
(* The operations of the server: by factory, the method that processes a   *)
(* function, the arguments it reads and the method it runs, and the type   *)
(* of the value that is sent as the reply.                                 *)
(***************************************************************************)
EXTENDS TlStream

Answers(methods, type) == [m \in methods |-> type]

AccountMethods ==
  [AccountChangePhone |-> "ChangePhone", AccountCheckUsername |-> "CheckUsername",
   AccountConfirmPhone |-> "ConfirmPhone", AccountDeleteAccount |-> "DeleteAccount",
   AccountGetAccountTTL |-> "GetAccountTTL", AccountGetAuthorizations |-> "GetAuthorizations",
   AccountGetNotifySettings |-> "GetNotifySettings", AccountGetPassword |-> "GetPassword",
   AccountGetPasswordSettings |-> "GetPasswordSettings", AccountGetPrivacy |-> "GetPrivacy",
   AccountGetTmpPassword |-> "GetTmpPassword", AccountGetWallPapers |-> "GetWallPapers",
   AccountRegisterDevice |-> "RegisterDevice", AccountReportPeer |-> "ReportPeer",
   AccountResetAuthorization |-> "ResetAuthorization",
   AccountResetNotifySettings |-> "ResetNotifySettings",
   AccountSendChangePhoneCode |-> "SendChangePhoneCode",
   AccountSendConfirmPhoneCode |-> "SendConfirmPhoneCode",
       AccountSetAccountTTL |-> "SetAccountTTL",
   AccountSetPrivacy |-> "SetPrivacy", AccountUnregisterDevice |-> "UnregisterDevice",
   AccountUpdateDeviceLocked |-> "UpdateDeviceLocked",
   AccountUpdateNotifySettings |-> "UpdateNotifySettings",
   AccountUpdatePasswordSettings |-> "UpdatePasswordSettings",
   AccountUpdateProfile |-> "UpdateProfile", AccountUpdateStatus |-> "UpdateStatus",
   AccountUpdateUsername |-> "UpdateUsername"]
AccountProcessing ==
  [ChangePhone |-> "AccountChangePhone", CheckUsername |-> "AccountCheckUsername",
   ConfirmPhone |-> "AccountConfirmPhone", DeleteAccount |-> "AccountDeleteAccount",
   GetAccountTTL |-> "AccountGetAccountTTL", GetAuthorizations |-> "AccountGetAuthorizations",
   GetNotifySettings |-> "AccountGetNotifySettings", GetPassword |-> "AccountGetPassword",
   GetPasswordSettings |-> "AccountGetPasswordSettings", GetPrivacy |-> "AccountGetPrivacy",
   GetTmpPassword |-> "AccountGetTmpPassword", GetWallPapers |-> "AccountGetWallPapers",
   RegisterDevice |-> "AccountRegisterDevice", ReportPeer |-> "AccountReportPeer",
   ResetAuthorization |-> "AccountResetAuthorization",
   ResetNotifySettings |-> "AccountResetNotifySettings",
   SendChangePhoneCode |-> "AccountSendChangePhoneCode",
   SendConfirmPhoneCode |-> "AccountSendConfirmPhoneCode",
       SetAccountTTL |-> "AccountSetAccountTTL",
   SetPrivacy |-> "AccountSetPrivacy", UnregisterDevice |-> "AccountUnregisterDevice",
   UpdateDeviceLocked |-> "AccountUpdateDeviceLocked",
   UpdateNotifySettings |-> "AccountUpdateNotifySettings",
   UpdatePasswordSettings |-> "AccountUpdatePasswordSettings",
   UpdateProfile |-> "AccountUpdateProfile", UpdateStatus |-> "AccountUpdateStatus",
   UpdateUsername |-> "AccountUpdateUsername"]
AccountReplies ==
  Answers({"ChangePhone", "UpdateProfile", "UpdateUsername"}, Tl("User"))
  @@ Answers({"CheckUsername", "ConfirmPhone", "DeleteAccount", "RegisterDevice", "ReportPeer",
      "ResetAuthorization", "ResetNotifySettings", "SetAccountTTL", "UnregisterDevice",
      "UpdateDeviceLocked", "UpdateNotifySettings", "UpdatePasswordSettings", "UpdateStatus"},
      bool)
  @@ Answers({"GetAccountTTL"}, Tl("AccountDaysTTL"))
  @@ Answers({"GetAuthorizations"}, Tl("AccountAuthorizations"))
  @@ Answers({"GetNotifySettings"}, Tl("PeerNotifySettings"))
  @@ Answers({"GetPassword"}, Tl("AccountPassword"))
  @@ Answers({"GetPasswordSettings"}, Tl("AccountPasswordSettings"))
  @@ Answers({"GetPrivacy", "SetPrivacy"}, Tl("AccountPrivacyRules"))
  @@ Answers({"GetTmpPassword"}, Tl("AccountTmpPassword"))
  @@ Answers({"GetWallPapers"}, Vector(Tl("WallPaper")))
  @@ Answers({"SendChangePhoneCode", "SendConfirmPhoneCode"}, Tl("AuthSentCode"))

AuthMethods ==
  [AuthBindTempAuthKey |-> "BindTempAuthKey", AuthCancelCode |-> "CancelCode",
   AuthCheckPassword |-> "CheckPassword", AuthCheckPhone |-> "CheckPhone",
   AuthDropTempAuthKeys |-> "DropTempAuthKeys", AuthExportAuthorization |-> "ExportAuthorization",
   AuthImportAuthorization |-> "ImportAuthorization",
   AuthImportBotAuthorization |-> "ImportBotAuthorization", AuthLogOut |-> "LogOut",
   AuthRecoverPassword |-> "RecoverPassword",
   AuthRequestPasswordRecovery |-> "RequestPasswordRecovery", AuthResendCode |-> "ResendCode",
   AuthResetAuthorizations |-> "ResetAuthorizations", AuthSendCode |-> "SendCode",
   AuthSendInvites |-> "SendInvites", AuthSignIn |-> "SignIn", AuthSignUp |-> "SignUp"]
AuthProcessing ==
  [BindTempAuthKey |-> "AuthBindTempAuthKey", CancelCode |-> "AuthCancelCode",
   CheckPassword |-> "AuthCheckPassword", CheckPhone |-> "AuthCheckPhone",
   DropTempAuthKeys |-> "AuthDropTempAuthKeys", ExportAuthorization |-> "AuthExportAuthorization",
   ImportAuthorization |-> "AuthImportAuthorization",
   ImportBotAuthorization |-> "AuthImportBotAuthorization", LogOut |-> "AuthLogOut",
   RecoverPassword |-> "AuthRecoverPassword",
   RequestPasswordRecovery |-> "AuthRequestPasswordRecovery", ResendCode |-> "AuthResendCode",
   ResetAuthorizations |-> "AuthResetAuthorizations", SendCode |-> "AuthSendCode",
   SendInvites |-> "AuthSendInvites", SignIn |-> "AuthSignIn", SignUp |-> "AuthSignUp"]
AuthReplies ==
  Answers({"BindTempAuthKey", "CancelCode", "DropTempAuthKeys", "LogOut", "ResetAuthorizations",
      "SendInvites"}, bool)
  @@ Answers({"CheckPassword", "ImportAuthorization", "ImportBotAuthorization",
      "RecoverPassword", "SignIn", "SignUp"}, Tl("AuthAuthorization"))
  @@ Answers({"CheckPhone"}, Tl("AuthCheckedPhone"))
  @@ Answers({"ExportAuthorization"}, Tl("AuthExportedAuthorization"))
  @@ Answers({"RequestPasswordRecovery"}, Tl("AuthPasswordRecovery"))
  @@ Answers({"ResendCode", "SendCode"}, Tl("AuthSentCode"))

BotsMethods ==
  [BotsAnswerWebhookJSONQuery |-> "AnswerWebhookJSONQuery",
   BotsSendCustomRequest |-> "SendCustomRequest"]
BotsProcessing ==
  [AnswerWebhookJSONQuery |-> "BotsAnswerWebhookJSONQuery",
   SendCustomRequest |-> "BotsSendCustomRequest"]
BotsReplies ==
  Answers({"AnswerWebhookJSONQuery"}, bool)
  @@ Answers({"SendCustomRequest"}, Tl("DataJSON"))

ChannelsMethods ==
  [ChannelsCheckUsername |-> "CheckUsername", ChannelsCreateChannel |-> "CreateChannel",
   ChannelsDeleteChannel |-> "DeleteChannel", ChannelsDeleteHistory |-> "DeleteHistory",
   ChannelsDeleteMessages |-> "DeleteMessages", ChannelsDeleteUserHistory |-> "DeleteUserHistory",
   ChannelsEditAbout |-> "EditAbout", ChannelsEditAdmin |-> "EditAdmin",
   ChannelsEditBanned |-> "EditBanned", ChannelsEditPhoto |-> "EditPhoto",
   ChannelsEditTitle |-> "EditTitle", ChannelsExportInvite |-> "ExportInvite",
   ChannelsExportMessageLink |-> "ExportMessageLink", ChannelsGetAdminLog |-> "GetAdminLog",
   ChannelsGetAdminedPublicChannels |-> "GetAdminedPublicChannels",
   ChannelsGetChannels |-> "GetChannels", ChannelsGetFullChannel |-> "GetFullChannel",
   ChannelsGetMessages |-> "GetMessages", ChannelsGetParticipant |-> "GetParticipant",
   ChannelsGetParticipants |-> "GetParticipants", ChannelsInviteToChannel |-> "InviteToChannel",
   ChannelsJoinChannel |-> "JoinChannel", ChannelsLeaveChannel |-> "LeaveChannel",
   ChannelsReadHistory |-> "ReadHistory", ChannelsReadMessageContents |-> "ReadMessageContents",
   ChannelsReportSpam |-> "ReportSpam", ChannelsSetStickers |-> "SetStickers",
   ChannelsToggleInvites |-> "ToggleInvites",
   ChannelsTogglePreHistoryHidden |-> "TogglePreHistoryHidden",
   ChannelsToggleSignatures |-> "ToggleSignatures",
   ChannelsUpdatePinnedMessage |-> "UpdatePinnedMessage",
   ChannelsUpdateUsername |-> "UpdateUsername"]
ChannelsProcessing ==
  [CheckUsername |-> "ChannelsCheckUsername", CreateChannel |-> "ChannelsCreateChannel",
   DeleteChannel |-> "ChannelsDeleteChannel", DeleteHistory |-> "ChannelsDeleteHistory",
   DeleteMessages |-> "ChannelsDeleteMessages", DeleteUserHistory |-> "ChannelsDeleteUserHistory",
   EditAbout |-> "ChannelsEditAbout", EditAdmin |-> "ChannelsEditAdmin",
   EditBanned |-> "ChannelsEditBanned", EditPhoto |-> "ChannelsEditPhoto",
   EditTitle |-> "ChannelsEditTitle", ExportInvite |-> "ChannelsExportInvite",
   ExportMessageLink |-> "ChannelsExportMessageLink", GetAdminLog |-> "ChannelsGetAdminLog",
   GetAdminedPublicChannels |-> "ChannelsGetAdminedPublicChannels",
   GetChannels |-> "ChannelsGetChannels", GetFullChannel |-> "ChannelsGetFullChannel",
   GetMessages |-> "ChannelsGetMessages", GetParticipant |-> "ChannelsGetParticipant",
   GetParticipants |-> "ChannelsGetParticipants", InviteToChannel |-> "ChannelsInviteToChannel",
   JoinChannel |-> "ChannelsJoinChannel", LeaveChannel |-> "ChannelsLeaveChannel",
   ReadHistory |-> "ChannelsReadHistory", ReadMessageContents |-> "ChannelsReadMessageContents",
   ReportSpam |-> "ChannelsReportSpam", SetStickers |-> "ChannelsSetStickers",
   ToggleInvites |-> "ChannelsToggleInvites",
   TogglePreHistoryHidden |-> "ChannelsTogglePreHistoryHidden",
   ToggleSignatures |-> "ChannelsToggleSignatures",
   UpdatePinnedMessage |-> "ChannelsUpdatePinnedMessage",
   UpdateUsername |-> "ChannelsUpdateUsername"]
ChannelsReplies ==
  Answers({"CheckUsername", "DeleteHistory", "EditAbout", "ReadHistory", "ReadMessageContents",
      "ReportSpam", "SetStickers", "UpdateUsername"}, bool)
  @@ Answers({"CreateChannel", "DeleteChannel", "EditAdmin", "EditBanned", "EditPhoto",
      "EditTitle", "InviteToChannel", "JoinChannel", "LeaveChannel", "ToggleInvites",
      "TogglePreHistoryHidden", "ToggleSignatures", "UpdatePinnedMessage"}, Tl("Updates"))
  @@ Answers({"DeleteMessages"}, Tl("MessagesAffectedMessages"))
  @@ Answers({"DeleteUserHistory"}, Tl("MessagesAffectedHistory"))
  @@ Answers({"ExportInvite"}, Tl("ExportedChatInvite"))
  @@ Answers({"ExportMessageLink"}, Tl("ExportedMessageLink"))
  @@ Answers({"GetAdminLog"}, Tl("ChannelsAdminLogResults"))
  @@ Answers({"GetAdminedPublicChannels", "GetChannels"}, Tl("MessagesChats"))
  @@ Answers({"GetFullChannel"}, Tl("MessagesChatFull"))
  @@ Answers({"GetMessages"}, Tl("MessagesMessages"))
  @@ Answers({"GetParticipant"}, Tl("ChannelsChannelParticipant"))
  @@ Answers({"GetParticipants"}, Tl("ChannelsChannelParticipants"))

ContactsMethods ==
  [ContactsBlock |-> "Block", ContactsDeleteContact |-> "DeleteContact",
   ContactsDeleteContacts |-> "DeleteContacts", ContactsExportCard |-> "ExportCard",
   ContactsGetBlocked |-> "GetBlocked", ContactsGetContacts |-> "GetContacts",
   ContactsGetStatuses |-> "GetStatuses", ContactsGetTopPeers |-> "GetTopPeers",
   ContactsImportCard |-> "ImportCard", ContactsImportContacts |-> "ImportContacts",
   ContactsResetSaved |-> "ResetSaved", ContactsResetTopPeerRating |-> "ResetTopPeerRating",
   ContactsResolveUsername |-> "ResolveUsername", ContactsSearch |-> "Search",
   ContactsUnblock |-> "Unblock"]
ContactsProcessing ==
  [Block |-> "ContactsBlock", DeleteContact |-> "ContactsDeleteContact",
   DeleteContacts |-> "ContactsDeleteContacts", ExportCard |-> "ContactsExportCard",
   GetBlocked |-> "ContactsGetBlocked", GetContacts |-> "ContactsGetContacts",
   GetStatuses |-> "ContactsGetStatuses", GetTopPeers |-> "ContactsGetTopPeers",
   ImportCard |-> "ContactsImportCard", ImportContacts |-> "ContactsImportContacts",
   ResetSaved |-> "ContactsResetSaved", ResetTopPeerRating |-> "ContactsResetTopPeerRating",
   ResolveUsername |-> "ContactsResolveUsername", Search |-> "ContactsSearch",
   Unblock |-> "ContactsUnblock"]
ContactsReplies ==
  Answers({"Block", "DeleteContacts", "ResetSaved", "ResetTopPeerRating", "Unblock"}, bool)
  @@ Answers({"DeleteContact"}, Tl("ContactsLink"))
  @@ Answers({"ExportCard"}, Vector(quint32))
  @@ Answers({"GetBlocked"}, Tl("ContactsBlocked"))
  @@ Answers({"GetContacts"}, Tl("ContactsContacts"))
  @@ Answers({"GetStatuses"}, Vector(Tl("ContactStatus")))
  @@ Answers({"GetTopPeers"}, Tl("ContactsTopPeers"))
  @@ Answers({"ImportCard"}, Tl("User"))
  @@ Answers({"ImportContacts"}, Tl("ContactsImportedContacts"))
  @@ Answers({"ResolveUsername"}, Tl("ContactsResolvedPeer"))
  @@ Answers({"Search"}, Tl("ContactsFound"))

HelpMethods ==
  [HelpGetAppChangelog |-> "GetAppChangelog", HelpGetAppUpdate |-> "GetAppUpdate",
   HelpGetCdnConfig |-> "GetCdnConfig", HelpGetConfig |-> "GetConfig",
   HelpGetInviteText |-> "GetInviteText", HelpGetNearestDc |-> "GetNearestDc",
   HelpGetRecentMeUrls |-> "GetRecentMeUrls", HelpGetSupport |-> "GetSupport",
   HelpGetTermsOfService |-> "GetTermsOfService", HelpSaveAppLog |-> "SaveAppLog",
   HelpSetBotUpdatesStatus |-> "SetBotUpdatesStatus"]
HelpProcessing ==
  [GetAppChangelog |-> "HelpGetAppChangelog", GetAppUpdate |-> "HelpGetAppUpdate",
   GetCdnConfig |-> "HelpGetCdnConfig", GetConfig |-> "HelpGetConfig",
   GetInviteText |-> "HelpGetInviteText", GetNearestDc |-> "HelpGetNearestDc",
   GetRecentMeUrls |-> "HelpGetRecentMeUrls", GetSupport |-> "HelpGetSupport",
   GetTermsOfService |-> "HelpGetTermsOfService", SaveAppLog |-> "HelpSaveAppLog",
   SetBotUpdatesStatus |-> "HelpSetBotUpdatesStatus"]
HelpReplies ==
  Answers({"GetAppChangelog"}, Tl("Updates"))
  @@ Answers({"GetAppUpdate"}, Tl("HelpAppUpdate"))
  @@ Answers({"GetCdnConfig"}, Tl("CdnConfig"))
  @@ Answers({"GetConfig"}, Tl("Config"))
  @@ Answers({"GetInviteText"}, Tl("HelpInviteText"))
  @@ Answers({"GetNearestDc"}, Tl("NearestDc"))
  @@ Answers({"GetRecentMeUrls"}, Tl("HelpRecentMeUrls"))
  @@ Answers({"GetSupport"}, Tl("HelpSupport"))
  @@ Answers({"GetTermsOfService"}, Tl("HelpTermsOfService"))
  @@ Answers({"SaveAppLog", "SetBotUpdatesStatus"}, bool)

LangpackMethods ==
  [LangpackGetDifference |-> "GetDifference", LangpackGetLangPack |-> "GetLangPack",
   LangpackGetLanguages |-> "GetLanguages", LangpackGetStrings |-> "GetStrings"]
LangpackProcessing ==
  [GetDifference |-> "LangpackGetDifference", GetLangPack |-> "LangpackGetLangPack",
   GetLanguages |-> "LangpackGetLanguages", GetStrings |-> "LangpackGetStrings"]
LangpackReplies ==
  Answers({"GetDifference", "GetLangPack"}, Tl("LangPackDifference"))
  @@ Answers({"GetLanguages"}, Vector(Tl("LangPackLanguage")))
  @@ Answers({"GetStrings"}, Vector(Tl("LangPackString")))

MessagesMethods ==
  [MessagesAcceptEncryption |-> "AcceptEncryption", MessagesAddChatUser |-> "AddChatUser",
   MessagesCheckChatInvite |-> "CheckChatInvite",
   MessagesClearRecentStickers |-> "ClearRecentStickers", MessagesCreateChat |-> "CreateChat",
   MessagesDeleteChatUser |-> "DeleteChatUser", MessagesDeleteHistory |-> "DeleteHistory",
   MessagesDeleteMessages |-> "DeleteMessages", MessagesDiscardEncryption |-> "DiscardEncryption",
   MessagesEditChatAdmin |-> "EditChatAdmin", MessagesEditChatPhoto |-> "EditChatPhoto",
   MessagesEditChatTitle |-> "EditChatTitle",
   MessagesEditInlineBotMessage |-> "EditInlineBotMessage", MessagesEditMessage |-> "EditMessage",
   MessagesExportChatInvite |-> "ExportChatInvite", MessagesFaveSticker |-> "FaveSticker",
   MessagesForwardMessage |-> "ForwardMessage", MessagesForwardMessages |-> "ForwardMessages",
   MessagesGetAllChats |-> "GetAllChats", MessagesGetAllDrafts |-> "GetAllDrafts",
   MessagesGetAllStickers |-> "GetAllStickers",
   MessagesGetArchivedStickers |-> "GetArchivedStickers",
   MessagesGetAttachedStickers |-> "GetAttachedStickers",
   MessagesGetBotCallbackAnswer |-> "GetBotCallbackAnswer", MessagesGetChats |-> "GetChats",
   MessagesGetCommonChats |-> "GetCommonChats", MessagesGetDhConfig |-> "GetDhConfig",
   MessagesGetDialogs |-> "GetDialogs", MessagesGetDocumentByHash |-> "GetDocumentByHash",
   MessagesGetFavedStickers |-> "GetFavedStickers",
   MessagesGetFeaturedStickers |-> "GetFeaturedStickers", MessagesGetFullChat |-> "GetFullChat",
   MessagesGetGameHighScores |-> "GetGameHighScores", MessagesGetHistory |-> "GetHistory",
   MessagesGetInlineBotResults |-> "GetInlineBotResults",
   MessagesGetInlineGameHighScores |-> "GetInlineGameHighScores",
   MessagesGetMaskStickers |-> "GetMaskStickers",
   MessagesGetMessageEditData |-> "GetMessageEditData", MessagesGetMessages |-> "GetMessages",
   MessagesGetMessagesViews |-> "GetMessagesViews", MessagesGetPeerDialogs |-> "GetPeerDialogs",
   MessagesGetPeerSettings |-> "GetPeerSettings", MessagesGetPinnedDialogs |-> "GetPinnedDialogs",
   MessagesGetRecentLocations |-> "GetRecentLocations",
   MessagesGetRecentStickers |-> "GetRecentStickers", MessagesGetSavedGifs |-> "GetSavedGifs",
   MessagesGetStickerSet |-> "GetStickerSet", MessagesGetUnreadMentions |-> "GetUnreadMentions",
   MessagesGetWebPage |-> "GetWebPage", MessagesGetWebPagePreview |-> "GetWebPagePreview",
   MessagesHideReportSpam |-> "HideReportSpam", MessagesImportChatInvite |-> "ImportChatInvite",
   MessagesInstallStickerSet |-> "InstallStickerSet", MessagesMigrateChat |-> "MigrateChat",
   MessagesReadEncryptedHistory |-> "ReadEncryptedHistory",
   MessagesReadFeaturedStickers |-> "ReadFeaturedStickers", MessagesReadHistory |-> "ReadHistory",
   MessagesReadMentions |-> "ReadMentions", MessagesReadMessageContents |-> "ReadMessageContents",
   MessagesReceivedMessages |-> "ReceivedMessages", MessagesReceivedQueue |-> "ReceivedQueue",
   MessagesReorderPinnedDialogs |-> "ReorderPinnedDialogs",
   MessagesReorderStickerSets |-> "ReorderStickerSets",
   MessagesReportEncryptedSpam |-> "ReportEncryptedSpam", MessagesReportSpam |-> "ReportSpam",
   MessagesRequestEncryption |-> "RequestEncryption", MessagesSaveDraft |-> "SaveDraft",
   MessagesSaveGif |-> "SaveGif", MessagesSaveRecentSticker |-> "SaveRecentSticker",
   MessagesSearch |-> "Search", MessagesSearchGifs |-> "SearchGifs",
   MessagesSearchGlobal |-> "SearchGlobal", MessagesSendEncrypted |-> "SendEncrypted",
   MessagesSendEncryptedFile |-> "SendEncryptedFile",
   MessagesSendEncryptedService |-> "SendEncryptedService",
   MessagesSendInlineBotResult |-> "SendInlineBotResult", MessagesSendMedia |-> "SendMedia",
   MessagesSendMessage |-> "SendMessage",
   MessagesSendScreenshotNotification |-> "SendScreenshotNotification",
   MessagesSetBotCallbackAnswer |-> "SetBotCallbackAnswer",
   MessagesSetBotPrecheckoutResults |-> "SetBotPrecheckoutResults",
   MessagesSetBotShippingResults |-> "SetBotShippingResults",
   MessagesSetEncryptedTyping |-> "SetEncryptedTyping", MessagesSetGameScore |-> "SetGameScore",
   MessagesSetInlineBotResults |-> "SetInlineBotResults",
   MessagesSetInlineGameScore |-> "SetInlineGameScore", MessagesSetTyping |-> "SetTyping",
   MessagesStartBot |-> "StartBot", MessagesToggleChatAdmins |-> "ToggleChatAdmins",
   MessagesToggleDialogPin |-> "ToggleDialogPin",
   MessagesUninstallStickerSet |-> "UninstallStickerSet", MessagesUploadMedia |-> "UploadMedia"]
MessagesProcessing ==
  [AcceptEncryption |-> "MessagesAcceptEncryption", AddChatUser |-> "MessagesAddChatUser",
   CheckChatInvite |-> "MessagesCheckChatInvite",
   ClearRecentStickers |-> "MessagesClearRecentStickers", CreateChat |-> "MessagesCreateChat",
   DeleteChatUser |-> "MessagesDeleteChatUser", DeleteHistory |-> "MessagesDeleteHistory",
   DeleteMessages |-> "MessagesDeleteMessages", DiscardEncryption |-> "MessagesDiscardEncryption",
   EditChatAdmin |-> "MessagesEditChatAdmin", EditChatPhoto |-> "MessagesEditChatPhoto",
   EditChatTitle |-> "MessagesEditChatTitle",
   EditInlineBotMessage |-> "MessagesEditInlineBotMessage", EditMessage |-> "MessagesEditMessage",
   ExportChatInvite |-> "MessagesExportChatInvite", FaveSticker |-> "MessagesFaveSticker",
   ForwardMessage |-> "MessagesForwardMessage", ForwardMessages |-> "MessagesForwardMessages",
   GetAllChats |-> "MessagesGetAllChats", GetAllDrafts |-> "MessagesGetAllDrafts",
   GetAllStickers |-> "MessagesGetAllStickers",
   GetArchivedStickers |-> "MessagesGetArchivedStickers",
   GetAttachedStickers |-> "MessagesGetAttachedStickers",
   GetBotCallbackAnswer |-> "MessagesGetBotCallbackAnswer", GetChats |-> "MessagesGetChats",
   GetCommonChats |-> "MessagesGetCommonChats", GetDhConfig |-> "MessagesGetDhConfig",
   GetDialogs |-> "MessagesGetDialogs", GetDocumentByHash |-> "MessagesGetDocumentByHash",
   GetFavedStickers |-> "MessagesGetFavedStickers",
   GetFeaturedStickers |-> "MessagesGetFeaturedStickers", GetFullChat |-> "MessagesGetFullChat",
   GetGameHighScores |-> "MessagesGetGameHighScores", GetHistory |-> "MessagesGetHistory",
   GetInlineBotResults |-> "MessagesGetInlineBotResults",
   GetInlineGameHighScores |-> "MessagesGetInlineGameHighScores",
   GetMaskStickers |-> "MessagesGetMaskStickers",
   GetMessageEditData |-> "MessagesGetMessageEditData", GetMessages |-> "MessagesGetMessages",
   GetMessagesViews |-> "MessagesGetMessagesViews", GetPeerDialogs |-> "MessagesGetPeerDialogs",
   GetPeerSettings |-> "MessagesGetPeerSettings", GetPinnedDialogs |-> "MessagesGetPinnedDialogs",
   GetRecentLocations |-> "MessagesGetRecentLocations",
   GetRecentStickers |-> "MessagesGetRecentStickers", GetSavedGifs |-> "MessagesGetSavedGifs",
   GetStickerSet |-> "MessagesGetStickerSet", GetUnreadMentions |-> "MessagesGetUnreadMentions",
   GetWebPage |-> "MessagesGetWebPage", GetWebPagePreview |-> "MessagesGetWebPagePreview",
   HideReportSpam |-> "MessagesHideReportSpam", ImportChatInvite |-> "MessagesImportChatInvite",
   InstallStickerSet |-> "MessagesInstallStickerSet", MigrateChat |-> "MessagesMigrateChat",
   ReadEncryptedHistory |-> "MessagesReadEncryptedHistory",
   ReadFeaturedStickers |-> "MessagesReadFeaturedStickers", ReadHistory |-> "MessagesReadHistory",
   ReadMentions |-> "MessagesReadMentions", ReadMessageContents |-> "MessagesReadMessageContents",
   ReceivedMessages |-> "MessagesReceivedMessages", ReceivedQueue |-> "MessagesReceivedQueue",
   ReorderPinnedDialogs |-> "MessagesReorderPinnedDialogs",
   ReorderStickerSets |-> "MessagesReorderStickerSets",
   ReportEncryptedSpam |-> "MessagesReportEncryptedSpam", ReportSpam |-> "MessagesReportSpam",
   RequestEncryption |-> "MessagesRequestEncryption", SaveDraft |-> "MessagesSaveDraft",
   SaveGif |-> "MessagesSaveGif", SaveRecentSticker |-> "MessagesSaveRecentSticker",
   Search |-> "MessagesSearch", SearchGifs |-> "MessagesSearchGifs",
   SearchGlobal |-> "MessagesSearchGlobal", SendEncrypted |-> "MessagesSendEncrypted",
   SendEncryptedFile |-> "MessagesSendEncryptedFile",
   SendEncryptedService |-> "MessagesSendEncryptedService",
   SendInlineBotResult |-> "MessagesSendInlineBotResult", SendMedia |-> "MessagesSendMedia",
   SendMessage |-> "MessagesSendMessage",
   SendScreenshotNotification |-> "MessagesSendScreenshotNotification",
   SetBotCallbackAnswer |-> "MessagesSetBotCallbackAnswer",
   SetBotPrecheckoutResults |-> "MessagesSetBotPrecheckoutResults",
   SetBotShippingResults |-> "MessagesSetBotShippingResults",
   SetEncryptedTyping |-> "MessagesSetEncryptedTyping", SetGameScore |-> "MessagesSetGameScore",
   SetInlineBotResults |-> "MessagesSetInlineBotResults",
   SetInlineGameScore |-> "MessagesSetInlineGameScore", SetTyping |-> "MessagesSetTyping",
   StartBot |-> "MessagesStartBot", ToggleChatAdmins |-> "MessagesToggleChatAdmins",
   ToggleDialogPin |-> "MessagesToggleDialogPin",
   UninstallStickerSet |-> "MessagesUninstallStickerSet", UploadMedia |-> "MessagesUploadMedia"]
MessagesReplies ==
  Answers({"AcceptEncryption", "RequestEncryption"}, Tl("EncryptedChat"))
  @@ Answers({"AddChatUser", "CreateChat", "DeleteChatUser", "EditChatPhoto", "EditChatTitle",
      "EditMessage", "ForwardMessage", "ForwardMessages", "GetAllDrafts", "ImportChatInvite",
      "MigrateChat", "SendInlineBotResult", "SendMedia", "SendMessage",
      "SendScreenshotNotification", "SetGameScore", "StartBot", "ToggleChatAdmins"},
      Tl("Updates"))
  @@ Answers({"CheckChatInvite"}, Tl("ChatInvite"))
  @@ Answers({"ClearRecentStickers", "DiscardEncryption", "EditChatAdmin",
      "EditInlineBotMessage", "FaveSticker", "HideReportSpam", "ReadEncryptedHistory",
      "ReadFeaturedStickers", "ReorderPinnedDialogs", "ReorderStickerSets",
      "ReportEncryptedSpam", "ReportSpam", "SaveDraft", "SaveGif", "SaveRecentSticker",
      "SetBotCallbackAnswer", "SetBotPrecheckoutResults", "SetBotShippingResults",
      "SetEncryptedTyping", "SetInlineBotResults", "SetInlineGameScore", "SetTyping",
      "ToggleDialogPin", "UninstallStickerSet"}, bool)
  @@ Answers({"DeleteHistory", "ReadMentions"}, Tl("MessagesAffectedHistory"))
  @@ Answers({"DeleteMessages", "ReadHistory", "ReadMessageContents"},
      Tl("MessagesAffectedMessages"))
  @@ Answers({"ExportChatInvite"}, Tl("ExportedChatInvite"))
  @@ Answers({"GetAllChats", "GetChats", "GetCommonChats"}, Tl("MessagesChats"))
  @@ Answers({"GetAllStickers", "GetMaskStickers"}, Tl("MessagesAllStickers"))
  @@ Answers({"GetArchivedStickers"}, Tl("MessagesArchivedStickers"))
  @@ Answers({"GetAttachedStickers"}, Vector(Tl("StickerSetCovered")))
  @@ Answers({"GetBotCallbackAnswer"}, Tl("MessagesBotCallbackAnswer"))
  @@ Answers({"GetDhConfig"}, Tl("MessagesDhConfig"))
  @@ Answers({"GetDialogs"}, Tl("MessagesDialogs"))
  @@ Answers({"GetDocumentByHash"}, Tl("Document"))
  @@ Answers({"GetFavedStickers"}, Tl("MessagesFavedStickers"))
  @@ Answers({"GetFeaturedStickers"}, Tl("MessagesFeaturedStickers"))
  @@ Answers({"GetFullChat"}, Tl("MessagesChatFull"))
  @@ Answers({"GetGameHighScores", "GetInlineGameHighScores"}, Tl("MessagesHighScores"))
  @@ Answers({"GetHistory", "GetMessages", "GetRecentLocations", "GetUnreadMentions", "Search",
      "SearchGlobal"}, Tl("MessagesMessages"))
  @@ Answers({"GetInlineBotResults"}, Tl("MessagesBotResults"))
  @@ Answers({"GetMessageEditData"}, Tl("MessagesMessageEditData"))
  @@ Answers({"GetMessagesViews"}, Vector(quint32))
  @@ Answers({"GetPeerDialogs", "GetPinnedDialogs"}, Tl("MessagesPeerDialogs"))
  @@ Answers({"GetPeerSettings"}, Tl("PeerSettings"))
  @@ Answers({"GetRecentStickers"}, Tl("MessagesRecentStickers"))
  @@ Answers({"GetSavedGifs"}, Tl("MessagesSavedGifs"))
  @@ Answers({"GetStickerSet"}, Tl("MessagesStickerSet"))
  @@ Answers({"GetWebPage"}, Tl("WebPage"))
  @@ Answers({"GetWebPagePreview", "UploadMedia"}, Tl("MessageMedia"))
  @@ Answers({"InstallStickerSet"}, Tl("MessagesStickerSetInstallResult"))
  @@ Answers({"ReceivedMessages"}, Vector(Tl("ReceivedNotifyMessage")))
  @@ Answers({"ReceivedQueue"}, Vector(quint64))
  @@ Answers({"SearchGifs"}, Tl("MessagesFoundGifs"))
  @@ Answers({"SendEncrypted", "SendEncryptedFile", "SendEncryptedService"},
      Tl("MessagesSentEncryptedMessage"))

PaymentsMethods ==
  [PaymentsClearSavedInfo |-> "ClearSavedInfo", PaymentsGetPaymentForm |-> "GetPaymentForm",
   PaymentsGetPaymentReceipt |-> "GetPaymentReceipt", PaymentsGetSavedInfo |-> "GetSavedInfo",
   PaymentsSendPaymentForm |-> "SendPaymentForm",
   PaymentsValidateRequestedInfo |-> "ValidateRequestedInfo"]
PaymentsProcessing ==
  [ClearSavedInfo |-> "PaymentsClearSavedInfo", GetPaymentForm |-> "PaymentsGetPaymentForm",
   GetPaymentReceipt |-> "PaymentsGetPaymentReceipt", GetSavedInfo |-> "PaymentsGetSavedInfo",
   SendPaymentForm |-> "PaymentsSendPaymentForm",
   ValidateRequestedInfo |-> "PaymentsValidateRequestedInfo"]
PaymentsReplies ==
  Answers({"ClearSavedInfo"}, bool)
  @@ Answers({"GetPaymentForm"}, Tl("PaymentsPaymentForm"))
  @@ Answers({"GetPaymentReceipt"}, Tl("PaymentsPaymentReceipt"))
  @@ Answers({"GetSavedInfo"}, Tl("PaymentsSavedInfo"))
  @@ Answers({"SendPaymentForm"}, Tl("PaymentsPaymentResult"))
  @@ Answers({"ValidateRequestedInfo"}, Tl("PaymentsValidatedRequestedInfo"))

PhoneMethods ==
  [PhoneAcceptCall |-> "AcceptCall", PhoneConfirmCall |-> "ConfirmCall",
   PhoneDiscardCall |-> "DiscardCall", PhoneGetCallConfig |-> "GetCallConfig",
   PhoneReceivedCall |-> "ReceivedCall", PhoneRequestCall |-> "RequestCall",
   PhoneSaveCallDebug |-> "SaveCallDebug", PhoneSetCallRating |-> "SetCallRating"]
PhoneProcessing ==
  [AcceptCall |-> "PhoneAcceptCall", ConfirmCall |-> "PhoneConfirmCall",
   DiscardCall |-> "PhoneDiscardCall", GetCallConfig |-> "PhoneGetCallConfig",
   ReceivedCall |-> "PhoneReceivedCall", RequestCall |-> "PhoneRequestCall",
   SaveCallDebug |-> "PhoneSaveCallDebug", SetCallRating |-> "PhoneSetCallRating"]
PhoneReplies ==
  Answers({"AcceptCall", "ConfirmCall", "RequestCall"}, Tl("PhonePhoneCall"))
  @@ Answers({"DiscardCall", "SetCallRating"}, Tl("Updates"))
  @@ Answers({"GetCallConfig"}, Tl("DataJSON"))
  @@ Answers({"ReceivedCall", "SaveCallDebug"}, bool)

PhotosMethods ==
  [PhotosDeletePhotos |-> "DeletePhotos", PhotosGetUserPhotos |-> "GetUserPhotos",
   PhotosUpdateProfilePhoto |-> "UpdateProfilePhoto",
   PhotosUploadProfilePhoto |-> "UploadProfilePhoto"]
PhotosProcessing ==
  [DeletePhotos |-> "PhotosDeletePhotos", GetUserPhotos |-> "PhotosGetUserPhotos",
   UpdateProfilePhoto |-> "PhotosUpdateProfilePhoto",
   UploadProfilePhoto |-> "PhotosUploadProfilePhoto"]
PhotosReplies ==
  Answers({"DeletePhotos"}, Vector(quint64))
  @@ Answers({"GetUserPhotos"}, Tl("PhotosPhotos"))
  @@ Answers({"UpdateProfilePhoto"}, Tl("UserProfilePhoto"))
  @@ Answers({"UploadProfilePhoto"}, Tl("PhotosPhoto"))

StickersMethods ==
  [StickersAddStickerToSet |-> "AddStickerToSet",
   StickersChangeStickerPosition |-> "ChangeStickerPosition",
   StickersCreateStickerSet |-> "CreateStickerSet",
   StickersRemoveStickerFromSet |-> "RemoveStickerFromSet"]
StickersProcessing ==
  [AddStickerToSet |-> "StickersAddStickerToSet",
   ChangeStickerPosition |-> "StickersChangeStickerPosition",
   CreateStickerSet |-> "StickersCreateStickerSet",
   RemoveStickerFromSet |-> "StickersRemoveStickerFromSet"]
StickersReplies ==
  Answers({"AddStickerToSet", "ChangeStickerPosition", "CreateStickerSet",
      "RemoveStickerFromSet"}, Tl("MessagesStickerSet"))

UpdatesMethods ==
  [UpdatesGetChannelDifference |-> "GetChannelDifference",
      UpdatesGetDifference |-> "GetDifference",
   UpdatesGetState |-> "GetState"]
UpdatesProcessing ==
  [GetChannelDifference |-> "UpdatesGetChannelDifference",
      GetDifference |-> "UpdatesGetDifference",
   GetState |-> "UpdatesGetState"]
UpdatesReplies ==
  Answers({"GetChannelDifference"}, Tl("UpdatesChannelDifference"))
  @@ Answers({"GetDifference"}, Tl("UpdatesDifference"))
  @@ Answers({"GetState"}, Tl("UpdatesState"))

UploadMethods ==
  [UploadGetCdnFile |-> "GetCdnFile", UploadGetCdnFileHashes |-> "GetCdnFileHashes",
   UploadGetFile |-> "GetFile", UploadGetWebFile |-> "GetWebFile",
   UploadReuploadCdnFile |-> "ReuploadCdnFile", UploadSaveBigFilePart |-> "SaveBigFilePart",
   UploadSaveFilePart |-> "SaveFilePart"]
UploadProcessing ==
  [GetCdnFile |-> "UploadGetCdnFile", GetCdnFileHashes |-> "UploadGetCdnFileHashes",
   GetFile |-> "UploadGetFile", GetWebFile |-> "UploadGetWebFile",
   ReuploadCdnFile |-> "UploadReuploadCdnFile", SaveBigFilePart |-> "UploadSaveBigFilePart",
   SaveFilePart |-> "UploadSaveFilePart"]
UploadReplies ==
  Answers({"GetCdnFile"}, Tl("UploadCdnFile"))
  @@ Answers({"GetCdnFileHashes", "ReuploadCdnFile"}, Vector(Tl("CdnFileHash")))
  @@ Answers({"GetFile"}, Tl("UploadFile"))
  @@ Answers({"GetWebFile"}, Tl("UploadWebFile"))
  @@ Answers({"SaveBigFilePart", "SaveFilePart"}, bool)

UsersMethods ==
  [UsersGetFullUser |-> "GetFullUser", UsersGetUsers |-> "GetUsers"]
UsersProcessing ==
  [GetFullUser |-> "UsersGetFullUser", GetUsers |-> "UsersGetUsers"]
UsersReplies ==
  Answers({"GetFullUser"}, Tl("UserFull"))
  @@ Answers({"GetUsers"}, Vector(Tl("User")))

\* The factories in the order the server asks them.
Factories ==
  <<"Account", "Auth", "Bots", "Channels", "Contacts", "Help", "Langpack", "Messages",
      "Payments", "Phone", "Photos", "Stickers", "Updates", "Upload", "Users">>

\* The arguments a process method reads; it goes on with the run method of the
\* same name.
Processing ==
  [Account |-> AccountProcessing, Auth |-> AuthProcessing, Bots |-> BotsProcessing,
      Channels |-> ChannelsProcessing, Contacts |-> ContactsProcessing, Help |-> HelpProcessing,
      Langpack |-> LangpackProcessing, Messages |-> MessagesProcessing,
      Payments |-> PaymentsProcessing, Phone |-> PhoneProcessing, Photos |-> PhotosProcessing,
      Stickers |-> StickersProcessing, Updates |-> UpdatesProcessing,
      Upload |-> UploadProcessing, Users |-> UsersProcessing]

Replies ==
  [Account |-> AccountReplies, Auth |-> AuthReplies, Bots |-> BotsReplies,
      Channels |-> ChannelsReplies, Contacts |-> ContactsReplies, Help |-> HelpReplies,
      Langpack |-> LangpackReplies, Messages |-> MessagesReplies, Payments |-> PaymentsReplies,
      Phone |-> PhoneReplies, Photos |-> PhotosReplies, Stickers |-> StickersReplies,
      Updates |-> UpdatesReplies, Upload |-> UploadReplies, Users |-> UsersReplies]

Methods ==
  [Account |-> AccountMethods, Auth |-> AuthMethods, Bots |-> BotsMethods,
      Channels |-> ChannelsMethods, Contacts |-> ContactsMethods, Help |-> HelpMethods,
      Langpack |-> LangpackMethods, Messages |-> MessagesMethods, Payments |-> PaymentsMethods,
      Phone |-> PhoneMethods, Photos |-> PhotosMethods, Stickers |-> StickersMethods,
      Updates |-> UpdatesMethods, Upload |-> UploadMethods, Users |-> UsersMethods]
=============================================================================
